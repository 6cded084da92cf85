---------------------------- MODULE AppProofs -----------------------------
(***************************************************************************)
(* The app: its handlers between their awaits, and its fetch of the node   *)
(* table.                                                                  *)
(*                                                                         *)
(* That the screen tells the truth about the connection, and that the      *)
(* characteristics and the cache belong to the device shown, for any       *)
(* devices, any number of taps and every overlap of the tasks.  None of    *)
(* the three properties is inductive.  A late event of a device is told    *)
(* from one of the device shown since the controller listens to the device *)
(* it shows; a late answer is, since it needs a link, and a user who has   *)
(* not changed devices has one link at most, to the device shown.          *)
(*                                                                         *)
(* That a clean fetch that succeeds has every node, once, for any table,   *)
(* any page size, and any older request and response that it meets.  Both  *)
(* properties are about the last read only; the invariant follows the      *)
(* pages through the response buffer: an answer with the id of the current *)
(* snapshot has the records of its page, at least of the nodes that have   *)
(* stayed, and what the app has so far is the first pages of the snapshot. *)
(***************************************************************************)
EXTENDS ConnectApp, BleSnapshot, FiniteSetTheorems, SequenceTheorems, TLAPS

-------------------------------------------------------------------------------
(* The handlers: the invariant.                                            *)

\* The controller listens to the device it shows.
ListensToShown == listening = shown_id

\* A user who has not changed devices under way has no link, and no attempt at one, to
\* another device than the one shown.
OnlyShownIsLinked == ~switched => link \cup dialing \subseteq {shown_id}

\* A discovery is of the device whose event has started it.
DiscoversItself == \A d \in Devices : step[d] = "discover" => op[d] = d

\* The first page of a fetch and its second come from the same device.
PagesOfOneDevice ==
  ~switched => \A t \in Tasks : step[t] = "page1" => got[t] = {op[t]}

\* The inductive invariant.
AppInv ==
  /\ AppTypeOK
  /\ ListensToShown
  /\ OnlyShownIsLinked
  /\ DiscoversItself
  /\ PagesOfOneDevice
  /\ ConnectedIsLinked
  /\ GattIsOfShownDevice
  /\ CacheIsOfItsDevice

Steps == {"none", "discover", "reads", "page0", "page1", "save", "notify"}
Calls == {"discover", "page0", "page1", "notify"}

\* The types of the variables that belong to the tasks.
TaskTypes ==
  /\ step \in [Tasks -> Steps]
  /\ op \in [Tasks -> OrNone]
  /\ \A t \in Tasks : step[t] \in Calls => op[t] # None
  /\ got \in [Tasks -> SUBSET Devices]

\* The types of the variables that belong to the connection.
ConnTypes ==
  /\ link \subseteq Devices
  /\ listening \in OrNone
  /\ asked \subseteq Devices
  /\ dialing \subseteq Devices
  /\ status \in {"idle", "connecting", "connected", "disconnecting", "failed"}
  /\ shown_id \in OrNone
  /\ chars \in OrNone
  /\ subscribed \in OrNone
  /\ taps \in 0 .. MaxTaps

\* The types of the variables that belong to the nodes list.
NodeTypes ==
  /\ records \subseteq Devices
  /\ restored \in OrNone
  /\ cache \in [Devices -> (SUBSET Devices) \cup {None}]

-------------------------------------------------------------------------------
(* What the helpers do to the state of one task *)

\* A task that awaits a call with a characteristic that is held, or has ended, has its types.
LEMMA AwaitKeepsTypes ==
  ASSUME TaskTypes, got' \in [Tasks -> SUBSET Devices], NEW t \in Tasks, NEW s \in Steps, NEW d \in Devices,
         Await(t, s, d) \/ End(t)
  PROVE  TaskTypes'
<1>1. CASE Await(t, s, d)
  BY <1>1, AppAssumption DEF Await, TaskTypes, OrNone, Steps, Calls
<1>2. CASE End(t)
  BY <1>2, AppAssumption DEF End, TaskTypes, OrNone, Steps, Calls
<1> QED
  BY <1>1, <1>2

\* Starting a refresh, or what follows it, changes the state of this task alone, and leads it
\* neither to a discovery nor to a second page.
LEMMA RefreshEffect ==
  ASSUME TaskTypes, chars \in OrNone, got' \in [Tasks -> SUBSET Devices], NEW t \in Tasks,
         StartRefresh(t) \/ AfterRefresh(t)
  PROVE  /\ TaskTypes'
         /\ step'[t] \notin {"discover", "page1"}
         /\ \A u \in Tasks \ {t} : step'[u] = step[u] /\ op'[u] = op[u]
<1>1. CASE End(t)
  <2>1. TaskTypes'
    BY <1>1, AppAssumption DEF End, TaskTypes, OrNone, Steps, Calls
  <2> QED
    BY <1>1, <2>1 DEF End, TaskTypes
<1>2. CASE chars \in Devices /\ (Await(t, "page0", chars) \/ Await(t, "notify", chars))
  <2>1. TaskTypes'
    BY <1>2, AwaitKeepsTypes DEF Steps
  <2> QED
    BY <1>2, <2>1 DEF Await, TaskTypes
<1> QED
  BY <1>1, <1>2 DEF StartRefresh, AfterRefresh, OrNone

\* The type invariant is that of its three groups.
LEMMA TypesByGroup == AppTypeOK <=> ConnTypes /\ TaskTypes /\ NodeTypes /\ switched \in BOOLEAN
BY DEF AppTypeOK, ConnTypes, TaskTypes, NodeTypes, Steps, Calls

\* The same of the next state.
LEMMA TypesByGroupNext ==
  AppTypeOK' <=> ConnTypes' /\ TaskTypes' /\ NodeTypes' /\ switched' \in BOOLEAN
BY DEF AppTypeOK, ConnTypes, TaskTypes, NodeTypes, Steps, Calls

-------------------------------------------------------------------------------
(* The steps of the connection *)

\* What the events and the taps do to the types.
LEMMA ConnectionTypes ==
  ASSUME AppTypeOK, NEW d \in Devices,
         \/ TapConnect(d) \/ Dial(d) \/ FirstEvent(d) \/ DialSucceeds(d) \/ DialFails(d)
         \/ LinkLost(d) \/ TapDisconnect
  PROVE  AppTypeOK'
<1>1. ConnTypes /\ TaskTypes /\ NodeTypes /\ switched \in BOOLEAN
  BY TypesByGroup
<1>2. switched' \in BOOLEAN
  BY <1>1, Zenon DEF TapConnect, Dial, FirstEvent, DialSucceeds, DialFails, LinkLost, TapDisconnect
<1>3. ConnTypes'
  BY <1>1, AppAssumption
  DEF ConnTypes, OrNone, TapConnect, Dial, FirstEvent, DialSucceeds, DialFails, LinkLost,
      TapDisconnect, Teardown
<1>4. NodeTypes'
  <2>1. CASE Dial(d)
    <3>1. restored' = d /\ Restore(d)
      BY <2>1 DEF Dial, Restore
    <3>2. cache[d] # None => cache[d] \subseteq Devices
      BY <1>1 DEF NodeTypes
    <3>3. records' \subseteq Devices
      BY <3>1, <3>2, <1>1 DEF Restore, NodeTypes
    <3>4. cache' = cache \/ cache' = [cache EXCEPT ![d] = None]
      BY <3>1 DEF Restore
    <3>5. cache' \in [Devices -> (SUBSET Devices) \cup {None}]
      BY <3>4, <1>1 DEF NodeTypes
    <3> QED
      BY <3>1, <3>3, <3>5 DEF NodeTypes, OrNone
  <2>2. CASE ~Dial(d)
    <3>1. UNCHANGED nodeVars
      BY <2>2 DEF TapConnect, FirstEvent, DialSucceeds, DialFails, LinkLost, TapDisconnect, nodeVars
    <3> QED
      BY <3>1, <1>1 DEF NodeTypes, nodeVars
  <2> QED
    BY <2>1, <2>2
<1>5. TaskTypes'
  <2>1. CASE DialSucceeds(d)
    BY <2>1, <1>1, AppAssumption DEF DialSucceeds, TaskTypes, Steps, Calls, OrNone, Tasks
  <2>2. CASE ~DialSucceeds(d)
    <3>1. UNCHANGED <<step, op, got>>
      BY <2>2 DEF TapConnect, Dial, FirstEvent, DialFails, LinkLost, TapDisconnect
    <3> QED
      BY <3>1, <1>1 DEF TaskTypes
  <2> QED
    BY <2>1, <2>2
<1> QED
  BY <1>2, <1>3, <1>4, <1>5, TypesByGroupNext

\* The events and the taps keep the invariant.
LEMMA ConnectionStep ==
  ASSUME AppInv, NEW d \in Devices,
         \/ TapConnect(d) \/ Dial(d) \/ FirstEvent(d) \/ DialSucceeds(d) \/ DialFails(d)
         \/ LinkLost(d) \/ TapDisconnect
  PROVE  AppInv'
<1>1. AppTypeOK'
  BY ConnectionTypes DEF AppInv
<1>2. ConnTypes /\ TaskTypes /\ NodeTypes
  BY TypesByGroup DEF AppInv
<1>3. ListensToShown'
  BY DEF AppInv, ListensToShown, TapConnect, Dial, FirstEvent, DialSucceeds, DialFails, LinkLost,
         TapDisconnect
<1>4. ~switched' => ~switched
  BY Zenon DEF TapConnect, Dial, FirstEvent, DialSucceeds, DialFails, LinkLost, TapDisconnect
<1>5. Dial(d) /\ ~switched' => (link \cup dialing) \ {d} = {}
  BY Zenon DEF Dial
<1>6. OnlyShownIsLinked'
  BY <1>4, <1>5 DEF AppInv, OnlyShownIsLinked, TapConnect, Dial, FirstEvent, DialSucceeds, DialFails,
                    LinkLost, TapDisconnect
<1>7. DiscoversItself' /\ PagesOfOneDevice'
  <2>1. CASE DialSucceeds(d)
    BY <2>1, <1>2, <1>4 DEF AppInv, DiscoversItself, PagesOfOneDevice, DialSucceeds, TaskTypes, Tasks
  <2>2. CASE ~DialSucceeds(d)
    <3>1. UNCHANGED <<step, op, got>>
      BY <2>2 DEF TapConnect, Dial, FirstEvent, DialFails, LinkLost, TapDisconnect
    <3> QED
      BY <3>1, <1>4 DEF AppInv, DiscoversItself, PagesOfOneDevice
  <2> QED
    BY <2>1, <2>2
<1>8. ConnectedIsLinked'
  BY DEF AppInv, ListensToShown, ConnectedIsLinked, TapConnect, Dial, FirstEvent, DialSucceeds,
         DialFails, LinkLost, TapDisconnect
<1>9. GattIsOfShownDevice'
  BY <1>4, <1>5 DEF AppInv, ListensToShown, OnlyShownIsLinked, GattIsOfShownDevice, TapConnect,
                    Dial, FirstEvent, DialSucceeds, DialFails, LinkLost, TapDisconnect, Teardown
<1>10. CacheIsOfItsDevice'
  BY <1>2, <1>4 DEF AppInv, CacheIsOfItsDevice, NodeTypes, nodeVars, TapConnect, Dial, FirstEvent,
                    DialSucceeds, DialFails, LinkLost, TapDisconnect, Restore
<1> QED
  BY <1>1, <1>3, <1>6, <1>7, <1>8, <1>9, <1>10 DEF AppInv

-------------------------------------------------------------------------------
(* The steps of the tasks *)

\* A step of a task that leaves the connection alone keeps the invariant, if what it does to
\* the pages that have been read and to the cache is right.
LEMMA TaskStepKeeps ==
  ASSUME AppInv,
         UNCHANGED <<link, listening, asked, dialing, status, shown_id, taps, switched>>,
         AppTypeOK', DiscoversItself', PagesOfOneDevice', CacheIsOfItsDevice',
         chars' = chars \/ (~switched => chars' = shown_id /\ chars' \in link)
  PROVE  AppInv'
<1>1. ~switched' => ~switched
  BY Zenon
<1>2. ListensToShown' /\ ConnectedIsLinked'
  BY DEF AppInv, ListensToShown, ConnectedIsLinked
<1>3. OnlyShownIsLinked' /\ GattIsOfShownDevice'
  BY <1>1 DEF AppInv, OnlyShownIsLinked, GattIsOfShownDevice
<1> QED
  BY <1>2, <1>3 DEF AppInv

\* A refresh starts or ends: only the place of the task changes.
LEMMA RefreshStep ==
  ASSUME AppInv, NEW t \in Tasks, StartRefresh(t) \/ AfterRefresh(t),
         got' = got \/ got' = [got EXCEPT ![t] = {}],
         UNCHANGED <<connVars, taps, switched>>,
         NodeTypes', CacheIsOfItsDevice'
  PROVE  AppInv'
<1>1. ConnTypes /\ TaskTypes /\ switched \in BOOLEAN
  BY TypesByGroup DEF AppInv
<1>2. chars \in OrNone
  BY <1>1 DEF ConnTypes
<1>3. got' \in [Tasks -> SUBSET Devices]
  BY <1>1 DEF TaskTypes
<1>4. /\ TaskTypes'
      /\ step'[t] \notin {"discover", "page1"}
      /\ \A u \in Tasks \ {t} : step'[u] = step[u] /\ op'[u] = op[u]
  BY <1>1, <1>2, <1>3, RefreshEffect
<1>5. switched' = switched
  OBVIOUS
<1>6. ConnTypes'
  BY <1>1 DEF ConnTypes, connVars
<1>7. AppTypeOK'
  BY <1>1, <1>4, <1>5, <1>6, TypesByGroupNext
<1>8. DiscoversItself'
  BY <1>4 DEF AppInv, DiscoversItself, Tasks
<1>9. PagesOfOneDevice'
  <2>1. \A u \in Tasks \ {t} : got'[u] = got[u]
    BY <1>1 DEF TaskTypes
  <2>2. SUFFICES ASSUME ~switched, NEW u \in Tasks, step'[u] = "page1"
                 PROVE  got'[u] = {op'[u]}
    BY <1>5 DEF PagesOfOneDevice
  <2>3. u # t /\ step[u] = "page1" /\ op'[u] = op[u]
    BY <1>4, <2>2
  <2> QED
    BY <2>1, <2>2, <2>3 DEF AppInv, PagesOfOneDevice
<1> QED
  BY <1>7, <1>8, <1>9, TaskStepKeeps DEF connVars

\* A task awaits a call or ends, and has read nothing new.
LEMMA AwaitStep ==
  ASSUME AppInv, NEW t \in Tasks, NEW s \in Steps \ {"discover", "page1"}, NEW e \in Devices,
         Await(t, s, e) \/ End(t),
         UNCHANGED <<link, listening, asked, dialing, status, shown_id, nodeVars, taps, switched>>,
         got' = got \/ got' = [got EXCEPT ![t] = {}],
         subscribed' \in OrNone,
         chars' = chars \/ (chars' = e /\ (~switched => e = shown_id /\ e \in link))
  PROVE  AppInv'
<1>1. ConnTypes /\ TaskTypes /\ NodeTypes /\ switched \in BOOLEAN
  BY TypesByGroup DEF AppInv
<1>2. got' \in [Tasks -> SUBSET Devices]
  BY <1>1 DEF TaskTypes
<1>3. TaskTypes'
  BY <1>1, <1>2, AwaitKeepsTypes
<1>4. switched' = switched
  OBVIOUS
<1>5. ConnTypes' /\ NodeTypes'
  BY <1>1 DEF ConnTypes, NodeTypes, nodeVars, OrNone
<1>6. AppTypeOK'
  BY <1>1, <1>3, <1>4, <1>5, TypesByGroupNext
<1>7. step'[t] \notin {"discover", "page1"} /\ \A u \in Tasks \ {t} : step'[u] = step[u] /\ op'[u] = op[u]
  BY <1>1 DEF Await, End, TaskTypes
<1>8. DiscoversItself'
  BY <1>7 DEF AppInv, DiscoversItself, Tasks
<1>9. PagesOfOneDevice'
  <2>1. \A u \in Tasks \ {t} : got'[u] = got[u]
    BY <1>1 DEF TaskTypes
  <2>2. SUFFICES ASSUME ~switched, NEW u \in Tasks, step'[u] = "page1"
                 PROVE  got'[u] = {op'[u]}
    BY <1>4 DEF PagesOfOneDevice
  <2>3. u # t /\ step[u] = "page1" /\ op'[u] = op[u]
    BY <1>7, <2>2
  <2> QED
    BY <2>1, <2>2, <2>3 DEF AppInv, PagesOfOneDevice
<1>10. CacheIsOfItsDevice'
  <2>1. cache' = cache
    BY DEF nodeVars
  <2> QED
    BY <1>4, <2>1 DEF AppInv, CacheIsOfItsDevice
<1> QED
  BY <1>6, <1>8, <1>9, <1>10, TaskStepKeeps

\* What the tasks do keeps the invariant.
LEMMA TaskStep ==
  ASSUME AppInv,
         \/ \E d \in Devices : Discovered(d) \/ ReadsDone(d) \/ Subscribed(d)
         \/ UserRefreshes \/ Update
         \/ \E t \in Tasks : Page0(t) \/ LastPage(t) \/ Publish(t) \/ CallFails(t)
  PROVE  AppInv'
<1>1. ConnTypes /\ TaskTypes /\ NodeTypes /\ switched \in BOOLEAN
  BY TypesByGroup DEF AppInv
<1>2. (chars' = chars /\ cache' = cache /\ switched' = switched) => CacheIsOfItsDevice'
  BY DEF AppInv, CacheIsOfItsDevice
<1>3. UNCHANGED nodeVars => NodeTypes' /\ cache' = cache
  BY <1>1 DEF NodeTypes, nodeVars
<1>4. ASSUME NEW d \in Devices, Discovered(d) PROVE AppInv'
  <2>1. op[d] = d /\ d \in link
    BY <1>4 DEF Discovered, Answered, AppInv, DiscoversItself
  <2>2. ~switched => d = shown_id
    BY <2>1 DEF AppInv, OnlyShownIsLinked
  <2>3. /\ Await(d, "reads", d) \/ End(d)
        /\ chars' = chars \/ chars' = d
        /\ d \in Tasks /\ "reads" \in Steps \ {"discover", "page1"}
        /\ UNCHANGED <<link, listening, asked, dialing, status, shown_id, nodeVars, taps, switched>>
        /\ got' = got /\ subscribed' = subscribed
    BY <1>4 DEF Discovered, Tasks, Steps
  <2>4. subscribed' \in OrNone
    BY <2>3, <1>1 DEF ConnTypes
  <2> QED
    BY <2>1, <2>2, <2>3, <2>4, AwaitStep
<1>5. ASSUME NEW d \in Devices, ReadsDone(d) PROVE AppInv'
  <2>1. d \in Tasks /\ StartRefresh(d) /\ UNCHANGED <<connVars, got, nodeVars, taps, switched>>
    BY <1>5 DEF ReadsDone, Tasks
  <2> QED
    BY <2>1, <1>2, <1>3, RefreshStep DEF connVars
<1>6. ASSUME NEW d \in Devices, Subscribed(d) PROVE AppInv'
  <2>1. /\ End(d) /\ subscribed' = op[d] /\ d \in Tasks
        /\ "none" \in Steps \ {"discover", "page1"}
        /\ UNCHANGED <<link, listening, asked, dialing, status, shown_id, nodeVars, taps, switched>>
        /\ got' = got /\ chars' = chars
    BY <1>6 DEF Subscribed, Tasks, Steps
  <2>2. subscribed' \in OrNone
    BY <2>1, <1>1 DEF TaskTypes
  <2> QED
    BY <2>1, <2>2, AwaitStep
<1>7. CASE UserRefreshes
  <2>1. User \in Tasks /\ StartRefresh(User) /\ UNCHANGED <<connVars, got, nodeVars, taps, switched>>
    BY <1>7 DEF UserRefreshes, Tasks
  <2> QED
    BY <2>1, <1>2, <1>3, RefreshStep DEF connVars
<1>8. CASE Update
  <2>1. UNCHANGED <<connVars, step, op, got, restored, cache, taps, switched>>
    BY <1>8 DEF Update
  <2>2. records' \subseteq Devices
    BY <1>8, <1>1 DEF Update, ConnTypes, NodeTypes
  <2>3. ConnTypes' /\ TaskTypes' /\ NodeTypes'
    BY <2>1, <2>2, <1>1 DEF ConnTypes, TaskTypes, NodeTypes, connVars
  <2>4. AppTypeOK'
    BY <2>1, <2>3, <1>1, TypesByGroupNext
  <2>5. DiscoversItself' /\ PagesOfOneDevice'
    BY <2>1 DEF AppInv, DiscoversItself, PagesOfOneDevice
  <2> QED
    BY <2>1, <2>4, <2>5, <1>2, TaskStepKeeps DEF connVars
<1>9. ASSUME NEW t \in Tasks, Publish(t) PROVE AppInv'
  <2>1. /\ AfterRefresh(t) /\ got' = [got EXCEPT ![t] = {}] /\ records' = got[t]
        /\ UNCHANGED <<connVars, restored, cache, taps, switched>>
    BY <1>9 DEF Publish
  <2>2. NodeTypes'
    BY <2>1, <1>1 DEF TaskTypes, NodeTypes
  <2> QED
    BY <2>1, <2>2, <1>2, RefreshStep DEF connVars
<1>10. ASSUME NEW t \in Tasks, CallFails(t) PROVE AppInv'
  <2>1. /\ got' = [got EXCEPT ![t] = {}]
        /\ UNCHANGED <<connVars, nodeVars, taps, switched>>
    BY <1>10 DEF CallFails
  <2>2. CASE AfterRefresh(t)
    BY <2>1, <2>2, <1>2, <1>3, RefreshStep DEF connVars
  <2>3. CASE End(t)
    <3>1. TaskTypes'
      <4>1. got' \in [Tasks -> SUBSET Devices]
        BY <2>1, <1>1 DEF TaskTypes
      <4> QED
        BY <2>3, <4>1, <1>1 DEF TaskTypes, End, Steps, Calls, OrNone
    <3>2. ConnTypes' /\ NodeTypes' /\ switched' = switched /\ chars' = chars
      BY <2>1, <1>1, <1>3 DEF ConnTypes, connVars
    <3>3. AppTypeOK'
      BY <3>1, <3>2, <1>1, TypesByGroupNext
    <3>4. DiscoversItself' /\ PagesOfOneDevice'
      BY <2>1, <2>3, <3>2, <1>1 DEF AppInv, DiscoversItself, PagesOfOneDevice, End, TaskTypes, Tasks
    <3> QED
      BY <2>1, <3>2, <3>3, <3>4, <1>2, <1>3, TaskStepKeeps DEF connVars
  <2> QED
    BY <1>10, <2>2, <2>3 DEF CallFails
<1>11. ASSUME NEW t \in Tasks, Page0(t) PROVE AppInv'
  <2>1. /\ step[t] = "page0" /\ op[t] \in link
        /\ got' = [got EXCEPT ![t] = {op[t]}]
        /\ UNCHANGED <<connVars, nodeVars, taps, switched>>
    BY <1>11 DEF Page0, Answered
  <2>2. End(t) \/ (chars \in Devices /\ Await(t, "page1", chars))
    BY <1>11, <1>1 DEF Page0, AfterRefresh, ConnTypes, OrNone
  <2>3. ~switched => op[t] = shown_id /\ (chars # None => chars = op[t])
    BY <2>1 DEF AppInv, OnlyShownIsLinked, GattIsOfShownDevice
  <2>4. TaskTypes'
    <3>1. got' \in [Tasks -> SUBSET Devices]
      BY <2>1, <1>1 DEF TaskTypes, ConnTypes
    <3>2. "page1" \in Steps
      BY DEF Steps
    <3>3. CASE End(t)
      BY <3>1, <3>3, <1>1, AppAssumption DEF TaskTypes, End, Steps, Calls, OrNone
    <3> QED
      BY <2>2, <3>1, <3>2, <3>3, <1>1, AwaitKeepsTypes
  <2>5. ConnTypes' /\ NodeTypes' /\ switched' = switched /\ chars' = chars
    BY <2>1, <1>1, <1>3 DEF ConnTypes, connVars
  <2>6. AppTypeOK'
    BY <2>4, <2>5, <1>1, TypesByGroupNext
  <2>7. DiscoversItself'
    BY <2>2, <1>1 DEF AppInv, DiscoversItself, Await, End, TaskTypes, Tasks
  <2>8. PagesOfOneDevice'
    <3>1. SUFFICES ASSUME ~switched, NEW u \in Tasks, step'[u] = "page1"
                   PROVE  got'[u] = {op'[u]}
      BY <2>5 DEF PagesOfOneDevice
    <3>2. CASE u = t
      <4>1. Await(t, "page1", chars) /\ chars \in Devices
        BY <2>2, <3>1, <3>2, <1>1 DEF End, TaskTypes
      <4>2. op'[t] = chars /\ got'[t] = {op[t]} /\ chars # None
        BY <4>1, <2>1, <1>1, AppAssumption DEF Await, TaskTypes
      <4> QED
        BY <4>2, <2>3, <3>1, <3>2
    <3>3. CASE u # t
      <4>1. step'[u] = step[u] /\ op'[u] = op[u] /\ got'[u] = got[u]
        BY <2>1, <2>2, <3>3, <1>1 DEF Await, End, TaskTypes
      <4> QED
        BY <4>1, <3>1 DEF AppInv, PagesOfOneDevice
    <3> QED
      BY <3>2, <3>3
  <2> QED
    BY <2>1, <2>5, <2>6, <2>7, <2>8, <1>2, <1>3, TaskStepKeeps DEF connVars
<1>12. ASSUME NEW t \in Tasks, LastPage(t) PROVE AppInv'
  <2>1. /\ step[t] = "page1" /\ op[t] \in link
        /\ UNCHANGED <<connVars, records, restored, taps, switched>>
    BY <1>12 DEF LastPage, Answered
  <2>2. CASE UNCHANGED <<got, cache>> /\ (StartRefresh(t) \/ AfterRefresh(t))
    <3>1. NodeTypes'
      BY <2>1, <2>2, <1>1 DEF NodeTypes
    <3> QED
      BY <2>1, <2>2, <3>1, <1>2, RefreshStep DEF connVars
  <2>3. CASE /\ got' = [got EXCEPT ![t] = @ \cup {op[t]}]
             /\ Keep(got'[t])
             /\ step' = [step EXCEPT ![t] = "save"]
             /\ op' = [op EXCEPT ![t] = None]
    <3>1. got'[t] = got[t] \cup {op[t]} /\ got'[t] \subseteq Devices
      BY <2>1, <2>3, <1>1 DEF TaskTypes, ConnTypes
    <3>2. cache' = [cache EXCEPT ![shown_id] = got'[t]]
      BY <2>3 DEF Keep
    <3>3. TaskTypes'
      <4>1. got' \in [Tasks -> SUBSET Devices]
        BY <2>1, <2>3, <1>1 DEF TaskTypes, ConnTypes
      <4> QED
        BY <2>3, <4>1, <1>1 DEF TaskTypes, Steps, Calls, OrNone
    <3>4. NodeTypes'
      BY <2>1, <3>1, <3>2, <1>1 DEF NodeTypes
    <3>5. ConnTypes' /\ switched' = switched /\ chars' = chars
      BY <2>1, <1>1 DEF ConnTypes, connVars
    <3>6. AppTypeOK'
      BY <3>3, <3>4, <3>5, <1>1, TypesByGroupNext
    <3>7. DiscoversItself'
      BY <2>3, <1>1 DEF AppInv, DiscoversItself, TaskTypes, Tasks
    <3>8. PagesOfOneDevice'
      BY <2>3, <3>5, <1>1 DEF AppInv, PagesOfOneDevice, TaskTypes
    <3>9. CacheIsOfItsDevice'
      <4>1. SUFFICES ASSUME ~switched, NEW d \in Devices
                     PROVE  cache'[d] \in {None, {d}}
        BY <3>5 DEF CacheIsOfItsDevice
      <4>2. got'[t] = {shown_id}
        BY <2>1, <3>1, <4>1 DEF AppInv, PagesOfOneDevice, OnlyShownIsLinked
      <4>3. d # shown_id => cache'[d] = cache[d]
        BY <3>2, <1>1 DEF NodeTypes
      <4>4. d = shown_id => cache'[d] = {d}
        BY <3>2, <4>2, <1>1 DEF NodeTypes
      <4> QED
        BY <4>1, <4>3, <4>4 DEF AppInv, CacheIsOfItsDevice
    <3> QED
      BY <2>1, <3>5, <3>6, <3>7, <3>8, <3>9, TaskStepKeeps DEF connVars
  <2> QED
    BY <1>12, <2>2, <2>3 DEF LastPage
<1> QED
  BY <1>4, <1>5, <1>6, <1>7, <1>8, <1>9, <1>10, <1>11, <1>12

-------------------------------------------------------------------------------

\* The app starts without a connection, and with caches of earlier runs.
LEMMA InitApp == AppInit => AppInv
<1> SUFFICES ASSUME AppInit PROVE AppInv
  OBVIOUS
<1>1. PICK known \in SUBSET Devices : cache = [d \in Devices |-> IF d \in known THEN {d} ELSE None]
  BY DEF AppInit
<1>2. cache \in [Devices -> (SUBSET Devices) \cup {None}]
  BY <1>1
<1>3. restored \in OrNone /\ records \subseteq Devices
  BY <1>2 DEF AppInit, OrNone
<1>4. switched \in BOOLEAN
  BY Zenon DEF AppInit
<1>5. TaskTypes
  BY DEF AppInit, TaskTypes, OrNone, Steps, Calls
<1>6. ConnTypes
  BY AppAssumption DEF AppInit, ConnTypes, OrNone
<1>7. AppTypeOK
  BY <1>2, <1>3, <1>4, <1>5, <1>6, TypesByGroup DEF NodeTypes
<1>8. CacheIsOfItsDevice
  BY <1>1 DEF CacheIsOfItsDevice
<1>9. /\ ListensToShown /\ OnlyShownIsLinked /\ DiscoversItself /\ PagesOfOneDevice
      /\ ConnectedIsLinked /\ GattIsOfShownDevice
  BY DEF AppInit, ListensToShown, OnlyShownIsLinked, DiscoversItself, PagesOfOneDevice, ConnectedIsLinked,
         GattIsOfShownDevice, Tasks
<1> QED
  BY <1>7, <1>8, <1>9 DEF AppInv

\* Every step keeps the invariant.
LEMMA AppStep == AppInv /\ [AppNext]_appVars => AppInv'
<1> SUFFICES ASSUME AppInv, [AppNext]_appVars PROVE AppInv'
  OBVIOUS
<1>1. CASE \E d \in Devices :
             \/ TapConnect(d) \/ Dial(d) \/ FirstEvent(d) \/ DialSucceeds(d) \/ DialFails(d)
             \/ LinkLost(d)
  BY <1>1, ConnectionStep
<1>2. CASE TapDisconnect
  <2>1. shown_id \in Devices
    BY <1>2 DEF AppInv, AppTypeOK, ConnectedIsLinked, TapDisconnect
  <2> QED
    BY <1>2, <2>1, ConnectionStep
<1>3. CASE DisconnectFails
  <2>1. AppTypeOK'
    BY <1>3 DEF AppInv, AppTypeOK, DisconnectFails, nodeVars
  <2> QED
    BY <1>3, <2>1 DEF AppInv, ListensToShown, OnlyShownIsLinked, DiscoversItself, PagesOfOneDevice,
                      ConnectedIsLinked, GattIsOfShownDevice, CacheIsOfItsDevice, DisconnectFails,
                      nodeVars
<1>4. CASE \/ \E d \in Devices : Discovered(d) \/ ReadsDone(d) \/ Subscribed(d)
           \/ UserRefreshes \/ Update
           \/ \E t \in Tasks : Page0(t) \/ LastPage(t) \/ Publish(t) \/ CallFails(t)
  BY <1>4, TaskStep
<1>5. CASE UNCHANGED appVars
  <2>1. /\ UNCHANGED <<link, listening, asked, dialing, status, shown_id, chars, subscribed>>
        /\ UNCHANGED <<step, op, got, records, restored, cache, taps, switched>>
    BY <1>5 DEF appVars, connVars, nodeVars
  <2>2. AppTypeOK'
    BY <2>1 DEF AppInv, AppTypeOK
  <2> QED
    BY <2>1, <2>2 DEF AppInv, ListensToShown, OnlyShownIsLinked, DiscoversItself, PagesOfOneDevice,
                      ConnectedIsLinked, GattIsOfShownDevice, CacheIsOfItsDevice
<1> QED
  BY <1>1, <1>2, <1>3, <1>4, <1>5 DEF AppNext

\* The invariant holds throughout, for any devices and any number of taps.
THEOREM AppInvariant == AppSpec => []AppInv
BY InitApp, AppStep, PTL DEF AppSpec

\* A device that is shown as connected is connected, whatever events are late.
THEOREM ScreenIsTrue == AppSpec => []ConnectedIsLinked
<1>1. AppInv => ConnectedIsLinked
  BY DEF AppInv
<1> QED
  BY AppInvariant, <1>1, PTL

\* Unless the user changes devices under way, what the controller reads and writes is on the
\* device shown, whatever handlers come back after a disconnect or a reconnect.
THEOREM GattIsTrue == AppSpec => []GattIsOfShownDevice
<1>1. AppInv => GattIsOfShownDevice
  BY DEF AppInv
<1> QED
  BY AppInvariant, <1>1, PTL

\* Unless the user changes devices under way, no device's records are kept for another.
THEOREM CacheIsTrue == AppSpec => []CacheIsOfItsDevice
<1>1. AppInv => CacheIsOfItsDevice
  BY DEF AppInv
<1> QED
  BY AppInvariant, <1>1, PTL

-------------------------------------------------------------------------------
(* The fetch of the node table: the invariant.                             *)

Least(m, n) == IF m <= n THEN m ELSE n

\* Snapshots made since the one with this id; ids come round after IdModulus of them.
Age(id) == IF id <= snapshot.id THEN snapshot.id - id ELSE snapshot.id + IdModulus - id

\* So many pages are enough for the table.
EnoughPages == PageCount(Cardinality(Used))

\* The records held, for the entries of the snapshot from first on, are of the nodes that are
\* there now, or of nodes evicted since, whose slots no steady node has.
InPlace(held, first) ==
  \A k \in 1 .. Len(held) :
    \/ held[k] = slots[snapshot.indices[first + k]]
    \/ held[k] \in gone /\ slots[snapshot.indices[first + k]] \notin steady

\* No node is in two slots; the snapshot has slots in use, each once, and every slot of a
\* node that has been in the table since it was made.
SlotsDistinct == \A i, j \in Used : slots[i] = slots[j] => i = j

SnapshotSound ==
  /\ Len(snapshot.indices) > 0
  /\ IsInjective(snapshot.indices)
  /\ Range(snapshot.indices) \subseteq Used
  /\ \A i \in Used : slots[i] \in steady => i \in Range(snapshot.indices)

\* An answer has a page that the table has; if it is of the current snapshot, it has the
\* records of its page.
AnswerSound(a) ==
  /\ a.page < a.pages /\ a.pages <= EnoughPages
  /\ Len(a.records) > 0
  /\ a.id = snapshot.id =>
       /\ Len(snapshot.indices) <= a.pages * PageSize
       /\ Len(a.records) = Least(PageSize, Len(snapshot.indices) - a.page * PageSize)
       /\ InPlace(a.records, a.page * PageSize)

\* The answer being copied is of the current snapshot, the one it replaces of this or the last.
AnswersSound ==
  /\ AnswerSound(response)
  /\ Age(response.id) <= 1
  /\ filling = NoAnswer => response.id = snapshot.id
  /\ filling # NoAnswer => AnswerSound(filling) /\ filling.id = snapshot.id

\* No page is asked for that the table does not have: it never shrinks.
RequestSound == request.page < EnoughPages

FetchTypeOK ==
  fetch \in [phase : {"idle", "asking", "writing", "reading", "done", "failed"},
             page : 0 .. MaxNodes, retried : BOOLEAN, id : Ids, pages : 0 .. MaxNodes,
             first : 0 .. MaxNodes, records : Seq(NodeIds), torn : BOOLEAN]

\* If it is a clean one of the current snapshot, a fetch has the first pages of it.
FetchHolds(f) ==
  f.id = snapshot.id /\ f.first = 0 /\ ~f.torn =>
    /\ Len(snapshot.indices) <= f.pages * PageSize
    /\ Len(f.records) = Least(f.page * PageSize, Len(snapshot.indices))
    /\ InPlace(f.records, 0)

\* The snapshot of a fetch is too young for its id to have come round.
FetchSound ==
  InProgress =>
    /\ fetch.page = 0 => fetch.records = <<>> /\ fetch.torn = FALSE
    /\ fetch.page > 0 =>
         /\ fetch.page < fetch.pages /\ fetch.pages <= EnoughPages
         /\ Age(fetch.id) <= made + 1
         /\ FetchHolds(fetch)

SnapInv ==
  /\ SnapshotTypeOK /\ FetchTypeOK
  /\ SlotsDistinct /\ SnapshotSound
  /\ AnswersSound
  /\ RequestSound
  /\ FetchSound

-------------------------------------------------------------------------------
(* Pages and slots.                                                        *)

\* Multiplication respects the order.
LEMMA MulMono == \A a, b, c \in Nat : a <= b => a * c <= b * c
BY SMT

\* Page p is there exactly if some entry is on it; the pages have room for all entries, and
\* there are no more of them than entries.
LEMMA PageCountIs ==
  ASSUME NEW n \in Nat
  PROVE  /\ PageCount(n) \in Nat
         /\ n <= PageCount(n) * PageSize
         /\ \A p \in Nat : p < PageCount(n) <=> p * PageSize < n
         /\ PageCount(n) <= n
<1> DEFINE c == PageCount(n)
<1>0. PageSize \in Nat /\ PageSize >= 1
  BY SnapshotAssumption
<1>1. c \in Nat /\ c * PageSize <= n + PageSize - 1 /\ n + PageSize - 1 < c * PageSize + PageSize
  <2>1. \A a \in Nat, b \in Nat \ {0} :
          a \div b \in Nat /\ b * (a \div b) <= a /\ a < b * (a \div b) + b
    BY SMTT(30)
  <2>2. n + PageSize - 1 \in Nat /\ PageSize \in Nat \ {0}
    BY <1>0
  <2>3. c \in Nat /\ PageSize * c <= n + PageSize - 1 /\ n + PageSize - 1 < PageSize * c + PageSize
    BY <2>1, <2>2 DEF PageCount
  <2> HIDE DEF c
  <2>4. PageSize * c = c * PageSize
    BY <1>0, <2>3
  <2> QED
    BY <2>3, <2>4
<1> HIDE DEF c
<1>2. n <= c * PageSize
  <2>1. c * PageSize \in Nat
    BY <1>0, <1>1
  <2> QED
    BY <1>0, <1>1, <2>1
<1>3. ASSUME NEW p \in Nat PROVE p < c <=> p * PageSize < n
  <2>0. p * PageSize \in Nat /\ c * PageSize \in Nat
    BY <1>0, <1>1
  <2>1. CASE p < c
    <3>1. (p + 1) * PageSize <= c * PageSize
      BY <1>0, <1>1, <2>1, MulMono
    <3>2. (p + 1) * PageSize = p * PageSize + PageSize
      BY <1>0
    <3> QED
      BY <1>0, <1>1, <2>0, <2>1, <3>1, <3>2
  <2>2. CASE ~ (p < c)
    <3>1. c * PageSize <= p * PageSize
      BY <1>0, <1>1, <2>2, MulMono
    <3> QED
      BY <1>0, <1>1, <1>2, <2>0, <2>2, <3>1
  <2> QED
    BY <2>1, <2>2
<1>4. c <= n
  <2>1. n * 1 <= n * PageSize
    BY <1>0
  <2>2. ~ (n * PageSize < n)
    BY <2>1, <1>0
  <2>3. ~ (n < c)
    BY <1>3, <2>2
  <2> QED
    BY <1>1, <2>3
<1> QED
  BY <1>1, <1>2, <1>3, <1>4 DEF c

\* More entries do not have fewer pages.
LEMMA PageCountGrows ==
  ASSUME NEW m \in Nat, NEW n \in Nat, m <= n
  PROVE  PageCount(m) <= PageCount(n)
<1>0. PageSize \in Nat
  BY SnapshotAssumption
<1> DEFINE c == PageCount(m)  d == PageCount(n)
<1>1. c \in Nat /\ d \in Nat
  BY PageCountIs
<1>2. d < c => d * PageSize < m
  BY <1>1, PageCountIs
<1>3. d * PageSize < n => d < d
  BY <1>1, PageCountIs
<1> HIDE DEF c, d
<1>4. d * PageSize \in Nat
  BY <1>0, <1>1
<1>5. c <= d
  BY <1>1, <1>2, <1>3, <1>4
<1> QED
  BY <1>5 DEF c, d

\* The slots in use.
LEMMA UsedIs ==
  ASSUME slots \in [Slots -> NodeIds \cup {NoNode}], slots[1] = Self
  PROVE  /\ Used \subseteq Slots /\ 1 \in Used
         /\ IsFiniteSet(Used) /\ Cardinality(Used) \in 1 .. MaxNodes
         /\ \A i \in Used : slots[i] \in NodeIds
         /\ Known \subseteq NodeIds
<1>1. MaxNodes \in Nat /\ MaxNodes >= 1 /\ Self \in NodeIds /\ NoNode \notin NodeIds
  BY SnapshotAssumption
<1>2. Used \subseteq Slots /\ 1 \in Used
  BY <1>1 DEF Used, Slots
<1>3. IsFiniteSet(Slots) /\ Cardinality(Slots) = MaxNodes
  BY <1>1, FS_Interval DEF Slots
<1>4. IsFiniteSet(Used) /\ Cardinality(Used) <= MaxNodes
  BY <1>2, <1>3, FS_Subset
<1>5. Cardinality(Used) \in Nat /\ Cardinality(Used) # 0
  BY <1>2, <1>4, FS_CardinalityType, FS_EmptySet
<1>6. \A i \in Used : slots[i] \in NodeIds
  BY <1>2 DEF Used
<1> QED
  BY <1>1, <1>2, <1>4, <1>5, <1>6 DEF Known

\* A finite set of slots of different nodes can be put in ascending order: the place of a
\* slot is the number of slots whose node is not above its own.
LEMMA AscendingIs ==
  ASSUME NEW S, IsFiniteSet(S), \A i \in S : slots[i] \in Nat,
         \A i, j \in S : slots[i] = slots[j] => i = j
  PROVE  /\ Ascending(S) \in [1 .. Cardinality(S) -> S]
         /\ IsInjective(Ascending(S))
         /\ Range(Ascending(S)) = S
<1> DEFINE n == Cardinality(S)
           Below(x) == {y \in S : slots[y] <= slots[x]}
           rank == [x \in S |-> Cardinality(Below(x))]
<1>0. n \in Nat
  BY FS_CardinalityType
<1>1. ASSUME NEW x \in S
      PROVE  IsFiniteSet(Below(x)) /\ rank[x] = Cardinality(Below(x)) /\ rank[x] \in 1 .. n
  <2>1. Below(x) \in SUBSET S /\ x \in Below(x)
    OBVIOUS
  <2>2. IsFiniteSet(Below(x)) /\ Cardinality(Below(x)) <= n
    BY <2>1, FS_Subset
  <2>3. Cardinality(Below(x)) \in Nat /\ Cardinality(Below(x)) # 0
    BY <2>1, <2>2, FS_CardinalityType, FS_EmptySet
  <2>4. rank[x] = Cardinality(Below(x))
    OBVIOUS
  <2> QED
    BY <1>0, <2>2, <2>3, <2>4
<1>2. ASSUME NEW x \in S, NEW y \in S, slots[x] < slots[y]
      PROVE  rank[x] < rank[y]
  <2>0. \A i \in S : slots[i] \in Nat
    OBVIOUS
  <2>1. Below(x) \in SUBSET Below(y) /\ y \in Below(y) /\ y \notin Below(x)
    <3>1. \A z \in S : slots[z] <= slots[x] => slots[z] <= slots[y]
      BY <1>2, <2>0
    <3>2. slots[y] <= slots[y] /\ ~ (slots[y] <= slots[x])
      BY <1>2, <2>0
    <3> QED
      BY <3>1, <3>2
  <2>2. Cardinality(Below(x)) <= Cardinality(Below(y)) /\ Cardinality(Below(x)) # Cardinality(Below(y))
    BY <1>1, <2>1, FS_Subset
  <2>3. rank[x] \in Nat /\ rank[y] \in Nat /\ rank[x] <= rank[y] /\ rank[x] # rank[y]
    BY <1>0, <1>1, <2>2
  <2> HIDE DEF rank
  <2> QED
    BY <2>3
<1> HIDE DEF rank
<1>3. rank \in Injection(S, 1 .. n)
  <2>1. rank \in [S -> 1 .. n]
    BY <1>1 DEF rank
  <2>2. ASSUME NEW x \in S, NEW y \in S, rank[x] = rank[y] PROVE x = y
    <3>0. rank[x] \in 1 .. n
      BY <1>1
    <3>1. ~ (rank[x] < rank[y]) /\ ~ (rank[y] < rank[x])
      <4> HIDE DEF n
      <4>1. rank[x] \in Int
        BY <1>0, <3>0
      <4> QED
        BY <2>2, <4>1
    <3>2. ~ (slots[x] < slots[y]) /\ ~ (slots[y] < slots[x])
      BY <1>2, <3>1
    <3>3. slots[x] \in Nat /\ slots[y] \in Nat
      OBVIOUS
    <3>4. slots[x] = slots[y]
      BY <3>2, <3>3
    <3> QED
      BY <3>4
  <2> QED
    BY <2>1, <2>2 DEF Injection, IsInjective
<1>4. rank \in Surjection(S, 1 .. n)
  <2>1. IsFiniteSet(1 .. n) /\ Cardinality(1 .. n) = n
    BY <1>0, FS_Interval
  <2> QED
    BY <1>3, <2>1, FS_Injection
<1> DEFINE q == [k \in 1 .. n |-> CHOOSE x \in S : rank[x] = k]
<1>5. \A k \in 1 .. n : q[k] \in S /\ rank[q[k]] = k
  BY <1>4 DEF Surjection
<1>6. q \in SetToSeqs(S)
  BY <1>5 DEF SetToSeqs
<1>7. ASSUME NEW j \in DOMAIN q, NEW k \in DOMAIN q, j < k PROVE slots[q[j]] < slots[q[k]]
  <2>1. j \in 1 .. n /\ k \in 1 .. n /\ q[j] \in S /\ q[k] \in S /\ rank[q[j]] = j /\ rank[q[k]] = k
    BY <1>5
  <2>2. ~ (slots[q[k]] < slots[q[j]])
    BY <1>0, <1>2, <1>7, <2>1
  <2>3. slots[q[k]] # slots[q[j]]
    BY <1>0, <1>7, <2>1
  <2> QED
    BY <2>1, <2>2, <2>3
<1> HIDE DEF q
<1>8. Ascending(S) \in SetToSeqs(S)
  BY <1>6, <1>7 DEF Ascending
<1>9. Ascending(S) \in Injection(1 .. n, S)
  BY <1>8 DEF SetToSeqs, Injection, IsInjective
<1>10. Ascending(S) \in Surjection(1 .. n, S)
  <2>1. IsFiniteSet(1 .. n) /\ Cardinality(1 .. n) = n
    BY <1>0, FS_Interval
  <2> QED
    BY <1>9, <2>1, FS_Injection
<1> QED
  BY <1>9, <1>10 DEF Injection, Surjection, Range

\* The order of a snapshot: every slot in use, each once.
LEMMA OrderedIs ==
  ASSUME slots \in [Slots -> NodeIds \cup {NoNode}], slots[1] = Self, SlotsDistinct
  PROVE  /\ Ordered \in Seq(Slots) /\ Len(Ordered) = Cardinality(Used)
         /\ IsInjective(Ordered) /\ Range(Ordered) = Used
<1> DEFINE S == Used \ {1}
           m == Cardinality(S)
           a == Ascending(S)
<1>1. Used \subseteq Slots /\ 1 \in Used /\ IsFiniteSet(Used) /\ \A i \in Used : slots[i] \in Nat
  BY UsedIs, SnapshotAssumption
<1>2. IsFiniteSet(S) /\ m = Cardinality(Used) - 1 /\ Cardinality(Used) \in Nat /\ m \in Nat
  BY <1>1, FS_RemoveElement, FS_CardinalityType
<1>3. a \in [1 .. m -> S] /\ IsInjective(a) /\ Range(a) = S
  BY <1>1, <1>2, AscendingIs DEF SlotsDistinct
<1> HIDE DEF m, a
<1>4. a \in Seq(Slots) /\ Len(a) = m
  BY <1>1, <1>2, <1>3
<1>5. <<1>> \in Seq(Slots) /\ Len(<<1>>) = 1
  BY <1>1
<1>6. /\ Ordered \in Seq(Slots) /\ Len(Ordered) = m + 1
      /\ \A k \in 1 .. m + 1 : Ordered[k] = IF k = 1 THEN 1 ELSE a[k - 1]
  <2>1. Ordered = <<1>> \o a
    BY DEF Ordered, a
  <2> QED
    BY <1>2, <1>4, <1>5, <2>1
<1>7. DOMAIN Ordered = 1 .. m + 1
  BY <1>6
<1>8. IsInjective(Ordered)
  BY <1>2, <1>3, <1>6, <1>7 DEF IsInjective
<1>9. \A k \in 1 .. m : Ordered[k + 1] = a[k] /\ k + 1 \in 1 .. m + 1
  BY <1>2, <1>6
<1>10. Ordered[1] = 1 /\ 1 \in 1 .. m + 1
  BY <1>2, <1>6
<1>11. Range(Ordered) = Used
  <2>1. ASSUME NEW i \in Used PROVE i \in Range(Ordered)
    <3>1. CASE i = 1
      BY <3>1, <1>7, <1>10 DEF Range
    <3>2. CASE i # 1
      <4>1. PICK k \in 1 .. m : a[k] = i
        BY <1>3, <3>2 DEF Range
      <4> QED
        BY <1>7, <1>9, <4>1 DEF Range
    <3> QED
      BY <3>1, <3>2
  <2>2. ASSUME NEW k \in 1 .. m + 1 PROVE Ordered[k] \in Used
    <3>1. CASE k = 1
      BY <3>1, <1>1, <1>10
    <3>2. CASE k # 1
      BY <3>2, <1>2, <1>3, <1>6
    <3> QED
      BY <3>1, <3>2
  <2> QED
    BY <1>7, <2>1, <2>2 DEF Range
<1> QED
  BY <1>2, <1>6, <1>8, <1>11

-------------------------------------------------------------------------------
(* Snapshots, answers and their ages.                                      *)

\* What the constants are, for the arithmetic below.
LEMMA ConstantTypes ==
  /\ PageSize \in Nat \ {0} /\ MaxNodes \in Nat \ {0} /\ MaxSnapshots \in Nat
  /\ IdModulus \in Nat /\ MaxSnapshots + 2 <= IdModulus
  /\ 0 \in Ids /\ Ids \subseteq Nat
  /\ Self \in NodeIds /\ NodeIds \subseteq Nat \ {0}
BY SnapshotAssumption DEF Ids

\* The snapshot fits in the table, and so do its pages.
LEMMA SnapshotFits ==
  ASSUME SnapInv
  PROVE  /\ snapshot.id \in Ids /\ snapshot.indices \in Seq(Slots)
         /\ Len(snapshot.indices) \in Nat
         /\ EnoughPages \in 1 .. MaxNodes
         /\ Len(snapshot.indices) <= EnoughPages * PageSize
<1> DEFINE ind == snapshot.indices
           n == Cardinality(Used)
<1>1. snapshot.id \in Ids /\ ind \in Seq(Slots) /\ Len(ind) \in Nat
  BY DEF SnapInv, SnapshotTypeOK
<1>2. Used \subseteq Slots /\ IsFiniteSet(Used) /\ n \in 1 .. MaxNodes
  BY UsedIs DEF SnapInv, SnapshotTypeOK
<1>3. ind \in Injection(1 .. Len(ind), Used)
  <2>1. DOMAIN ind = 1 .. Len(ind) /\ IsInjective(ind) /\ \A k \in 1 .. Len(ind) : ind[k] \in Used
    BY <1>1 DEF SnapInv, SnapshotSound, Range
  <2>2. ind \in [1 .. Len(ind) -> Used]
    BY <1>1, <2>1
  <2> QED
    BY <2>1, <2>2 DEF Injection
<1>4. Len(ind) <= n
  <2>1. Cardinality(1 .. Len(ind)) = Len(ind)
    BY <1>1, FS_Interval
  <2> QED
    BY <1>2, <1>3, <2>1, FS_Injection
<1> HIDE DEF ind, n
<1>5. n \in Nat /\ n >= 1 /\ n <= MaxNodes /\ MaxNodes \in Nat
  BY <1>2, ConstantTypes
<1>6. /\ PageCount(n) \in Nat /\ n <= PageCount(n) * PageSize /\ PageCount(n) <= n
      /\ 0 < PageCount(n)
  <2>1. 0 * PageSize = 0
    BY ConstantTypes
  <2> QED
    BY <1>5, <2>1, PageCountIs
<1>7. PageCount(n) * PageSize \in Nat
  BY <1>6, ConstantTypes
<1>8. EnoughPages = PageCount(n)
  BY DEF EnoughPages, n
<1>9. EnoughPages \in 1 .. MaxNodes
  BY <1>5, <1>6, <1>8
<1>10. Len(ind) <= PageCount(n) * PageSize
  BY <1>1, <1>4, <1>5, <1>6, <1>7
<1> QED
  BY <1>1, <1>8, <1>9, <1>10 DEF ind

\* The records of page p of a snapshot: those of its slots, as far as it goes.
LEMMA PageEntriesIs ==
  ASSUME NEW snap, snap.indices \in Seq(Slots), NEW p \in Nat,
         \A k \in 1 .. Len(snap.indices) : slots[snap.indices[k]] \in NodeIds
  PROVE  LET n == IF p * PageSize < Len(snap.indices)
                  THEN Least(PageSize, Len(snap.indices) - p * PageSize) ELSE 0
             r == PageEntries(snap, snap.id, p)
         IN  /\ r \in Seq(NodeIds) /\ Len(r) = n
             /\ \A k \in 1 .. n : r[k] = slots[snap.indices[p * PageSize + k]]
<1> DEFINE ind == snap.indices
           from == p * PageSize
           to == IF (p + 1) * PageSize < Len(ind) THEN (p + 1) * PageSize ELSE Len(ind)
           n == IF from < Len(ind) THEN Least(PageSize, Len(ind) - from) ELSE 0
           r == PageEntries(snap, snap.id, p)
<1>1. Len(ind) \in Nat /\ from \in Nat /\ PageSize \in Nat /\ PageSize >= 1
  BY ConstantTypes
<1>2. (p + 1) * PageSize = from + PageSize
  BY ConstantTypes
<1>3. to \in Nat /\ to <= Len(ind) /\ n \in Nat /\ n = IF from + 1 <= to THEN to - (from + 1) + 1 ELSE 0
  <2> HIDE DEF ind, from
  <2> QED
    BY <1>1, <1>2 DEF Least
<1>4. \A k \in 1 .. n : from + k \in 1 .. Len(ind)
  <2> HIDE DEF ind, from, to
  <2> QED
    BY <1>1, <1>3 DEF Least
<1>5. Len(SubSeq(ind, from + 1, to)) = n
  <2>1. \A i \in from + 1 .. to : i \in 1 .. Len(ind)
    <3> HIDE DEF ind, from, to
    <3> QED
      BY <1>1, <1>3
  <2>2. \A i \in from + 1 .. to : ind[i] \in Slots
    BY <2>1
  <2>3. from + 1 \in Int /\ to \in Int
    BY <1>1, <1>3
  <2> HIDE DEF ind, from, to, n
  <2>4. Len(SubSeq(ind, from + 1, to)) = IF from + 1 <= to THEN to - (from + 1) + 1 ELSE 0
    BY <2>2, <2>3, SubSeqProperties
  <2> QED
    BY <1>3, <2>4
<1>6. r = [i \in 1 .. n |-> slots[ind[from + i]]]
  BY <1>5 DEF PageEntries
<1> HIDE DEF n, from, r, ind
<1>7. \A k \in 1 .. n : slots[ind[from + k]] \in NodeIds
  BY <1>4 DEF ind
<1>8. r \in Seq(NodeIds) /\ Len(r) = n /\ \A k \in 1 .. n : r[k] = slots[ind[from + k]]
  BY <1>3, <1>6, <1>7
<1> QED
  BY <1>8 DEF n, from, r, ind

\* An id a snapshot older than another; no id is so old that it has come round.
LEMMA AgeAfterNew ==
  ASSUME SnapInv, snapshot'.id = NextId, NEW id \in Ids, Age(id) + 1 < IdModulus
  PROVE  snapshot'.id \in Ids /\ Age(id)' = Age(id) + 1 /\ id # snapshot'.id
<1> DEFINE s == snapshot.id  t == snapshot'.id  M == IdModulus
<1>1. s \in 0 .. M - 1 /\ id \in 0 .. M - 1 /\ M \in Nat /\ M >= 2
  BY ConstantTypes DEF SnapInv, SnapshotTypeOK, Ids
<1>2. t = (s + 1) % M
  BY DEF NextId
<1> HIDE DEF s, t, M
<1>3. t = IF s + 1 = M THEN 0 ELSE s + 1
  <2>1. CASE s + 1 = M
    <3>1. M % M = 0
      BY <1>1
    <3> QED
      BY <1>2, <2>1, <3>1
  <2>2. CASE s + 1 # M
    <3>1. s + 1 \in 0 .. M - 1
      BY <1>1, <2>2
    <3>2. \A x \in 0 .. M - 1 : x % M = x
      BY <1>1
    <3> QED
      BY <1>2, <2>2, <3>1, <3>2
  <2> QED
    BY <2>1, <2>2
<1>4. Age(id) = IF id <= s THEN s - id ELSE s + M - id
  BY DEF Age, s, M
<1>5. Age(id)' = IF id <= t THEN t - id ELSE t + M - id
  BY DEF Age, t, M
<1>6. Age(id) + 1 < M
  BY DEF M
<1>7. t \in 0 .. M - 1
  BY <1>1, <1>3
<1>8. (IF id <= s THEN s - id ELSE s + M - id) + 1 < M
  BY <1>4, <1>6
<1>9. (IF id <= t THEN t - id ELSE t + M - id) = (IF id <= s THEN s - id ELSE s + M - id) + 1 /\ id # t
  BY <1>1, <1>3, <1>8
<1> QED
  BY <1>4, <1>5, <1>7, <1>9 DEF Ids, t, M

\* Ages are numbers.
LEMMA AgeType ==
  ASSUME SnapInv
  PROVE  \A id \in Ids : Age(id) \in Int
<1> SUFFICES ASSUME NEW id \in Ids PROVE Age(id) \in Int
  OBVIOUS
<1>1. snapshot.id \in Ids
  BY DEF SnapInv, SnapshotTypeOK
<1>2. IdModulus \in Int /\ snapshot.id \in Int /\ id \in Int
  BY <1>1, SnapshotAssumption DEF Ids
<1> QED
  BY <1>2 DEF Age

\* The age of the current snapshot is 0.
LEMMA AgeOfCurrent ==
  ASSUME SnapInv
  PROVE  Age(snapshot.id) = 0
<1>1. snapshot.id \in Nat
  BY ConstantTypes DEF SnapInv, SnapshotTypeOK
<1>2. snapshot.id <= snapshot.id /\ snapshot.id - snapshot.id = 0
  BY <1>1
<1> QED
  BY <1>2 DEF Age

\* What is not about requests and fetches is as sound as before if it stays as it is.
LEMMA TableKept ==
  ASSUME SnapInv, UNCHANGED <<slots, steady, gone, snapshot>>
  PROVE  /\ Used' = Used /\ Known' = Known /\ EnoughPages' = EnoughPages
         /\ SlotsDistinct' /\ SnapshotSound'
         /\ \A id : Age(id)' = Age(id)
         /\ \A a : AnswerSound(a)' <=> AnswerSound(a)
         /\ \A f : FetchHolds(f)' <=> FetchHolds(f)
<1>1. Used' = Used /\ Known' = Known
  BY DEF Used, Known
<1>2. EnoughPages' = EnoughPages
  BY <1>1 DEF EnoughPages
<1>3. SlotsDistinct' /\ SnapshotSound'
  BY <1>1 DEF SnapInv, SlotsDistinct, SnapshotSound
<1>4. \A id : Age(id)' = Age(id)
  BY DEF Age
<1>5. \A a : AnswerSound(a)' <=> AnswerSound(a)
  BY <1>2 DEF AnswerSound, InPlace
<1>6. \A f : FetchHolds(f)' <=> FetchHolds(f)
  BY DEF FetchHolds, InPlace
<1> QED
  BY <1>1, <1>2, <1>3, <1>4, <1>5, <1>6

-------------------------------------------------------------------------------
(* The steps of the firmware.                                              *)

\* At first the device knows itself alone, and its last answer said so.
LEMMA InitSnap == Init => SnapInv
<1> SUFFICES ASSUME Init PROVE SnapInv
  OBVIOUS
<1>1. /\ slots \in [Slots -> NodeIds \cup {NoNode}] /\ slots[1] = Self
      /\ \A i \in Slots : i # 1 => slots[i] = NoNode
      /\ 1 \in Slots /\ Self # NoNode
  BY ConstantTypes, SnapshotAssumption DEF Init, Slots
<1>2. Used = {1} /\ Known = {Self}
  <2>1. Used = {1}
    BY <1>1 DEF Used
  <2> QED
    BY <1>1, <2>1 DEF Known
<1>3. EnoughPages = 1
  <2>1. Cardinality(Used) = 1
    BY <1>2, FS_Singleton
  <2>2. 0 * PageSize = 0 /\ 1 \in Nat /\ 0 \in Nat
    BY ConstantTypes
  <2>3. PageCount(1) \in Nat /\ 0 < PageCount(1) /\ PageCount(1) <= 1
    BY <2>2, PageCountIs
  <2> QED
    BY <2>1, <2>3 DEF EnoughPages
<1>4. snapshot.id \in Ids /\ snapshot.indices = <<1>> /\ snapshot \in [id : Ids, indices : Seq(Slots)]
  <2>1. <<1>> \in Seq(Slots)
    BY <1>1
  <2>2. snapshot \in [id : Ids, indices : {<<1>>}]
    BY DEF Init
  <2> QED
    BY <2>1, <2>2
<1>5. /\ response \in Pages /\ response.id = snapshot.id /\ response.page = 0 /\ response.pages = 1
      /\ response.records = <<Self>> /\ Len(response.records) = 1
  BY <1>4, ConstantTypes DEF Init, Pages
<1>6. Age(response.id) = 0
  <2>1. snapshot.id \in Nat
    BY <1>4, ConstantTypes
  <2> QED
    BY <1>5, <2>1 DEF Age
<1>7. AnswerSound(response)
  <2>1. 0 * PageSize = 0 /\ 1 * PageSize = PageSize /\ Least(PageSize, 1) = 1 /\ 1 <= PageSize
    BY ConstantTypes DEF Least
  <2>2. Len(snapshot.indices) = 1 /\ snapshot.indices[1] = 1
    BY <1>4
  <2>3. InPlace(response.records, 0)
    BY <1>1, <1>5, <2>2 DEF InPlace
  <2>4. 0 < 1 /\ 1 <= 1 /\ 1 > 0 /\ 1 - 0 = 1
    OBVIOUS
  <2> QED
    BY <1>3, <1>5, <2>1, <2>2, <2>3, <2>4 DEF AnswerSound
<1>8. SlotsDistinct /\ SnapshotSound
  <2>1. SlotsDistinct
    BY <1>2 DEF SlotsDistinct
  <2>2. Range(snapshot.indices) = {1} /\ IsInjective(snapshot.indices) /\ Len(snapshot.indices) > 0
    BY <1>4 DEF Range, IsInjective
  <2> QED
    BY <1>2, <2>1, <2>2 DEF SnapshotSound
<1>9. /\ fetch.phase = "idle" /\ FetchTypeOK
      /\ fetch.page \in 0 .. MaxNodes /\ fetch.pages \in 0 .. MaxNodes /\ fetch.records \in Seq(NodeIds)
  <2>1. fetch = [phase |-> "idle", page |-> 0, retried |-> FALSE, id |-> 0, pages |-> 0,
                 first |-> 0, records |-> <<>>, torn |-> FALSE]
    BY DEF Init, Try
  <2>2. 0 \in 0 .. MaxNodes /\ 0 \in Ids /\ <<>> \in Seq(NodeIds)
    BY ConstantTypes
  <2> QED
    BY <2>1, <2>2 DEF FetchTypeOK
<1>10. SnapshotTypeOK
  <2>1. steady \subseteq Known /\ gone = {} /\ made \in 0 .. MaxSnapshots /\ request \in [id : Ids, page : 0 .. MaxNodes]
        /\ filling = NoAnswer /\ Len(response.records) <= PageSize
    BY <1>2, <1>5, ConstantTypes DEF Init
  <2> QED
    BY <1>1, <1>4, <1>5, <1>9, <2>1 DEF SnapshotTypeOK
<1>11. AnswersSound /\ RequestSound
  <2>1. request.page = 0 /\ filling = NoAnswer
    BY DEF Init
  <2> QED
    BY <1>3, <1>5, <1>6, <1>7, <2>1 DEF AnswersSound, RequestSound
<1>12. FetchSound
  BY <1>9 DEF FetchSound, InProgress
<1> QED
  BY <1>8, <1>9, <1>10, <1>11, <1>12 DEF SnapInv

\* A node that is heard takes a slot of none, or of one that is then not steady any more: no
\* page of the current snapshot and no fetch of it is wrong about those that are.
LEMMA HearStep ==
  ASSUME SnapInv, NEW n \in NodeIds, Hear(n)
  PROVE  SnapInv'
<1>1. PICK i \in Slots :
        /\ IF Used = Slots THEN i # 1 ELSE slots[i] = NoNode /\ \A j \in 1 .. i - 1 : slots[j] # NoNode
        /\ slots' = [slots EXCEPT ![i] = n]
        /\ steady' = steady \ {slots[i]}
        /\ gone' = gone \cup ({slots[i]} \ {NoNode})
  BY DEF Hear
<1>2. /\ n \notin Known /\ filling = NoAnswer
      /\ UNCHANGED <<snapshot, made, request, response, filling, fetch>>
  BY DEF Hear, snapVars
<1>3. slots \in [Slots -> NodeIds \cup {NoNode}] /\ slots[1] = Self /\ steady \subseteq Known
      /\ snapshot.indices \in Seq(Slots)
  BY DEF SnapInv, SnapshotTypeOK
<1>4. Used \subseteq Slots /\ 1 \in Used /\ IsFiniteSet(Used) /\ Known \subseteq NodeIds
      /\ Cardinality(Used) \in 1 .. MaxNodes
  BY <1>3, UsedIs
<1>5. i # 1
  BY <1>1, <1>4 DEF Used
<1>6. slots' \in [Slots -> NodeIds \cup {NoNode}] /\ slots'[1] = Self
  BY <1>1, <1>3, <1>5
<1>7. Used' = Used \cup {i}
  <2>1. n # NoNode
    BY SnapshotAssumption
  <2> QED
    BY <1>1, <1>3, <2>1 DEF Used
<1>8. steady' \subseteq Known'
  BY <1>1, <1>3, <1>7 DEF Known, Used
<1>9. n \notin steady'
  BY <1>1, <1>2, <1>3
<1>10. \A j \in Slots : slots'[j] \in steady' => slots'[j] = slots[j] /\ slots[j] \in steady
  BY <1>1, <1>3, <1>9
<1>11. SlotsDistinct'
  <2>1. ASSUME NEW j \in Used, j # i PROVE slots[j] # n
    BY <1>2, <2>1 DEF Known
  <2>2. \A j, k \in Used : slots[j] = slots[k] => j = k
    BY DEF SnapInv, SlotsDistinct
  <2> QED
    BY <1>1, <1>3, <1>4, <1>7, <2>1, <2>2 DEF SlotsDistinct
<1>12. SnapshotSound'
  <2>1. SnapshotSound
    BY DEF SnapInv
  <2>2. \A j \in Used' : slots'[j] \in steady' => j \in Used
    <3>1. \A j \in Slots : slots[j] \in steady => j \in Used
      BY <1>3, <1>4, SnapshotAssumption DEF Used
    <3> QED
      BY <1>4, <1>7, <1>10, <3>1
  <2> QED
    BY <1>2, <1>4, <1>7, <1>10, <2>1, <2>2 DEF SnapshotSound
<1>13. EnoughPages <= EnoughPages' /\ EnoughPages \in Nat /\ EnoughPages' \in Nat
  <2>1. Cardinality(Used') \in Nat /\ Cardinality(Used) \in Nat /\ Cardinality(Used) <= Cardinality(Used')
    <3>1. IsFiniteSet(Used')
      BY <1>4, <1>7, FS_AddElement
    <3>2. Used \in SUBSET Used'
      BY <1>7
    <3> QED
      BY <1>4, <3>1, <3>2, FS_Subset, FS_CardinalityType
  <2>2. PageCount(Cardinality(Used)) <= PageCount(Cardinality(Used'))
    BY <2>1, PageCountGrows
  <2>3. PageCount(Cardinality(Used)) \in Nat /\ PageCount(Cardinality(Used')) \in Nat
    BY <2>1, PageCountIs
  <2>4. EnoughPages = PageCount(Cardinality(Used)) /\ EnoughPages' = PageCount(Cardinality(Used'))
    BY DEF EnoughPages
  <2> QED
    BY <2>2, <2>3, <2>4
<1>14. ASSUME NEW held, NEW first \in Nat, Len(held) \in Nat,
              first + Len(held) <= Len(snapshot.indices), InPlace(held, first)
       PROVE  \A k \in 1 .. Len(held) :
                \/ held[k] = slots'[snapshot.indices[first + k]]
                \/ held[k] \in gone' /\ slots'[snapshot.indices[first + k]] \notin steady'
  <2>0. Len(snapshot.indices) \in Nat
    BY <1>3
  <2>1. \A k \in 1 .. Len(held) : first + k \in 1 .. Len(snapshot.indices)
    BY <1>14, <2>0
  <2>2. \A k \in 1 .. Len(held) :
          snapshot.indices[first + k] \in Slots /\ slots[snapshot.indices[first + k]] # NoNode
    <3>1. \A k \in 1 .. Len(snapshot.indices) :
            snapshot.indices[k] \in Slots /\ slots[snapshot.indices[k]] # NoNode
      BY <1>3 DEF SnapInv, SnapshotSound, Range, Used
    <3> QED
      BY <2>1, <3>1
  <2> TAKE k \in 1 .. Len(held)
  <2> DEFINE j == snapshot.indices[first + k]
  <2>3. j \in Slots /\ slots[j] # NoNode
    BY <2>2
  <2>4. held[k] = slots[j] \/ (held[k] \in gone /\ slots[j] \notin steady)
    BY <1>14 DEF InPlace
  <2> HIDE DEF j
  <2>5. ASSUME j = i PROVE held[k] \in gone' /\ slots'[j] \notin steady'
    <3>1. slots[j] \in gone' /\ slots'[j] = n
      BY <1>1, <1>3, <2>3, <2>5
    <3>2. gone \subseteq gone'
      BY <1>1
    <3> QED
      BY <1>9, <2>4, <3>1, <3>2
  <2>6. ASSUME j # i
        PROVE  held[k] = slots'[j] \/ (held[k] \in gone' /\ slots'[j] \notin steady')
    <3>1. slots'[j] = slots[j]
      BY <1>1, <1>3, <2>3, <2>6
    <3>2. gone \subseteq gone' /\ steady' \subseteq steady
      BY <1>1
    <3> QED
      BY <2>4, <3>1, <3>2
  <2> QED
    BY <2>5, <2>6 DEF j
<1>15. AnswersSound'
  <2>1. AnswerSound(response) /\ response \in Pages
    BY DEF SnapInv, AnswersSound, SnapshotTypeOK
  <2>2. response.page < response.pages /\ response.pages <= EnoughPages'
    <3>1. response.page \in Nat /\ response.pages \in Nat /\ response.page < response.pages
          /\ response.pages <= EnoughPages
      BY <2>1, ConstantTypes DEF Pages, AnswerSound
    <3> QED
      BY <1>13, <3>1
  <2>3. ASSUME response.id = snapshot.id
        PROVE  \A k \in 1 .. Len(response.records) :
                 \/ response.records[k] = slots'[snapshot.indices[response.page * PageSize + k]]
                 \/ /\ response.records[k] \in gone'
                    /\ slots'[snapshot.indices[response.page * PageSize + k]] \notin steady'
    <3> DEFINE first == response.page * PageSize
               len == Len(response.records)
    <3>1. /\ InPlace(response.records, first)
          /\ len = Least(PageSize, Len(snapshot.indices) - first)
      BY <2>1, <2>3 DEF AnswerSound
    <3>2. first \in Nat /\ len \in Nat /\ Len(snapshot.indices) \in Nat
      BY <1>3, <2>1, ConstantTypes DEF Pages
    <3> HIDE DEF first, len
    <3>3. first + len <= Len(snapshot.indices)
      BY <3>1, <3>2, ConstantTypes DEF Least
    <3> USE DEF first, len
    <3> QED
      BY <1>14, <3>1, <3>2, <3>3
  <2>4. AnswerSound(response)'
    BY <1>2, <2>1, <2>2, <2>3 DEF AnswerSound, InPlace
  <2>5. Age(response.id)' = Age(response.id)
    BY <1>2 DEF Age
  <2> QED
    BY <1>2, <2>4, <2>5 DEF SnapInv, AnswersSound
<1>16. RequestSound'
  <2>1. request.page \in Nat /\ request.page < EnoughPages
    BY ConstantTypes DEF SnapInv, SnapshotTypeOK, RequestSound
  <2> QED
    BY <1>2, <1>13, <2>1 DEF RequestSound
<1>17. FetchSound'
  <2> SUFFICES ASSUME InProgress
               PROVE  FetchSound'
    BY <1>2 DEF FetchSound, InProgress
  <2>1. FetchSound /\ fetch.page \in Nat /\ fetch.pages \in Nat /\ fetch.records \in Seq(NodeIds)
    BY ConstantTypes DEF SnapInv, SnapshotTypeOK
  <2>2. CASE fetch.page = 0
    <3>1. ~ (fetch.page > 0)
      BY <2>2
    <3> QED
      BY <1>2, <2>1, <2>2, <3>1 DEF FetchSound
  <2>3. CASE fetch.page > 0
    <3>1. fetch.page < fetch.pages /\ fetch.pages <= EnoughPages' /\ Age(fetch.id) <= made + 1
          /\ FetchHolds(fetch)
      <4>1. /\ fetch.page < fetch.pages /\ fetch.pages <= EnoughPages /\ Age(fetch.id) <= made + 1
            /\ FetchHolds(fetch)
        BY <2>1, <2>3 DEF FetchSound
      <4> QED
        BY <1>13, <2>1, <4>1
    <3>2. ASSUME fetch.id = snapshot.id, fetch.first = 0, ~fetch.torn
          PROVE  \A k \in 1 .. Len(fetch.records) :
                   \/ fetch.records[k] = slots'[snapshot.indices[0 + k]]
                   \/ /\ fetch.records[k] \in gone'
                      /\ slots'[snapshot.indices[0 + k]] \notin steady'
      <4>1. /\ Len(fetch.records) = Least(fetch.page * PageSize, Len(snapshot.indices))
            /\ InPlace(fetch.records, 0)
        BY <3>1, <3>2 DEF FetchHolds
      <4>2. Len(fetch.records) \in Nat /\ Len(snapshot.indices) \in Nat /\ fetch.page * PageSize \in Nat
        BY <1>3, <2>1, ConstantTypes
      <4>3. 0 + Len(fetch.records) <= Len(snapshot.indices) /\ 0 \in Nat
        BY <4>1, <4>2 DEF Least
      <4> QED
        BY <1>14, <4>1, <4>2, <4>3
    <3>3. FetchHolds(fetch)'
      BY <1>2, <3>1, <3>2 DEF FetchHolds, InPlace
    <3>4. Age(fetch.id)' = Age(fetch.id)
      BY <1>2 DEF Age
    <3>5. ~ (fetch.page = 0)
      BY <2>3
    <3> QED
      BY <1>2, <3>1, <3>3, <3>4, <3>5 DEF FetchSound
  <2> QED
    BY <2>1, <2>2, <2>3
<1>18. SnapshotTypeOK' /\ FetchTypeOK'
  <2>1. gone' \subseteq NodeIds
    BY <1>1, <1>3 DEF SnapInv, SnapshotTypeOK
  <2> QED
    BY <1>2, <1>6, <1>8, <2>1 DEF SnapInv, SnapshotTypeOK, FetchTypeOK
<1> QED
  BY <1>11, <1>12, <1>15, <1>16, <1>17, <1>18 DEF SnapInv

\* The fetch of the app goes on as it is while the firmware steps.
LEMMA FetchKept ==
  ASSUME SnapInv, UNCHANGED fetch
  PROVE  /\ FetchTypeOK' /\ InProgress' = InProgress
         /\ fetch'.page \in 0 .. MaxNodes /\ fetch'.pages \in 0 .. MaxNodes
         /\ fetch'.records \in Seq(NodeIds)
BY DEF SnapInv, SnapshotTypeOK, FetchTypeOK, InProgress

\* The answer to a page that the current snapshot has is sound.
LEMMA AnswerPageStep ==
  ASSUME SnapInv, Answer, ~AsksForNew,
         PageEntries(snapshot, request.id, request.page) # <<>>
  PROVE  SnapInv'
<1> DEFINE held == PageEntries(snapshot, request.id, request.page)
<1>0. /\ filling = NoAnswer
      /\ request \in [id : Ids, page : 0 .. MaxNodes] /\ request.page \in Nat
      /\ request.page < EnoughPages
  BY ConstantTypes DEF Answer, SnapInv, SnapshotTypeOK, RequestSound
<1>1. /\ filling' = [id |-> request.id, page |-> request.page, pages |-> EnoughPages,
                     records |-> held]
      /\ UNCHANGED <<snapVars, steady, gone, slots, request, response, fetch>>
  BY <1>0 DEF Answer, AnswerPage, EnoughPages
<1>2. UNCHANGED <<slots, steady, gone, snapshot, made, request, response, fetch>>
  BY <1>1 DEF snapVars
<1>3. request.id = snapshot.id
  BY DEF PageEntries
<1>4. /\ snapshot.id \in Ids /\ snapshot.indices \in Seq(Slots) /\ Len(snapshot.indices) \in Nat
      /\ EnoughPages \in 1 .. MaxNodes
      /\ Len(snapshot.indices) <= EnoughPages * PageSize
  BY SnapshotFits
<1>5. \A k \in 1 .. Len(snapshot.indices) : slots[snapshot.indices[k]] \in NodeIds
  <2>1. \A i \in Used : slots[i] \in NodeIds
    BY UsedIs DEF SnapInv, SnapshotTypeOK
  <2> QED
    BY <1>4, <2>1 DEF SnapInv, SnapshotSound, Range
<1> DEFINE from == request.page * PageSize
           n == IF from < Len(snapshot.indices)
                THEN Least(PageSize, Len(snapshot.indices) - from) ELSE 0
<1>6. /\ held \in Seq(NodeIds) /\ Len(held) = n
      /\ \A k \in 1 .. n : held[k] = slots[snapshot.indices[from + k]]
  <2>1. held = PageEntries(snapshot, snapshot.id, request.page)
    BY <1>3
  <2> HIDE DEF held
  <2>2. LET m == IF request.page * PageSize < Len(snapshot.indices)
                 THEN Least(PageSize, Len(snapshot.indices) - request.page * PageSize) ELSE 0
            r == PageEntries(snapshot, snapshot.id, request.page)
        IN  /\ r \in Seq(NodeIds) /\ Len(r) = m
            /\ \A k \in 1 .. m : r[k] = slots[snapshot.indices[request.page * PageSize + k]]
    BY <1>0, <1>4, <1>5, PageEntriesIs
  <2> QED
    BY <2>1, <2>2
<1> HIDE DEF held, from
<1>7. Len(held) > 0 /\ from < Len(snapshot.indices)
  <2>1. held # <<>>
    BY DEF held
  <2>2. Len(held) \in Nat /\ Len(held) # 0
    BY <1>6, <2>1
  <2> QED
    BY <1>6, <2>2
<1>8. AnswerSound(filling')
  <2>1. InPlace(held, from)
    BY <1>6 DEF InPlace
  <2>2. Len(held) = Least(PageSize, Len(snapshot.indices) - from)
    BY <1>6, <1>7
  <2>3. EnoughPages <= EnoughPages
    BY <1>4
  <2>4. AnswerSound([id |-> request.id, page |-> request.page, pages |-> EnoughPages,
                     records |-> held])
    BY <1>0, <1>4, <1>7, <2>1, <2>2, <2>3 DEF AnswerSound, from
  <2> QED
    BY <1>1, <2>4 DEF held
<1>9. filling' \in Pages /\ filling'.id = snapshot.id
  BY <1>0, <1>1, <1>3, <1>4, <1>6 DEF Pages, held
<1>10. PICK a : a = filling'
  OBVIOUS
<1>11. AnswerSound(a)' /\ a.id = snapshot'.id
  BY <1>2, <1>8, <1>9, <1>10, TableKept
<1>12. AnswerSound(filling)'
  BY <1>10, <1>11 DEF AnswerSound, InPlace
<1>13. AnswersSound'
  <2>1. AnswerSound(response) /\ Age(response.id) <= 1
    BY DEF SnapInv, AnswersSound
  <2>2. PICK r : r = response
    OBVIOUS
  <2>3. AnswerSound(r)' /\ Age(r.id)' <= 1
    BY <1>2, <2>1, <2>2, TableKept
  <2>4. AnswerSound(response)' /\ Age(response.id)' <= 1
    BY <1>2, <2>2, <2>3 DEF AnswerSound, InPlace, Age
  <2>5. filling' # NoAnswer
    BY <1>9, NoAnswerAssumption
  <2> QED
    BY <1>2, <1>9, <1>12, <2>4, <2>5 DEF AnswersSound
<1>14. EnoughPages' = EnoughPages /\ SlotsDistinct' /\ SnapshotSound' /\ Known' = Known
  BY <1>2, TableKept
<1>15. RequestSound'
  BY <1>0, <1>2, <1>14 DEF RequestSound
<1>16. FetchSound'
  <2>1. PICK f : f = fetch
    OBVIOUS
  <2>2. (FetchHolds(f)' <=> FetchHolds(f)) /\ Age(f.id)' = Age(f.id)
    BY <1>2, TableKept
  <2>3. (FetchHolds(fetch)' <=> FetchHolds(fetch)) /\ Age(fetch.id)' = Age(fetch.id)
    BY <1>2, <2>1, <2>2 DEF FetchHolds, InPlace, Age
  <2> QED
    BY <1>2, <1>14, <2>3 DEF SnapInv, FetchSound, InProgress
<1>17. SnapshotTypeOK' /\ FetchTypeOK'
  BY <1>2, <1>9, <1>14, FetchKept DEF SnapInv, SnapshotTypeOK
<1> QED
  BY <1>13, <1>14, <1>15, <1>16, <1>17 DEF SnapInv

\* The first page of a new snapshot is sound; the response is then of the last one, and a
\* fetch under way is one snapshot older.
LEMMA AnswerNewStep ==
  ASSUME SnapInv, filling = NoAnswer, AnswerNew, UNCHANGED <<slots, request, response, fetch>>
  PROVE  SnapInv'
<1>1. /\ snapshot' = [id |-> NextId, indices |-> Ordered]
      /\ steady' = Known /\ gone' = {}
      /\ filling' = [id |-> NextId, page |-> 0, pages |-> EnoughPages,
                     records |-> PageEntries(Made, Made.id, 0)]
  BY DEF AnswerNew, Made, EnoughPages
<1>2. snapshot'.id = NextId /\ snapshot'.indices = Ordered
  BY <1>1
<1>3. slots \in [Slots -> NodeIds \cup {NoNode}] /\ slots[1] = Self /\ SlotsDistinct
  BY DEF SnapInv, SnapshotTypeOK
<1>4. /\ Used \subseteq Slots /\ \A i \in Used : slots[i] \in NodeIds
      /\ Cardinality(Used) \in 1 .. MaxNodes
  BY <1>3, UsedIs
<1>5. /\ Ordered \in Seq(Slots) /\ Len(Ordered) = Cardinality(Used)
      /\ IsInjective(Ordered) /\ Range(Ordered) = Used
  BY <1>3, OrderedIs
<1>6. Used' = Used /\ Known' = Known /\ EnoughPages' = EnoughPages
  BY DEF Used, Known, EnoughPages
<1>7. /\ EnoughPages \in 1 .. MaxNodes /\ EnoughPages \in Nat /\ 0 < EnoughPages
      /\ Len(Ordered) <= EnoughPages * PageSize
      /\ Len(Ordered) \in Nat /\ Len(Ordered) > 0
  <2>1. Cardinality(Used) \in Nat /\ Cardinality(Used) > 0
    BY <1>4
  <2>2. EnoughPages \in 1 .. MaxNodes
    BY SnapshotFits
  <2>3. Cardinality(Used) <= EnoughPages * PageSize
    BY <2>1, PageCountIs DEF EnoughPages
  <2> QED
    BY <1>5, <2>1, <2>2, <2>3
<1> DEFINE held == PageEntries(Made, Made.id, 0)
<1>8. /\ held \in Seq(NodeIds) /\ Len(held) = Least(PageSize, Len(Ordered)) /\ Len(held) > 0
      /\ \A k \in 1 .. Len(held) : held[k] = slots[Ordered[0 + k]]
  <2>1. Made.indices = Ordered
    BY DEF Made
  <2>2. \A k \in 1 .. Len(Ordered) : slots[Ordered[k]] \in NodeIds
    BY <1>4, <1>5 DEF Range
  <2>3. 0 \in Nat /\ 0 * PageSize = 0 /\ 0 < Len(Ordered) /\ Len(Ordered) - 0 = Len(Ordered)
    BY <1>7, ConstantTypes
  <2>4. /\ held \in Seq(NodeIds) /\ Len(held) = Least(PageSize, Len(Ordered))
        /\ \A k \in 1 .. Len(held) : held[k] = slots[Ordered[0 + k]]
    <3> HIDE DEF held
    <3>1. LET n == IF 0 * PageSize < Len(Made.indices)
                   THEN Least(PageSize, Len(Made.indices) - 0 * PageSize) ELSE 0
          IN  /\ held \in Seq(NodeIds) /\ Len(held) = n
              /\ \A k \in 1 .. n : held[k] = slots[Made.indices[0 * PageSize + k]]
      BY <1>5, <2>1, <2>2, <2>3, PageEntriesIs DEF held
    <3> QED
      BY <2>1, <2>3, <3>1
  <2>5. Least(PageSize, Len(Ordered)) > 0
    BY <1>7, ConstantTypes DEF Least
  <2> QED
    BY <2>4, <2>5
<1> HIDE DEF held
<1>9. \A id \in Ids : Age(id) + 1 < IdModulus =>
         snapshot'.id \in Ids /\ Age(id)' = Age(id) + 1 /\ id # snapshot'.id
  BY <1>2, AgeAfterNew
<1>10. response \in Pages /\ response.id \in Ids /\ response.id = snapshot.id /\ Age(response.id) = 0
  BY AgeOfCurrent DEF SnapInv, SnapshotTypeOK, AnswersSound, Pages
<1>11. snapshot'.id \in Ids /\ Age(response.id)' <= 1 /\ response.id # snapshot'.id
  <2>1. Age(response.id) + 1 < IdModulus
    BY <1>10, ConstantTypes
  <2>2. PICK id \in Ids : id = response.id
    BY <1>10
  <2>3. Age(id)' = 1 /\ id # snapshot'.id /\ snapshot'.id \in Ids
    BY <1>9, <1>10, <2>1, <2>2
  <2>4. Age(response.id)' = Age(id)'
    BY <2>2 DEF Age
  <2> QED
    BY <2>2, <2>3, <2>4
<1>12. filling' \in Pages /\ filling'.id = snapshot'.id
  <2>1. 0 \in 0 .. MaxNodes /\ EnoughPages \in 0 .. MaxNodes /\ NextId \in Ids
    BY <1>2, <1>7, <1>11, ConstantTypes
  <2> QED
    BY <1>1, <1>2, <1>8, <2>1 DEF Pages, held
<1>13. AnswerSound(filling)'
  <2>1. filling'.page = 0 /\ filling'.pages = EnoughPages' /\ filling'.records = held
    BY <1>1, <1>6 DEF held
  <2>2. 0 * PageSize = 0 /\ Len(Ordered) - 0 = Len(Ordered)
    BY <1>7, ConstantTypes
  <2>3. slots' = slots
    OBVIOUS
  <2>4. InPlace(filling.records, 0)'
    BY <1>2, <1>8, <2>1, <2>3 DEF InPlace
  <2>5. EnoughPages' <= EnoughPages' /\ 0 < EnoughPages'
    BY <1>6, <1>7
  <2> QED
    BY <1>2, <1>6, <1>7, <1>8, <2>1, <2>2, <2>4, <2>5 DEF AnswerSound
<1>14. AnswersSound'
  <2>1. AnswerSound(response)'
    <3>1. AnswerSound(response)
      BY DEF SnapInv, AnswersSound
    <3> QED
      BY <1>6, <1>11, <3>1 DEF AnswerSound
  <2>2. filling' # NoAnswer
    BY <1>12, NoAnswerAssumption
  <2> QED
    BY <1>11, <1>12, <1>13, <2>1, <2>2 DEF AnswersSound
<1>15. SlotsDistinct' /\ SnapshotSound'
  <2>1. SlotsDistinct'
    BY <1>3, <1>6 DEF SlotsDistinct
  <2> QED
    BY <1>2, <1>5, <1>6, <1>7, <2>1 DEF SnapshotSound
<1>16. RequestSound'
  BY <1>6 DEF SnapInv, RequestSound
<1>17. made' \in 0 .. MaxSnapshots /\ (InProgress => made' = made + 1 /\ made < MaxSnapshots)
  BY ConstantTypes DEF AnswerNew, SnapInv, SnapshotTypeOK
<1>18. FetchSound'
  <2> SUFFICES ASSUME InProgress PROVE FetchSound'
    BY FetchKept DEF FetchSound
  <2>1. FetchSound /\ fetch.page \in Nat /\ fetch.id \in Ids /\ made \in Nat
    BY ConstantTypes DEF SnapInv, SnapshotTypeOK, FetchTypeOK
  <2>2. CASE fetch.page = 0
    <3>1. ~ (fetch.page > 0)
      BY <2>2
    <3> QED
      BY <2>1, <2>2, <3>1 DEF FetchSound
  <2>3. CASE fetch.page > 0
    <3>1. /\ fetch.page < fetch.pages /\ fetch.pages <= EnoughPages
          /\ Age(fetch.id) <= made + 1
      BY <2>1, <2>3 DEF FetchSound
    <3>2. Age(fetch.id) \in Int
      <4>1. \A id \in Ids : Age(id) \in Int
        BY AgeType
      <4> QED
        BY <2>1, <4>1
    <3>3. Age(fetch.id) + 1 < IdModulus /\ Age(fetch.id) + 1 <= made' + 1
      BY <1>17, <2>1, <3>1, <3>2, ConstantTypes
    <3>4. PICK id \in Ids : id = fetch.id
      BY <2>1
    <3>5. Age(id)' = Age(id) + 1 /\ id # snapshot'.id
      BY <1>9, <3>3, <3>4
    <3>6. Age(fetch.id)' = Age(fetch.id) + 1
      BY <3>4, <3>5 DEF Age
    <3>7. FetchHolds(fetch)'
      BY <3>4, <3>5 DEF FetchHolds
    <3>8. ~ (fetch.page = 0)
      BY <2>3
    <3> QED
      BY <1>6, <3>1, <3>3, <3>6, <3>7, <3>8 DEF FetchSound
  <2> QED
    BY <2>1, <2>2, <2>3
<1>19. SnapshotTypeOK' /\ FetchTypeOK'
  <2>1. snapshot' \in [id : Ids, indices : Seq(Slots)]
    BY <1>1, <1>2, <1>5, <1>11
  <2>2. steady' \subseteq Known' /\ gone' \subseteq NodeIds
    BY <1>1, <1>6
  <2> QED
    BY <1>12, <1>17, <2>1, <2>2, FetchKept DEF SnapInv, SnapshotTypeOK
<1> QED
  BY <1>14, <1>15, <1>16, <1>18, <1>19 DEF SnapInv

\* The loop never finds that a page is asked for which the table does not have.
LEMMA AnswerStep ==
  ASSUME SnapInv, Answer
  PROVE  SnapInv'
<1>1. request.page < PageCount(Cardinality(Used))
  BY DEF SnapInv, RequestSound, EnoughPages
<1>2. CASE AsksForNew \/ PageEntries(snapshot, request.id, request.page) = <<>>
  <2>1. AnswerNew /\ filling = NoAnswer /\ UNCHANGED <<slots, request, response, fetch>>
    BY <1>1, <1>2 DEF Answer
  <2> QED
    BY <2>1, AnswerNewStep
<1>3. CASE ~AsksForNew /\ PageEntries(snapshot, request.id, request.page) # <<>>
  BY <1>3, AnswerPageStep
<1> QED
  BY <1>2, <1>3

\* The complete answer is the response, and of the current snapshot.
LEMMA FilledStep ==
  ASSUME SnapInv, Filled
  PROVE  SnapInv'
<1>1. /\ filling # NoAnswer /\ response' = filling /\ filling' = NoAnswer
      /\ UNCHANGED <<slots, steady, gone, snapshot, made, request, fetch>>
  BY DEF Filled, tableVars, snapVars
<1>2. /\ Known' = Known /\ EnoughPages' = EnoughPages /\ SlotsDistinct' /\ SnapshotSound'
      /\ \A id : Age(id)' = Age(id)
      /\ \A a : AnswerSound(a)' <=> AnswerSound(a)
      /\ \A f : FetchHolds(f)' <=> FetchHolds(f)
  BY <1>1, TableKept
<1>3. /\ filling \in Pages /\ AnswerSound(filling) /\ filling.id = snapshot.id
      /\ Age(filling.id) = 0
  BY <1>1, AgeOfCurrent DEF SnapInv, SnapshotTypeOK, AnswersSound
<1>4. Len(filling.records) <= PageSize
  <2>1. Len(filling.records) = Least(PageSize, Len(snapshot.indices) - filling.page * PageSize)
    BY <1>3 DEF AnswerSound
  <2>2. Len(snapshot.indices) - filling.page * PageSize \in Int
    BY <1>3, ConstantTypes DEF Pages, SnapInv, SnapshotTypeOK
  <2> QED
    BY <2>1, <2>2, ConstantTypes DEF Least
<1>5. PICK a : a = filling
  OBVIOUS
<1>6. AnswerSound(a)' /\ Age(a.id)' = 0 /\ a.id = snapshot'.id
  BY <1>1, <1>2, <1>3, <1>5
<1>7. AnswerSound(response)' /\ Age(response.id)' = 0 /\ response'.id = snapshot'.id
  BY <1>1, <1>5, <1>6 DEF AnswerSound, InPlace, Age
<1>8. AnswersSound'
  BY <1>1, <1>7 DEF AnswersSound
<1>9. RequestSound'
  BY <1>1, <1>2 DEF SnapInv, RequestSound
<1>10. FetchSound'
  <2>1. PICK f : f = fetch
    OBVIOUS
  <2>2. (FetchHolds(f)' <=> FetchHolds(f)) /\ Age(f.id)' = Age(f.id)
    BY <1>2
  <2>3. (FetchHolds(fetch)' <=> FetchHolds(fetch)) /\ Age(fetch.id)' = Age(fetch.id)
    BY <1>1, <2>1, <2>2 DEF FetchHolds, InPlace, Age
  <2> QED
    BY <1>1, <1>2, <2>3 DEF SnapInv, FetchSound, InProgress
<1>11. SnapshotTypeOK' /\ FetchTypeOK'
  BY <1>1, <1>2, <1>3, <1>4, FetchKept DEF SnapInv, SnapshotTypeOK
<1> QED
  BY <1>2, <1>8, <1>9, <1>10, <1>11 DEF SnapInv

-------------------------------------------------------------------------------
(* The steps of the app.                                                   *)

\* While the app steps, the table, its snapshot and the answers stay sound.
LEMMA AppKeeps ==
  ASSUME SnapInv, UNCHANGED <<slots, steady, gone, snapshot, response, filling>>
  PROVE  /\ Known' = Known /\ EnoughPages' = EnoughPages
         /\ SlotsDistinct' /\ SnapshotSound' /\ AnswersSound'
         /\ \A id : Age(id)' = Age(id)
         /\ \A f : FetchHolds(f)' <=> FetchHolds(f)
<1>1. /\ Known' = Known /\ EnoughPages' = EnoughPages /\ SlotsDistinct' /\ SnapshotSound'
      /\ \A id : Age(id)' = Age(id)
      /\ \A a : AnswerSound(a)' <=> AnswerSound(a)
      /\ \A f : FetchHolds(f)' <=> FetchHolds(f)
  BY TableKept
<1>2. PICK r, a : r = response /\ a = filling
  OBVIOUS
<1>3. (AnswerSound(r)' <=> AnswerSound(r)) /\ (AnswerSound(a)' <=> AnswerSound(a)) /\ Age(r.id)' = Age(r.id)
  BY <1>1
<1>4. /\ AnswerSound(response)' <=> AnswerSound(response)
      /\ AnswerSound(filling)' <=> AnswerSound(filling)
      /\ Age(response.id)' = Age(response.id)
  BY <1>2, <1>3 DEF AnswerSound, InPlace, Age
<1>5. AnswersSound'
  BY <1>4 DEF SnapInv, AnswersSound
<1> QED
  BY <1>1, <1>5

Phases == {"idle", "asking", "writing", "reading", "done", "failed"}

\* A try of a fetch begins with nothing.
LEMMA TryIs ==
  ASSUME NEW again \in BOOLEAN, NEW p \in Phases
  PROVE  LET f == Try(p, again)
         IN  /\ f.phase = p /\ f.page = 0 /\ f.id = 0 /\ f.pages = 0
             /\ f.records = <<>> /\ f.torn = FALSE
             /\ f \in [phase : Phases, page : 0 .. MaxNodes, retried : BOOLEAN, id : Ids,
                       pages : 0 .. MaxNodes, first : 0 .. MaxNodes, records : Seq(NodeIds),
                       torn : BOOLEAN]
<1>1. 0 \in 0 .. MaxNodes /\ 0 \in Ids /\ <<>> \in Seq(NodeIds)
  BY ConstantTypes
<1> QED
  BY <1>1 DEF Try

\* A fetch that starts, starts over or fails is sound.
LEMMA TryStep ==
  ASSUME SnapInv, UNCHANGED <<slots, steady, gone, snapshot, response, filling, request>>,
         made' \in 0 .. MaxSnapshots,
         NEW again \in BOOLEAN, NEW p \in Phases, fetch' = Try(p, again)
  PROVE  SnapInv'
<1>1. /\ fetch'.phase = p /\ fetch'.page = 0 /\ fetch'.pages = 0
      /\ fetch'.records = <<>> /\ fetch'.torn = FALSE
      /\ FetchTypeOK'
  <2>1. LET f == fetch'
        IN  /\ f.phase = p /\ f.page = 0 /\ f.id = 0 /\ f.pages = 0
            /\ f.records = <<>> /\ f.torn = FALSE
            /\ f \in [phase : Phases, page : 0 .. MaxNodes, retried : BOOLEAN, id : Ids,
                      pages : 0 .. MaxNodes, first : 0 .. MaxNodes, records : Seq(NodeIds),
                      torn : BOOLEAN]
    BY TryIs
  <2> QED
    BY <2>1 DEF FetchTypeOK, Phases
<1>2. /\ Known' = Known /\ EnoughPages' = EnoughPages
      /\ SlotsDistinct' /\ SnapshotSound' /\ AnswersSound'
  BY AppKeeps
<1>3. FetchSound'
  <2>1. ~ (0 > 0)
    OBVIOUS
  <2> QED
    BY <1>1, <2>1 DEF FetchSound
<1>4. RequestSound'
  BY <1>2 DEF SnapInv, RequestSound
<1>5. SnapshotTypeOK'
  <2>1. fetch'.page \in 0 .. MaxNodes /\ fetch'.pages \in 0 .. MaxNodes /\ fetch'.records \in Seq(NodeIds)
        /\ fetch'.phase \in Phases
    <3>1. 0 \in 0 .. MaxNodes /\ <<>> \in Seq(NodeIds)
      BY ConstantTypes
    <3> QED
      BY <1>1, <3>1
  <2> QED
    BY <1>2, <2>1 DEF SnapInv, SnapshotTypeOK, Phases
<1> QED
  BY <1>1, <1>2, <1>3, <1>4, <1>5 DEF SnapInv

\* A fetch starts, whatever the last one left behind.
LEMMA StartStep ==
  ASSUME SnapInv, Start
  PROVE  SnapInv'
<1>2. /\ UNCHANGED <<slots, steady, gone, snapshot, response, filling, request>>
      /\ made' \in 0 .. MaxSnapshots /\ fetch' = Try("asking", FALSE)
  BY ConstantTypes DEF Start, tableVars
<1> QED
  BY <1>2, TryStep DEF Phases

\* The connection is lost.
LEMMA DropStep ==
  ASSUME SnapInv, Drop
  PROVE  SnapInv'
<1>1. /\ UNCHANGED <<slots, steady, gone, snapshot, response, filling, request, made>>
      /\ fetch' = Try("failed", FALSE)
  BY DEF Drop, tableVars, snapVars, Failed
<1>2. made' \in 0 .. MaxSnapshots
  BY <1>1 DEF SnapInv, SnapshotTypeOK
<1> QED
  BY <1>1, <1>2, TryStep DEF Phases

\* A fetch whose step is of its phase alone is as sound as before.
LEMMA PhaseStep ==
  ASSUME SnapInv, UNCHANGED <<slots, steady, gone, snapshot, made, response, filling>>, InProgress,
         NEW p \in Phases, fetch' = [fetch EXCEPT !.phase = p]
  PROVE  /\ SlotsDistinct' /\ SnapshotSound' /\ AnswersSound' /\ FetchSound' /\ FetchTypeOK'
         /\ EnoughPages' = EnoughPages
         /\ request' \in [id : Ids, page : 0 .. MaxNodes] => SnapshotTypeOK'
<1>1. /\ Known' = Known /\ EnoughPages' = EnoughPages
      /\ SlotsDistinct' /\ SnapshotSound' /\ AnswersSound'
      /\ \A id : Age(id)' = Age(id)
      /\ \A f : FetchHolds(f)' <=> FetchHolds(f)
  BY AppKeeps
<1>2. FetchTypeOK' /\ fetch'.phase = p
  BY DEF SnapInv, FetchTypeOK, Phases
<1>3. /\ fetch'.page = fetch.page /\ fetch'.pages = fetch.pages /\ fetch'.records = fetch.records
      /\ fetch'.id = fetch.id /\ fetch'.first = fetch.first /\ fetch'.torn = fetch.torn
  BY DEF SnapInv, FetchTypeOK
<1>4. PICK f : f = fetch
  OBVIOUS
<1>5. (FetchHolds(f)' <=> FetchHolds(f)) /\ Age(f.id)' = Age(f.id)
  BY <1>1
<1>6. (FetchHolds(fetch)' <=> FetchHolds(fetch)) /\ Age(fetch.id)' = Age(fetch.id)
  BY <1>3, <1>4, <1>5 DEF FetchHolds, InPlace, Age
<1>7. FetchSound'
  BY <1>1, <1>3, <1>6 DEF SnapInv, FetchSound
<1>8. request' \in [id : Ids, page : 0 .. MaxNodes] => SnapshotTypeOK'
  BY <1>1, <1>2, <1>3 DEF SnapInv, SnapshotTypeOK, Phases
<1> QED
  BY <1>1, <1>2, <1>7, <1>8

\* The app writes the two halves of a request; a page that it asks for exists, and so does
\* the page that the last request left, while only the id is new.
LEMMA WriteStep ==
  ASSUME SnapInv, WriteId \/ WritePage
  PROVE  SnapInv'
<1>0. /\ request \in [id : Ids, page : 0 .. MaxNodes] /\ request.page < EnoughPages
      /\ fetch.id \in Ids /\ fetch.page \in 0 .. MaxNodes
  BY DEF SnapInv, SnapshotTypeOK, FetchTypeOK, RequestSound
<1>1. CASE WriteId
  <2>1. /\ UNCHANGED <<slots, steady, gone, snapshot, made, response, filling>> /\ InProgress
        /\ fetch' = [fetch EXCEPT !.phase = "writing"] /\ "writing" \in Phases
        /\ request' \in [id : Ids, page : 0 .. MaxNodes] /\ request'.page = request.page
    BY <1>0, <1>1 DEF WriteId, tableVars, snapVars, InProgress, Phases
  <2>2. /\ SlotsDistinct' /\ SnapshotSound' /\ AnswersSound' /\ FetchSound' /\ FetchTypeOK'
        /\ SnapshotTypeOK' /\ EnoughPages' = EnoughPages
    BY <2>1, PhaseStep
  <2>3. RequestSound'
    BY <1>0, <2>1, <2>2 DEF RequestSound
  <2> QED
    BY <2>2, <2>3 DEF SnapInv
<1>2. CASE WritePage
  <2>1. /\ UNCHANGED <<slots, steady, gone, snapshot, made, response, filling>> /\ InProgress
        /\ fetch' = [fetch EXCEPT !.phase = "reading"] /\ "reading" \in Phases
        /\ request' \in [id : Ids, page : 0 .. MaxNodes] /\ request'.page = fetch.page
    BY <1>0, <1>2 DEF WritePage, tableVars, snapVars, InProgress, Phases
  <2>2. /\ SlotsDistinct' /\ SnapshotSound' /\ AnswersSound' /\ FetchSound' /\ FetchTypeOK'
        /\ SnapshotTypeOK' /\ EnoughPages' = EnoughPages
    BY <2>1, PhaseStep
  <2>3. fetch.page < EnoughPages
    <3>1. fetch.page \in Nat /\ fetch.pages \in Nat /\ EnoughPages \in Nat /\ EnoughPages >= 1
      BY SnapshotFits, ConstantTypes DEF SnapInv, SnapshotTypeOK
    <3>2. fetch.page > 0 => fetch.page < fetch.pages /\ fetch.pages <= EnoughPages
      BY <2>1 DEF SnapInv, FetchSound
    <3> QED
      BY <3>1, <3>2
  <2>4. RequestSound'
    BY <2>1, <2>2, <2>3 DEF RequestSound
  <2> QED
    BY <2>2, <2>4 DEF SnapInv
<1> QED
  BY <1>1, <1>2

\* What the app has after it took an answer.
LEMMA TakenIs ==
  ASSUME FetchTypeOK, NEW head \in Pages, NEW body \in Pages, fetch.page < MaxNodes
  PROVE  LET f == Taken(head, body)
             pages == IF fetch.page = 0 THEN head.pages ELSE fetch.pages
         IN  /\ f.phase = IF fetch.page + 1 < f.pages THEN "asking" ELSE "done"
             /\ f.page = fetch.page + 1
             /\ f.id = head.id
             /\ f.pages = pages
             /\ f.first = IF fetch.page = 0 THEN head.page ELSE fetch.first
             /\ f.records = fetch.records \o body.records
             /\ f.torn = (fetch.torn \/ head # body)
             /\ f.retried = fetch.retried
             /\ f \in [phase : Phases, page : 0 .. MaxNodes, retried : BOOLEAN, id : Ids,
                       pages : 0 .. MaxNodes, first : 0 .. MaxNodes, records : Seq(NodeIds),
                       torn : BOOLEAN]
<1> DEFINE pages == IF fetch.page = 0 THEN head.pages ELSE fetch.pages
           phase == IF fetch.page + 1 < pages THEN "asking" ELSE "done"
           first == IF fetch.page = 0 THEN head.page ELSE fetch.first
           recs == fetch.records \o body.records
           torn == (fetch.torn \/ head # body)
<1>1. Taken(head, body) =
        [phase |-> phase, page |-> fetch.page + 1, retried |-> fetch.retried, id |-> head.id,
         pages |-> pages, first |-> first, records |-> recs, torn |-> torn]
  BY DEF Taken
<1>2. phase \in Phases /\ fetch.page + 1 \in 0 .. MaxNodes /\ fetch.retried \in BOOLEAN /\ head.id \in Ids
  BY ConstantTypes DEF FetchTypeOK, Pages, Phases
<1>3. pages \in 0 .. MaxNodes /\ first \in 0 .. MaxNodes
  BY DEF FetchTypeOK, Pages
<1>4. recs \in Seq(NodeIds)
  BY DEF FetchTypeOK, Pages
<1>5. torn \in BOOLEAN
  OBVIOUS
<1> HIDE DEF pages, phase, first, recs, torn
<1>6. Taken(head, body) \in
         [phase : Phases, page : 0 .. MaxNodes, retried : BOOLEAN, id : Ids,
          pages : 0 .. MaxNodes, first : 0 .. MaxNodes, records : Seq(NodeIds), torn : BOOLEAN]
  BY <1>1, <1>2, <1>3, <1>4, <1>5
<1>7. LET f == Taken(head, body)
      IN  /\ f.phase = phase /\ f.page = fetch.page + 1 /\ f.id = head.id /\ f.pages = pages
          /\ f.first = first /\ f.records = recs /\ f.torn = torn /\ f.retried = fetch.retried
  BY <1>1
<1> QED
  BY <1>6, <1>7 DEF pages, phase, first, recs, torn

\* If what was taken was whole and the fetch is a clean one of the current snapshot, it has
\* the first pages of it as before, and one more.
LEMMA TakenHolds ==
  ASSUME SnapInv, fetch.phase = "reading",
         NEW head \in Pages, NEW body \in Pages, AnswerSound(head), Age(head.id) <= 1, Accepts(head)
  PROVE  LET f == Taken(head, body)
         IN  /\ FetchHolds(f)
             /\ f.page = fetch.page + 1 /\ f.page <= f.pages /\ f.pages <= EnoughPages
             /\ f.phase = IF f.page < f.pages THEN "asking" ELSE "done"
             /\ Age(f.id) <= made + 1
             /\ f \in [phase : Phases, page : 0 .. MaxNodes, retried : BOOLEAN, id : Ids,
                       pages : 0 .. MaxNodes, first : 0 .. MaxNodes, records : Seq(NodeIds),
                       torn : BOOLEAN]
<1> DEFINE f == Taken(head, body)
<1>1. /\ FetchTypeOK /\ made \in Nat /\ fetch.page \in Nat /\ fetch.pages \in Nat
      /\ fetch.records \in Seq(NodeIds) /\ fetch.torn \in BOOLEAN /\ head.page \in Nat /\ head.pages \in Nat
      /\ head.id \in Ids /\ body.records \in Seq(NodeIds)
  BY ConstantTypes DEF SnapInv, SnapshotTypeOK, FetchTypeOK, Pages
<1>2. /\ EnoughPages \in 1 .. MaxNodes /\ MaxNodes \in Nat /\ PageSize \in Nat /\ PageSize >= 1
      /\ Len(snapshot.indices) \in Nat
  BY SnapshotFits, ConstantTypes
<1>3. /\ fetch.page = 0 => fetch.records = <<>> /\ fetch.torn = FALSE
      /\ fetch.page > 0 =>
           /\ fetch.page < fetch.pages /\ fetch.pages <= EnoughPages
           /\ Age(fetch.id) <= made + 1
           /\ FetchHolds(fetch)
  BY DEF SnapInv, FetchSound, InProgress
<1>4. head.page < head.pages /\ head.pages <= EnoughPages
  BY DEF AnswerSound
<1>5. fetch.page < MaxNodes
  BY <1>1, <1>2, <1>3
<1>6. /\ f.phase = IF fetch.page + 1 < f.pages THEN "asking" ELSE "done"
      /\ f.page = fetch.page + 1 /\ f.id = head.id
      /\ f.pages = IF fetch.page = 0 THEN head.pages ELSE fetch.pages
      /\ f.first = IF fetch.page = 0 THEN head.page ELSE fetch.first
      /\ f.records = fetch.records \o body.records
      /\ f.torn = (fetch.torn \/ head # body)
      /\ f \in [phase : Phases, page : 0 .. MaxNodes, retried : BOOLEAN, id : Ids,
                pages : 0 .. MaxNodes, first : 0 .. MaxNodes, records : Seq(NodeIds), torn : BOOLEAN]
  <2>1. fetch.page < MaxNodes /\ FetchTypeOK
    BY <1>1, <1>5
  <2> QED
    BY <2>1, TakenIs, Zenon
<1> HIDE DEF f
<1>7. f.page <= f.pages /\ f.pages <= EnoughPages
  BY <1>1, <1>2, <1>3, <1>4, <1>6
<1>8. Age(f.id) <= made + 1
  <2>1. Age(head.id) \in Int
    BY <1>1, AgeType
  <2> QED
    BY <1>1, <1>6, <2>1
<1>9. FetchHolds(f)
  <2> SUFFICES ASSUME f.id = snapshot.id, f.first = 0, ~f.torn
               PROVE  /\ Len(snapshot.indices) <= f.pages * PageSize
                      /\ Len(f.records) = Least(f.page * PageSize, Len(snapshot.indices))
                      /\ InPlace(f.records, 0)
    BY DEF FetchHolds
  <2>1. head = body /\ ~fetch.torn /\ head.id = snapshot.id
    BY <1>6
  <2> DEFINE from == head.page * PageSize
             len == Len(snapshot.indices)
  <2>2. /\ len <= head.pages * PageSize
        /\ Len(head.records) = Least(PageSize, len - from) /\ Len(head.records) > 0
        /\ InPlace(head.records, from)
    BY <2>1 DEF AnswerSound
  <2>3. head.page = fetch.page
    <3>1. CASE fetch.page = 0
      BY <1>6, <3>1
    <3>2. CASE fetch.page # 0
      BY <3>2 DEF Accepts
    <3> QED
      BY <3>1, <3>2
  <2>4. /\ Len(fetch.records) = from
        /\ len <= f.pages * PageSize
        /\ InPlace(fetch.records, 0)
    <3>1. CASE fetch.page = 0
      <4>1. from = 0
        BY <1>2, <2>3, <3>1
      <4>2. Len(fetch.records) = 0
        BY <1>3, <3>1
      <4>3. \A k \in 1 .. Len(fetch.records) : FALSE
        BY <4>2
      <4> QED
        BY <1>6, <2>2, <3>1, <4>1, <4>2, <4>3 DEF InPlace
    <3>2. CASE fetch.page # 0
      <4>1. FetchHolds(fetch) /\ head.id = fetch.id
        BY <1>1, <1>3, <3>2 DEF Accepts
      <4>2. /\ len <= fetch.pages * PageSize
            /\ Len(fetch.records) = Least(fetch.page * PageSize, len)
            /\ InPlace(fetch.records, 0)
        BY <1>6, <2>1, <3>2, <4>1 DEF FetchHolds
      <4>3. fetch.page * PageSize = from /\ from \in Nat
        BY <1>1, <1>2, <2>3
      <4>4. Len(head.records) \in Nat
        BY <1>1, <2>1
      <4> HIDE DEF from, len
      <4>5. from < len
        BY <1>2, <2>2, <4>3, <4>4 DEF Least, len
      <4>6. Least(from, len) = from
        BY <1>2, <4>3, <4>5 DEF Least, len
      <4> QED
        BY <1>6, <3>2, <4>2, <4>3, <4>6
    <3> QED
      BY <3>1, <3>2
  <2>5. f.page * PageSize = from + PageSize /\ from \in Nat
    BY <1>1, <1>2, <1>6, <2>3
  <2>6. /\ Len(head.records) \in Nat /\ Len(fetch.records) \in Nat
        /\ Len(f.records) = Len(fetch.records) + Len(head.records)
        /\ \A k \in 1 .. Len(f.records) :
             f.records[k] = IF k <= Len(fetch.records) THEN fetch.records[k]
                            ELSE head.records[k - Len(fetch.records)]
    <3>1. PICK a \in Seq(NodeIds), b \in Seq(NodeIds) : a = fetch.records /\ b = head.records
      BY <1>1, <2>1
    <3>2. f.records = a \o b
      BY <1>6, <2>1, <3>1
    <3>3. /\ Len(a \o b) = Len(a) + Len(b)
          /\ \A k \in 1 .. Len(a) + Len(b) :
               (a \o b)[k] = IF k <= Len(a) THEN a[k] ELSE b[k - Len(a)]
      BY ConcatProperties
    <3>4. Len(a) \in Nat /\ Len(b) \in Nat
      OBVIOUS
    <3> QED
      BY <3>1, <3>2, <3>3, <3>4, Zenon
  <2>7. Len(f.records) = Least(f.page * PageSize, len)
    <3> HIDE DEF from, len
    <3>1. len \in Nat
      BY <1>2 DEF len
    <3> QED
      BY <1>2, <2>2, <2>4, <2>5, <2>6, <3>1 DEF Least
  <2>8. InPlace(f.records, 0)
    <3> SUFFICES ASSUME NEW k \in 1 .. Len(f.records)
                 PROVE  \/ f.records[k] = slots[snapshot.indices[0 + k]]
                        \/ f.records[k] \in gone /\ slots[snapshot.indices[0 + k]] \notin steady
      BY DEF InPlace
    <3> HIDE DEF from, len
    <3>1. CASE k <= from
      <4>1. k \in 1 .. Len(fetch.records)
        BY <2>4, <2>5, <3>1
      <4> QED
        BY <2>4, <2>6, <3>1, <4>1 DEF InPlace
    <3>2. CASE ~ (k <= from)
      <4>1. k - from \in 1 .. Len(head.records) /\ from + (k - from) = k /\ 0 + k = k
        BY <2>4, <2>5, <2>6, <3>2
      <4>2. \/ head.records[k - from] = slots[snapshot.indices[from + (k - from)]]
            \/ /\ head.records[k - from] \in gone
               /\ slots[snapshot.indices[from + (k - from)]] \notin steady
        BY <2>2, <4>1 DEF InPlace
      <4> QED
        BY <2>4, <2>6, <3>2, <4>1, <4>2
    <3> QED
      BY <3>1, <3>2
  <2> QED
    BY <2>4, <2>7, <2>8
<1> QED
  BY <1>6, <1>7, <1>8, <1>9 DEF f

\* What a read may meet.
LEMMA MetAnswers ==
  ASSUME SnapInv, NEW a \in {response, filling} \ {NoAnswer}
  PROVE  a \in Pages /\ AnswerSound(a) /\ Age(a.id) <= 1
<1>1. CASE a = response
  BY <1>1 DEF SnapInv, SnapshotTypeOK, AnswersSound
<1>2. CASE a = filling
  <2>1. Age(snapshot.id) = 0 /\ 0 <= 1
    BY AgeOfCurrent
  <2>2. filling # NoAnswer
    BY <1>2
  <2>3. filling \in Pages /\ AnswerSound(filling) /\ filling.id = snapshot.id
    BY <2>2 DEF SnapInv, SnapshotTypeOK, AnswersSound
  <2> QED
    BY <1>2, <2>1, <2>3
<1> QED
  BY <1>1, <1>2

\* A read takes an answer, or starts over, or fails.
LEMMA ReadStep ==
  ASSUME SnapInv, Read
  PROVE  SnapInv'
<1>1. /\ UNCHANGED <<slots, steady, gone, snapshot, made, response, filling, request>>
      /\ fetch.phase = "reading"
  BY DEF Read, tableVars, snapVars
<1>2. PICK head \in {response, filling} \ {NoAnswer}, body \in {response, filling} \ {NoAnswer} :
        fetch' = IF Accepts(head) THEN Taken(head, body) ELSE Refused
  BY DEF Read
<1>3. head \in Pages /\ AnswerSound(head) /\ Age(head.id) <= 1 /\ body \in Pages
  BY MetAnswers
<1>4. CASE Accepts(head)
  <2> DEFINE f == Taken(head, body)
  <2>0. fetch' = f
    BY <1>2, <1>4
  <2>1. /\ FetchHolds(f)
        /\ f.page = fetch.page + 1 /\ f.page <= f.pages /\ f.pages <= EnoughPages
        /\ f.phase = IF f.page < f.pages THEN "asking" ELSE "done"
        /\ Age(f.id) <= made + 1
        /\ f \in [phase : Phases, page : 0 .. MaxNodes, retried : BOOLEAN, id : Ids,
                  pages : 0 .. MaxNodes, first : 0 .. MaxNodes, records : Seq(NodeIds),
                  torn : BOOLEAN]
    BY <1>1, <1>3, <1>4, TakenHolds, Zenon
  <2> HIDE DEF f
  <2>2. /\ Known' = Known /\ EnoughPages' = EnoughPages
        /\ SlotsDistinct' /\ SnapshotSound' /\ AnswersSound'
        /\ \A id : Age(id)' = Age(id)
        /\ \A g : FetchHolds(g)' <=> FetchHolds(g)
    BY <1>1, AppKeeps
  <2>3. PICK g : g = f
    OBVIOUS
  <2>4. FetchHolds(g)' /\ Age(g.id)' <= made' + 1
    BY <1>1, <2>1, <2>2, <2>3
  <2>5. FetchHolds(fetch)' /\ Age(fetch.id)' <= made' + 1
    BY <2>0, <2>3, <2>4 DEF FetchHolds, InPlace, Age
  <2>6. fetch.page \in Nat /\ f.page \in Nat /\ f.page # 0
    <3>1. fetch.page \in Nat
      BY ConstantTypes DEF SnapInv, SnapshotTypeOK
    <3> QED
      BY <2>1, <3>1
  <2>7. FetchSound'
    <3>1. InProgress' => f.page < f.pages
      <4>1. CASE f.page < f.pages
        BY <4>1
      <4>2. CASE ~ (f.page < f.pages)
        BY <2>0, <2>1, <4>2 DEF InProgress
      <4> QED
        BY <4>1, <4>2
    <3> QED
      BY <2>0, <2>1, <2>2, <2>5, <2>6, <3>1 DEF FetchSound
  <2>8. FetchTypeOK' /\ SnapshotTypeOK'
    <3>1. FetchTypeOK'
      BY <2>0, <2>1 DEF FetchTypeOK, Phases
    <3>2. fetch'.page \in 0 .. MaxNodes /\ fetch'.pages \in 0 .. MaxNodes /\ fetch'.records \in Seq(NodeIds)
          /\ fetch'.phase \in Phases
      BY <2>0, <2>1
    <3> QED
      BY <1>1, <2>2, <3>1, <3>2 DEF SnapInv, SnapshotTypeOK, Phases
  <2>9. RequestSound'
    BY <1>1, <2>2 DEF SnapInv, RequestSound
  <2> QED
    BY <2>2, <2>7, <2>8, <2>9 DEF SnapInv
<1>5. CASE ~Accepts(head)
  <2>1. made' \in 0 .. MaxSnapshots
    BY <1>1 DEF SnapInv, SnapshotTypeOK
  <2>2. fetch' = Try("failed", FALSE) \/ fetch' = Try("asking", TRUE)
    BY <1>2, <1>5 DEF Refused, Failed
  <2>3. "failed" \in Phases /\ "asking" \in Phases /\ FALSE \in BOOLEAN /\ TRUE \in BOOLEAN
    BY DEF Phases
  <2>4. CASE fetch' = Try("failed", FALSE)
    BY <1>1, <2>1, <2>3, <2>4, TryStep
  <2>5. CASE fetch' = Try("asking", TRUE)
    BY <1>1, <2>1, <2>3, <2>5, TryStep
  <2> QED
    BY <2>2, <2>4, <2>5
<1> QED
  BY <1>4, <1>5

\* Every step keeps the invariant.
LEMMA SnapStep == SnapInv /\ [Next]_vars => SnapInv'
<1> SUFFICES ASSUME SnapInv, [Next]_vars PROVE SnapInv'
  OBVIOUS
<1>1. CASE \E n \in NodeIds : Hear(n)
  BY <1>1, HearStep
<1>2. CASE Answer
  BY <1>2, AnswerStep
<1>3. CASE Filled
  BY <1>3, FilledStep
<1>4. CASE Start
  BY <1>4, StartStep
<1>5. CASE WriteId \/ WritePage
  BY <1>5, WriteStep
<1>6. CASE Read
  BY <1>6, ReadStep
<1>7. CASE Drop
  BY <1>7, DropStep
<1>8. CASE UNCHANGED vars
  <2>1. UNCHANGED <<slots, steady, gone, snapshot, made, request, response, filling, fetch>>
    BY <1>8 DEF vars, tableVars, snapVars
  <2>2. /\ Known' = Known /\ EnoughPages' = EnoughPages
        /\ SlotsDistinct' /\ SnapshotSound' /\ AnswersSound'
    BY <2>1, AppKeeps
  <2>3. PICK f : f = fetch
    OBVIOUS
  <2>4. (FetchHolds(f)' <=> FetchHolds(f)) /\ Age(f.id)' = Age(f.id)
    BY <2>1, AppKeeps
  <2>5. (FetchHolds(fetch)' <=> FetchHolds(fetch)) /\ Age(fetch.id)' = Age(fetch.id)
    BY <2>1, <2>3, <2>4 DEF FetchHolds, InPlace, Age
  <2>6. FetchSound'
    BY <2>1, <2>2, <2>5 DEF SnapInv, FetchSound, InProgress
  <2>7. RequestSound'
    BY <2>1, <2>2 DEF SnapInv, RequestSound
  <2>8. SnapshotTypeOK' /\ FetchTypeOK'
    BY <2>1, <2>2 DEF SnapInv, SnapshotTypeOK, FetchTypeOK
  <2> QED
    BY <2>2, <2>6, <2>7, <2>8 DEF SnapInv
<1> QED
  BY <1>1, <1>2, <1>3, <1>4, <1>5, <1>6, <1>7, <1>8 DEF Next, Loop, App

\* The invariant holds throughout, for any table, page size and number of snapshots, as long
\* as fewer of them are made during a fetch than there are ids.
THEOREM SnapshotInvariant == SnapshotSpec => []SnapInv
BY InitSnap, SnapStep, PTL DEF SnapshotSpec

\* No page, request or fetch leaves its type, and no page has more than PageSize records.
THEOREM SnapshotTypeCorrect == SnapshotSpec => []SnapshotTypeOK
<1>1. SnapInv => SnapshotTypeOK
  BY DEF SnapInv
<1> QED
  BY SnapshotInvariant, <1>1, PTL

-------------------------------------------------------------------------------
(* What a fetch that succeeds has.                                         *)

\* A clean fetch that succeeds on the current snapshot has an entry for each of its slots,
\* and the steady ones are where they belong.
LEMMA DoneHolds ==
  ASSUME SnapInv, [Next]_vars, Done, Clean
  PROVE  /\ UNCHANGED <<slots, steady, gone, snapshot>>
         /\ fetch'.records \in Seq(NodeIds)
         /\ Len(fetch'.records) = Len(snapshot.indices)
         /\ InPlace(fetch'.records, 0)
<1>1. Read
  <2>0. fetch.phase = "reading" /\ fetch'.phase = "done"
    BY DEF Done
  <2>1. ~UNCHANGED fetch
    BY <2>0
  <2>2. ~Start /\ ~WriteId /\ ~WritePage
    BY <2>0 DEF Start, InProgress, WriteId, WritePage
  <2>3. ~Drop
    BY <2>0 DEF Drop, Failed, Try
  <2>4. ~Answer /\ ~Filled /\ ~ \E n \in NodeIds : Hear(n)
    BY <2>1 DEF Answer, Filled, Hear
  <2>5. ~UNCHANGED vars
    BY <2>1 DEF vars
  <2> QED
    BY <2>2, <2>3, <2>4, <2>5 DEF Next, Loop, App
<1>2. UNCHANGED <<slots, steady, gone, snapshot>>
  BY <1>1 DEF Read, tableVars, snapVars
<1>3. PICK head \in {response, filling} \ {NoAnswer}, body \in {response, filling} \ {NoAnswer} :
        fetch' = IF Accepts(head) THEN Taken(head, body) ELSE Refused
  BY <1>1 DEF Read
<1>4. head \in Pages /\ AnswerSound(head) /\ Age(head.id) <= 1 /\ body \in Pages
  BY MetAnswers
<1>5. Accepts(head)
  BY <1>3 DEF Done, Refused, Failed, Try
<1> DEFINE f == Taken(head, body)
<1>6. fetch' = f /\ f.id = snapshot.id /\ f.first = 0 /\ ~f.torn /\ f.phase = "done"
  BY <1>3, <1>5 DEF Done, Clean
<1>7. /\ FetchHolds(f)
      /\ f.page <= f.pages
      /\ f.phase = IF f.page < f.pages THEN "asking" ELSE "done"
      /\ f \in [phase : Phases, page : 0 .. MaxNodes, retried : BOOLEAN, id : Ids,
                pages : 0 .. MaxNodes, first : 0 .. MaxNodes, records : Seq(NodeIds),
                torn : BOOLEAN]
  <2>1. fetch.phase = "reading"
    BY DEF Done
  <2> QED
    BY <1>4, <1>5, <2>1, TakenHolds, Zenon
<1> HIDE DEF f
<1>8. f.page = f.pages /\ f.page \in Nat
  <2>1. f.page \in Nat /\ f.pages \in Nat
    BY <1>7, ConstantTypes
  <2>2. ~ (f.page < f.pages)
    BY <1>6, <1>7
  <2> QED
    BY <1>7, <2>1, <2>2
<1>9. /\ Len(snapshot.indices) <= f.pages * PageSize
      /\ Len(f.records) = Least(f.page * PageSize, Len(snapshot.indices))
      /\ InPlace(f.records, 0)
  BY <1>6, <1>7 DEF FetchHolds
<1>10. Len(f.records) = Len(snapshot.indices)
  <2>1. Len(snapshot.indices) \in Nat /\ f.page * PageSize \in Nat
    BY <1>8, SnapshotFits, ConstantTypes
  <2>2. Len(snapshot.indices) <= f.page * PageSize
    BY <1>8, <1>9
  <2> QED
    BY <1>9, <2>1, <2>2 DEF Least
<1> QED
  BY <1>2, <1>6, <1>7, <1>9, <1>10

\* Whatever was heard, evicted and asked for meanwhile, and however old the response was, a
\* clean fetch that succeeds has every node that was in the table from the snapshot on.
THEOREM NothingIsSkipped == SnapshotSpec => CleanFetchIsComplete
<1>1. ASSUME SnapInv, [Next]_vars
      PROVE  Done /\ Clean => steady \subseteq Range(fetch'.records)
  <2> SUFFICES ASSUME Done, Clean, NEW n \in steady
               PROVE  n \in Range(fetch'.records)
    OBVIOUS
  <2>1. /\ fetch'.records \in Seq(NodeIds) /\ Len(fetch'.records) = Len(snapshot.indices)
        /\ InPlace(fetch'.records, 0)
    BY <1>1, DoneHolds
  <2>2. PICK i \in Used : slots[i] = n
    BY <1>1 DEF SnapInv, SnapshotTypeOK, Known
  <2>3. snapshot.indices \in Seq(Slots) /\ i \in Range(snapshot.indices)
    BY <1>1, <2>2 DEF SnapInv, SnapshotTypeOK, SnapshotSound
  <2>4. PICK k \in 1 .. Len(snapshot.indices) : snapshot.indices[k] = i
    BY <2>3 DEF Range
  <2>5. 0 + k = k
    BY <2>4
  <2>6. fetch'.records[k] = n /\ k \in DOMAIN fetch'.records
    BY <2>1, <2>2, <2>4, <2>5 DEF InPlace
  <2> QED
    BY <2>6 DEF Range
<1> QED
  BY SnapshotInvariant, <1>1, PTL DEF SnapshotSpec, CleanFetchIsComplete

\* Nor has it any node twice but one that was itself evicted since the snapshot: the record of
\* any other is that of the slot the node is in, and no slot is in the snapshot twice.
THEOREM NothingElseIsTwice == SnapshotSpec => OnlyEvictedShowTwice
<1>1. ASSUME SnapInv, [Next]_vars
      PROVE  Done /\ Clean =>
               \A j, k \in DOMAIN fetch'.records :
                 fetch'.records[j] = fetch'.records[k] => j = k \/ fetch'.records[j] \in gone
  <2> SUFFICES ASSUME Done, Clean,
                      NEW j \in DOMAIN fetch'.records, NEW k \in DOMAIN fetch'.records,
                      fetch'.records[j] = fetch'.records[k], fetch'.records[j] \notin gone
               PROVE  j = k
    OBVIOUS
  <2> DEFINE ind == snapshot.indices
  <2>1. /\ fetch'.records \in Seq(NodeIds) /\ Len(fetch'.records) = Len(ind)
        /\ InPlace(fetch'.records, 0)
    BY <1>1, DoneHolds
  <2>2. /\ ind \in Seq(Slots) /\ IsInjective(ind) /\ Range(ind) \subseteq Used
        /\ \A i, l \in Used : slots[i] = slots[l] => i = l
    BY <1>1 DEF SnapInv, SnapshotTypeOK, SnapshotSound, SlotsDistinct
  <2>3. /\ j \in 1 .. Len(ind) /\ k \in 1 .. Len(ind) /\ DOMAIN ind = 1 .. Len(ind)
        /\ j \in 1 .. Len(fetch'.records) /\ k \in 1 .. Len(fetch'.records)
        /\ 0 + j = j /\ 0 + k = k
    BY <2>1, <2>2
  <2>4. fetch'.records[j] = slots[ind[j]] /\ fetch'.records[k] = slots[ind[k]]
    BY <2>1, <2>3 DEF InPlace
  <2>5. ind[j] \in Used /\ ind[k] \in Used
    BY <2>2, <2>3 DEF Range
  <2>6. ind[j] = ind[k]
    BY <2>2, <2>4, <2>5
  <2> HIDE DEF ind
  <2> QED
    BY <2>2, <2>3, <2>6 DEF IsInjective
<1> QED
  BY SnapshotInvariant, <1>1, PTL DEF SnapshotSpec, OnlyEvictedShowTwice

================================================================================
