------------------------------- MODULE ConnectApp ------------------------------
(***************************************************************************)
(* The connection of the phone app: ConnectController, which connects to a *)
(* device, discovers its characteristics and reads it, and NodesController *)
(* with its cache, which fetches the device's node table.  Both run on one *)
(* thread, but every await lets others in: events of the connection, taps  *)
(* of the user, replies to other calls.  Awaits that no other call waits   *)
(* for (cancelling a stream, looking up preferences) are part of a step.   *)
(*                                                                         *)
(* Records are told apart by the device they come from only.  The pages of *)
(* a fetch and the retry are module BleSnapshot's; here a fetch has two    *)
(* pages, each read with the characteristic the controller holds then.     *)
(* ConnectState.copyWith keeps a field that is given as null, so that the  *)
(* device id is kept when the connection ends; NodesController follows it. *)
(***************************************************************************)
EXTENDS FiniteSets, Naturals

CONSTANTS
  Devices,      \* Naviga devices in reach
  None,         \* no device
  User,         \* stands for a refresh that the user asks for
  MaxTaps       \* bound: taps on devices that are not connected

ASSUME AppAssumption ==
  /\ None \notin Devices
  /\ User \notin Devices \cup {None}
  /\ MaxTaps \in Nat

VARIABLES
  link,         \* devices the phone is connected to
  listening,    \* device of _connectionSub and _activeDevice
  asked,        \* connectToDevice waits for the scan to stop
  dialing,      \* connectToDevice waits for connect
  status,       \* connectionStatus
  shown_id,     \* connectedDeviceId, and _connectedDeviceId of NodesController
  chars,        \* device whose characteristics are held
  subscribed,   \* device of _nodeTableSubscribeSubscription
  step,         \* per device its _handleConnected, and the user's refresh
  op,           \* device the pending call of such a task goes to
  got,          \* devices the records come from that such a task has read
  records,      \* devices the records on the screen come from
  restored,     \* _lastRestoredDeviceId
  cache,        \* per device the snapshot kept for it, or None
  taps,         \* taps so far
  switched      \* a device was chosen while another one was, or was being, connected

connVars == <<link, listening, asked, dialing, status, shown_id, chars, subscribed>>
nodeVars == <<records, restored, cache>>
appVars == <<connVars, step, op, got, nodeVars, taps, switched>>

Tasks == Devices \cup {User}
OrNone == Devices \cup {None}

-------------------------------------------------------------------------------

\* restoreFromCache: what the cache has for the device replaces the records on the screen,
\* once per device in a row; a snapshot that is too old is removed instead.
Restore(d) ==
  /\ restored' = d
  /\ IF restored = d \/ cache[d] = None
     THEN UNCHANGED <<records, cache>>
     ELSE \/ records' = cache[d] /\ UNCHANGED cache
          \/ cache' = [cache EXCEPT ![d] = None] /\ UNCHANGED records

\* The app starts with what earlier runs cached, and restores the last device's records.
AppInit ==
  /\ link = {}
  /\ listening = None
  /\ asked = {}
  /\ dialing = {}
  /\ status = "idle"
  /\ shown_id = None
  /\ chars = None
  /\ subscribed = None
  /\ step = [t \in Tasks |-> "none"]
  /\ op = [t \in Tasks |-> None]
  /\ got = [t \in Tasks |-> {}]
  /\ cache \in {[d \in Devices |-> IF d \in known THEN {d} ELSE None] : known \in SUBSET Devices}
  /\ restored \in OrNone
  /\ records = IF restored = None \/ cache[restored] = None THEN {} ELSE cache[restored]
  /\ taps = 0
  /\ switched = FALSE

\* Mutant: the characteristics of the node table survive the connection.
TeardownOfSubscription == subscribed' = None /\ UNCHANGED chars

\* _teardownGatt
Teardown == subscribed' = None /\ chars' = None

\* The tap on a device that is not connected.  The guard is evaluated, then stopScan awaited.
TapConnect(d) ==
  /\ status \notin {"connecting", "disconnecting"}
  /\ ~(status = "connected" /\ shown_id = d)
  /\ taps < MaxTaps
  /\ taps' = taps + 1
  /\ asked' = asked \cup {d}
  /\ switched' = (switched \/ (link \cup asked \cup dialing) \ {d} # {})
  /\ UNCHANGED <<link, listening, dialing, status, shown_id, chars, subscribed,
                 step, op, got, nodeVars>>

\* Mutant: the status changes with the events of the connection only.
DialQuietly(d) ==
  /\ d \in asked
  /\ asked' = asked \ {d}
  /\ listening' = d
  /\ dialing' = dialing \cup {d}
  /\ shown_id' = d
  /\ Restore(d)
  /\ switched' = (switched \/ (link \cup dialing) \ {d} # {})
  /\ UNCHANGED <<link, status, chars, subscribed, step, op, got, taps>>

\* The scan has stopped.  The connection there was is neither ended nor heard any more.
Dial(d) ==
  /\ d \in asked
  /\ asked' = asked \ {d}
  /\ listening' = d
  /\ dialing' = dialing \cup {d}
  /\ status' = "connecting"
  /\ shown_id' = d
  /\ Restore(d)
  /\ switched' = (switched \/ (link \cup dialing) \ {d} # {})
  /\ UNCHANGED <<link, chars, subscribed, step, op, got, taps>>

\* The device is connected; its event starts _handleConnected if it is listened to.  A call
\* that the last loss of the device broke has been answered by then.
DialSucceeds(d) ==
  /\ d \in dialing
  /\ d \in link \/ \A t \in Tasks : step[t] # "none" => op[t] # d
  /\ step[d] = "none"
  /\ dialing' = dialing \ {d}
  /\ link' = link \cup {d}
  /\ IF listening = d
     THEN /\ status' = "connected"
          /\ step' = [step EXCEPT ![d] = "discover"]
          /\ op' = [op EXCEPT ![d] = d]
     ELSE UNCHANGED <<status, step, op>>
  /\ UNCHANGED <<listening, asked, shown_id, chars, subscribed, got, nodeVars, taps, switched>>

\* The stream of connection states begins with the present one.  If that is "disconnected", the
\* screen is told so while the device is still being connected.
FirstEvent(d) ==
  /\ d \in dialing /\ d = listening /\ d \notin link
  /\ Teardown
  /\ status' = "idle"
  /\ UNCHANGED <<link, listening, asked, dialing, shown_id, step, op, got, nodeVars, taps, switched>>

DialFails(d) ==
  /\ d \in dialing
  /\ dialing' = dialing \ {d}
  /\ status' = "failed"
  /\ UNCHANGED <<link, listening, asked, shown_id, chars, subscribed, step, op, got,
                 nodeVars, taps, switched>>

\* A connection ends by itself; calls that are pending on it will fail.
LinkLost(d) ==
  /\ d \in link
  /\ link' = link \ {d}
  /\ IF listening = d
     THEN Teardown /\ status' = "idle"
     ELSE UNCHANGED <<status, chars, subscribed>>
  /\ UNCHANGED <<listening, asked, dialing, shown_id, step, op, got, nodeVars, taps, switched>>

\* The tap on the connected device, up to the await of the device's disconnect.
TapDisconnect ==
  /\ status = "connected"
  /\ status' = "disconnecting"
  /\ Teardown
  /\ UNCHANGED <<link, listening, asked, dialing, shown_id, step, op, got, nodeVars, taps, switched>>

\* It throws; otherwise the device is lost as above.
DisconnectFails ==
  /\ status = "disconnecting"
  /\ status' = "failed"
  /\ UNCHANGED <<link, listening, asked, dialing, shown_id, chars, subscribed, step, op, got,
                 nodeVars, taps, switched>>

-------------------------------------------------------------------------------
(* The tasks: each step is what runs between two awaits. *)

\* The task awaits, at s, a call with a characteristic of device d.
Await(t, s, d) ==
  /\ step' = [step EXCEPT ![t] = s]
  /\ op' = [op EXCEPT ![t] = d]

End(t) ==
  /\ step' = [step EXCEPT ![t] = "none"]
  /\ op' = [op EXCEPT ![t] = None]

\* Mutant: a call that was pending when its device was lost is taken for answered.
AnsweredAnyway(t, s) == step[t] = s

\* Whether the pending call of the task, which stands at s, can be answered.
Answered(t, s) == step[t] = s /\ op[t] \in link

\* discoverServices answers.  A device without the service or the first characteristic
\* ends the task.
Discovered(d) ==
  /\ Answered(d, "discover")
  /\ \/ chars' = d /\ Await(d, "reads", d)
     \/ UNCHANGED chars /\ End(d)
  /\ UNCHANGED <<link, listening, asked, dialing, status, shown_id, subscribed, got,
                 nodeVars, taps, switched>>

\* After a refresh, whether it failed or not: _startNodeTableSubscription if the task is
\* _handleConnected's.
AfterRefresh(t) ==
  IF t = User \/ chars = None THEN End(t) ELSE Await(t, "notify", chars)

\* refresh up to its first await; it does not throw, but notes the error.
StartRefresh(t) == IF chars = None THEN AfterRefresh(t) ELSE Await(t, "page0", chars)

\* DeviceInfo and Status have been read, or not: errors are noted and the task goes on.
ReadsDone(d) ==
  /\ step[d] = "reads"
  /\ StartRefresh(d)
  /\ UNCHANGED <<connVars, got, nodeVars, taps, switched>>

UserRefreshes ==
  /\ step[User] = "none"
  /\ StartRefresh(User)
  /\ UNCHANGED <<connVars, got, nodeVars, taps, switched>>

\* The first page.
Page0(t) ==
  /\ Answered(t, "page0")
  /\ got' = [got EXCEPT ![t] = {op[t]}]
  /\ IF chars = None THEN AfterRefresh(t) ELSE Await(t, "page1", chars)
  /\ UNCHANGED <<connVars, nodeVars, taps, switched>>

\* refresh saves under the id of the device that is connected when the fetch is done.
Keep(s) == cache' = [cache EXCEPT ![shown_id] = s]

\* The last page.  Pages of two devices pass if their snapshot ids happen to be the same;
\* otherwise the fetch starts again, or fails.
LastPage(t) ==
  /\ Answered(t, "page1")
  /\ \/ /\ got' = [got EXCEPT ![t] = @ \cup {op[t]}]
        /\ Keep(got'[t])
        /\ step' = [step EXCEPT ![t] = "save"]
        /\ op' = [op EXCEPT ![t] = None]
     \/ /\ op[t] \notin got[t]
        /\ StartRefresh(t) \/ AfterRefresh(t)
        /\ UNCHANGED <<got, cache>>
  /\ UNCHANGED <<connVars, records, restored, taps, switched>>

\* The snapshot is saved: the records are shown.
Publish(t) ==
  /\ step[t] = "save"
  /\ records' = got[t]
  /\ got' = [got EXCEPT ![t] = {}]
  /\ AfterRefresh(t)
  /\ UNCHANGED <<connVars, restored, cache, taps, switched>>

\* setNotifyValue answers; the stream listened to before is cancelled.
Subscribed(d) ==
  /\ Answered(d, "notify")
  /\ subscribed' = op[d]
  /\ End(d)
  /\ UNCHANGED <<link, listening, asked, dialing, status, shown_id, chars, got, nodeVars, taps, switched>>

\* A batch of updates is merged into the records on the screen.
Update ==
  /\ subscribed \in link
  /\ records' = records \cup {subscribed}
  /\ UNCHANGED <<connVars, step, op, got, restored, cache, taps, switched>>

\* The pending call of the task fails: at once if its device is lost, else for any reason.
CallFails(t) ==
  /\ step[t] \in {"discover", "page0", "page1", "notify"}
  /\ got' = [got EXCEPT ![t] = {}]
  /\ IF step[t] \in {"page0", "page1"} THEN AfterRefresh(t) ELSE End(t)
  /\ UNCHANGED <<connVars, nodeVars, taps, switched>>

AppNext ==
  \/ \E d \in Devices :
       \/ TapConnect(d) \/ Dial(d) \/ FirstEvent(d) \/ DialSucceeds(d) \/ DialFails(d)
       \/ LinkLost(d)
       \/ Discovered(d) \/ ReadsDone(d) \/ Subscribed(d)
  \/ TapDisconnect \/ DisconnectFails
  \/ UserRefreshes
  \/ \E t \in Tasks : Page0(t) \/ LastPage(t) \/ Publish(t) \/ CallFails(t)
  \/ Update

AppSpec == AppInit /\ [][AppNext]_appVars

-------------------------------------------------------------------------------
(* Properties *)

\* Every variable has its type, and a call is made with a characteristic that is held.
AppTypeOK ==
  /\ link \subseteq Devices
  /\ listening \in OrNone
  /\ asked \subseteq Devices
  /\ dialing \subseteq Devices
  /\ status \in {"idle", "connecting", "connected", "disconnecting", "failed"}
  /\ shown_id \in OrNone
  /\ chars \in OrNone
  /\ subscribed \in OrNone
  /\ step \in [Tasks -> {"none", "discover", "reads", "page0", "page1", "save", "notify"}]
  /\ op \in [Tasks -> OrNone]
  /\ \A t \in Tasks : step[t] \in {"discover", "page0", "page1", "notify"} => op[t] # None
  /\ got \in [Tasks -> SUBSET Devices]
  /\ records \subseteq Devices
  /\ restored \in OrNone
  /\ cache \in [Devices -> (SUBSET Devices) \cup {None}]
  /\ taps \in 0 .. MaxTaps
  /\ switched \in BOOLEAN

\* Unless the user changes devices under way, the characteristics the controller holds are
\* those of the device on the screen and of a live connection: neither a handler that comes
\* back after the disconnect nor a reconnect leaves others.
GattIsOfShownDevice ==
  ~switched /\ chars # None => chars = shown_id /\ chars \in link

\* The cache of a device never holds another device's records, whatever losses, reconnects
\* and refreshes overlap, unless the user changes devices under way.
CacheIsOfItsDevice ==
  ~switched => \A d \in Devices : cache[d] \in {None, {d}}

\* What the screen calls connected is connected.
ConnectedIsLinked == status = "connected" => shown_id \in link

================================================================================
