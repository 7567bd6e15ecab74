# A TLA+ model of corebluetooth-rs

This directory verifies the control logic of the three crates of this
repository:

- `dispatch-executor`: futures run in the blocks of a Grand Central Dispatch
  (GCD) queue, and values that are not `Send` reached from other threads
  through that queue;
- `corebluetooth`: Rust wrappers of CoreBluetooth's central role, with delegate
  bridges that translate Objective-C callbacks;
- `corebluetooth-async`: `CentralManagerAsync` and `PeripheralAsync`, which turn
  commands and callbacks into futures and streams.

The modules are translated from the code; `PROJECT.json` gives, for every
definition, the lines it stands for. What CoreBluetooth, GCD, `async_task`,
`async_broadcast` and `oneshot` do is modelled from how the code uses them, and
marked external there.

1. [The system](#1-the-system)
2. [The modules](#2-the-modules)
3. [What the runs check](#3-what-the-runs-check)
4. [What the model assumes](#4-what-the-model-assumes)
5. [What is proved](#5-what-is-proved)
6. [What disagrees with the documentation](#6-what-disagrees-with-the-documentation)
7. [Not modelled](#7-not-modelled)

## 1. The system

A program creates a `CentralManagerAsync` on a GCD queue, usually through
`Executor::background`. From then on everything happens in blocks of that queue:
polls of futures, drops of futures, and CoreBluetooth's delegate callbacks. A
future's first poll gives CoreBluetooth a command and leaves something for the
callback to find (a `oneshot` sender in a map, or a receiver on a broadcast
channel); a callback finds it, sends, and wakes the future; a later poll returns.
There are no locks in the async crate: mutual exclusion comes from the queue,
and everything hard comes from the order of blocks.

| Component | State | Operations | What makes it correct |
|---|---|---|---|
| **One-shot requests** (`corebluetooth-async/src/peripheral.rs`) | seven maps or cells of `oneshot` senders in the delegate, keyed by attribute | discovery of included services, characteristics, descriptors; descriptor reads and writes; characteristic writes; notification changes; L2CAP opens; their callbacks; dropped futures | no call waits with its sender gone; an outcome is given to one call; it is another call's only if that call was abandoned; `Canceled` only to an overtaken call |
| **Broadcasts of a peripheral** (same file) | five channels, and a map of value channels made on demand | name, service and value streams; `discover_services`, `read_rssi`, `read_characteristic_value`, `ready_to_send_write_without_response`; their callbacks; the end of the delegate | the once methods miss no event; every receiver is sent every event; nobody listening is no error; a stream ends only when it has given what was sent |
| **Broadcast channels** (`util.rs`) | the unread events of each receiver | `broadcast()` (16 events, overflow on), `watch()` (1 event) | newest events, in order, without a hole; a loss is reported |
| **Connections** (`corebluetooth-async/src/central_manager.rs`) | a map of senders of pending attempts; the channel of disconnections | `connect_with_options` and its scope guard; `cancel_peripheral_connection`; five callbacks, each of which unwraps the weak delegate of its peripheral | a dropped call leaves no attempt behind; a connection reaches a call that waits; the answer to a call's attempt finds the delegate; a cancel call sees its disconnection; calls do not undo each other |
| **Discovery** (same file; bridges in `corebluetooth/src`) | the cell with the sender of the latest scan; the weak delegates of peripherals | `scan`, `stop_scan`, `did_discover`, retrieval, `Service::peripheral`, `register_for_connection_events` | a scan whose stream is dropped stops; a peripheral has one delegate however it was come by |
| **The manager and its state** (same files) | whether there is a manager; the channel of its states | `background`, `main_thread`, `state`, `state_updates`, `did_update_state`, the drop of the last `CentralManager` | who waits for the power is told of it, and not by old news; no stream outlives the manager in silence |
| **Errors** (`error.rs` of both crates) | none | conversions to `ErrorKind`, `Canceled` and `Lagged` | an error means what its kind says |
| **Executor** (`dispatch-executor/src/lib.rs`) | the blocks of a queue, the state words of tasks | `background`, `spawn`, `spawn_local`, dropping, detaching and awaiting a `Task`, `Handle::lock` | values that are not `Send` are never reached by two blocks at once; no wake-up is lost; a dropped task's future is dropped on its queue; `lock` returns |
| **L2CAP channels, advertisement data, UUIDs** | none of their own | constructors and conversions | conversions lose nothing they claim to keep |
| **Services, characteristics, descriptors, centrals** | none: getters of Objective-C objects | reads | |

Interactions: `CentralManagerAsync` makes `PeripheralAsync`s by way of
`Peripheral::init`, which attaches the delegate that holds every map above; the
delegate callbacks of the manager and of its peripherals run on one queue;
futures are polled by the executor as blocks of the same queue; the once
methods and `cancel_peripheral_connection` read the same channels the caller's
streams do.

What is hard, and why tests do not reach it: a test has one call in flight and a
peripheral that answers. Here calls overlap on one key, futures are dropped by
timeouts between any two blocks, links are lost with requests outstanding,
receivers are slow, peripherals are discovered again while in use, queues may be
concurrent and tasks cancelled from other threads. `PROJECT.json` lists these
hazards one by one, at the line where each bites, with the properties that watch
it or the reason none does.

## 2. The modules

| Module | Models | Actions stand for |
|---|---|---|
| `OneShotCalls` | abstract specification of a call that awaits a oneshot channel | `Make`, `Arrive`, `Return`, `Drop` |
| `PeripheralRequests` | one-shot requests | `Discover`, `Access`, `OpenL2cap`: the first poll of each family of methods (request, registration and await are one block); `Poll`, `DropCall`; `Respond`: a callback, which takes the sender out of its map and sends; `Disconnect`, `LoseRequest`, `Reconnect`: the link |
| `EventInbox` | what one receiver of a broadcast channel holds | operators only: `Offer` is `try_broadcast` as that receiver sees it |
| `EventStreams` | abstract specification of `broadcast()` and `watch()` | `Subscribe`, `Publish`, `Deliver`, `ReportLag`, `Unsubscribe` |
| `PeripheralUpdates` | broadcasts of a peripheral | `OpenStream`, `AskOnce`, `AwaitReady`: methods; `FinishOnce`, `StreamRecv`, `StreamNext`, `DropReceiver`; `Announce`, `Answer`, `AnswerRead`, `Notification`, `BecomeReady`: callbacks; `LoseAnswer`, `LoseReady`, `BufferFills`, `BufferDrains`: CoreBluetooth; `DropDelegate`: the last `Peripheral` goes, and the senders with it; `StreamEnd` |
| `CentralConnections` | connections | `Connect`, `FinishConnect`, `FailConnect`, `DropConnect`; `Cancel`, `ReadDisconnects`, `ReachUnreachable`, `DropCancel`; `Obtain`, `LetGo`: the caller's `Peripheral`s; `DidConnect`, `DidFailToConnect`, `Closed`, `LinkLost`, `DidUpdateANCS` |
| `ErrorKinds` | the errors of the two crates | operators only: what `kind()` says of an error from CoreBluetooth, of a failure without one, and of a dropped sender |
| `CentralDiscovery` | the manager and its power state, scans, retrieval, connection events and weak delegates | `Construct`: the block that makes the manager; `ScanPowered`, `ReadState`: a caller that waits for the power and then scans; `ChangePower`, `DidUpdateState`; `DropManager`; `Scan`, `StopScan`, `ReadStream`, `DropStream`, `Advertise`, `DidDiscover`; `Retrieve`, `DropPeripheral`, `KeepService`, `ServicePeripheral`; `Register`, `ConnectionEvent` |
| `DispatchExecutor` | the executor | `Background`, `Lock`, `StartSync`, `Return`; `Spawn`, `SpawnLocal`, `StartPoll`, `StartCanceled`, `Suspend`, `Complete`, `Wake`; `DropTask`, `Detach`, `DropWakers`, `TaskPoll` |
| `MCEventStreams`, `MCDispatchExecutor` | instances for TLC | capacities per key; which queues' handles nest |
| `OneShotCallsProofs`, `PeripheralRequestsProofs`, `EventInboxProofs`, `EventStreamsProofs`, `PeripheralUpdatesProofs`, `CentralConnectionsProofs`, `CentralDiscoveryProofs`, `DispatchExecutorProofs` | theorems and their proofs, one module for each module above; `EventInboxProofs` has lemmas that the modules on inboxes share | |

`PeripheralUpdates`, `CentralConnections` and `CentralDiscovery` are built on
`EventInbox`, and so is the abstract `EventStreams`; `CentralConnections` also
on `ErrorKinds`. `PeripheralUpdates` instantiates `EventStreams`
(its channels for the keys) and is checked, and proved, to implement it: its senders, the map
of value channels and the once methods are invisible to a subscriber, who sees
subscriptions, events and lags.

`PeripheralRequests` and `CentralConnections` each instantiate `OneShotCalls`,
and each is checked, and proved, to implement it. It says what the two maps of
senders have in common, the one keyed by attribute and the one keyed by
peripheral: one call waits on a key at a time, the next one takes its place and
makes it fail with `Canceled`, and what a callback sends goes to whoever waits
by then, or to nobody. That CoreBluetooth holds requests and may lose them, that
a dropped call leaves its sender in the map, that a guard withdraws attempts and
that cancel calls read disconnections is invisible to it. It says nothing of
*whose* outcome a call gets: that is where requests and connections differ, and
what their own properties are about.

The two layers of the system, calls and blocks, meet at the block: what
`DispatchExecutor` establishes (on a serial queue blocks run one at a time; a
wake-up leads to exactly one further poll; a dropped local task is dropped in a
block of its own) is what the other modules take an action to be.

Names follow the code. State of the program and state of CoreBluetooth are
separate variables: in `PeripheralRequests`, `pending` is the program's (the
maps), `inFlight` and `lost` are CoreBluetooth's; in `CentralConnections`,
`connecting` is the map of senders, `link`, `closing`, `owed` and `auto` are
CoreBluetooth's. A few variables are history, read by properties only: `next`
in the stream modules (where a receiver has got to), `lost`, and `withdrawnBy`
(who withdrew an attempt).

Definitions headed *Mutant of* are deliberate faults, each one a plausible
slip at that place. No specification uses them; put in the place of the
definition that follows, each makes the property that `PROJECT.json` pairs it
with fail. They show that the properties depend on the code.

## 3. What the runs check

| Run | Instance | Checks | Shows |
|---|---|---|---|
| `requests` | three calls, one attribute, four operations: a discovery, both write types, an L2CAP open | `NoOrphanWaiter`, `WaiterBacked`, `ForeignAnswerHasCause`, `OneShotSpec`, `AnsweredOrLost` | calls that overlap on a key never strand one another; the price of keying by attribute (an outcome that reaches the wrong call) is paid only after a call was dropped or overtaken; the implementation of `OneShotCalls` |
| `write_without_response` | one call | `WriteReturns`, violated | finding 1 |
| `streams` | two receivers, a channel of two events and one of one, five events | `NewestRetained`, `LossReported` | what a subscriber may rely on |
| `updates` | two receivers, one characteristic, three channels of the delegate, capacity two | `OnceBacked`, `NoLostReady`, `LaggedOnlyIfOverrun`, `EndsComplete`, `StreamsSpec`, `OnceReturns` | asking before subscribing loses no answer, because both are in one block; a stream whose delegate is dropped gives what it still holds before it ends; the implementation of `EventStreams` |
| `value_update_panic` | two receivers | `NeverAborts`, violated | finding 2 |
| `connections` | two peripherals, two connect and two cancel calls, capacity two | `ConnectBacked`, `CancelBacked`, `CanceledIsOvertaken`, `OneShotSpec`, `NoAttemptLeftBehind`, `ConnectionTold`, `AttemptKeepsDelegate`, `CancelSettles` | the scope guard, that what it leaves in the map hides no connection from the call that waits, what `Canceled` tells a caller, that the answer to a call's attempt never finds the delegate gone, and what cancel calls may rely on |
| `cancel_unreachable` | two peripherals, two connect calls, one cancel call, the code's capacity of 16 | `NeverUnreachable`, violated | finding 3 |
| `overtaken_connect` | one peripheral, two connect calls | `NotUndoneByOvertaken`, violated | finding 4 |
| `executor` | a concurrent queue and a serial one, one thread, two tasks, `lock` nested from the first queue to the second | `AccessExclusive`, `WakeKept`, `LocalDroppedAlone`, `DroppedNotPolled`, `DroppedReclaimed`, `LockReturns` | barriers are where they must be, cancellation is safe from any thread, and a `lock` nested in order gets its turn |
| `lock_reentered` | one queue, one task | `LockReturns`, violated | finding 5 |
| `discovery` | two callers, two peripherals, two delegate identities, two unread discoveries, two state updates to report | `OneDelegate`, `OpenIsFed`, `ScanAttended`, `NoLostPowerOn`, `ScansWhenPowered`, `PowerOnReaches`, `DroppedScanStops` | peripherals come by twice share their maps of requests; scans stop; a caller may subscribe to the state unseen in the block that makes the manager, and later if it looks first, and because `state_updated` holds one event it acts on no old one |
| `connection_event_panic` | one scan, one peripheral | `EventNeverAborts`, violated | finding 6 |

Each passing run also checks the type invariant of its module. The largest are
`updates` (about 379,000 states, a minute), `connections` (291,000, somewhat
less) and `discovery` (201,000, somewhat more).

### Bounds, and why they are enough

- *Three calls on a slot* (`requests`): one to be dropped or overtaken, one that
  receives its outcome, one whose outcome finds somebody or nobody in turn.
  Operations interact only through slots, so that four of the nine, which
  include the two that share a map and the one whose slot all attributes share,
  give every way two operations can relate; one attribute suffices since the
  attribute is part of the slot's name. The theorems of section 5 drop this bound.
- *Capacity two, five events* (`streams`): enough to fill an inbox, overrun it
  by one and by several, report the lag and overrun it again; the watch channel
  covers capacity one.
- *`MaxEvents` two* (`updates`) bounds unsolicited events per channel. Answers
  are bounded by the calls and come on top, so that a value channel of capacity
  two, and the ready channel of capacity one, are overrun.
  Two receivers suffice for a channel to have none, one and more than one, and
  for one to be dropped under another.
- *Two connect and two cancel calls* (`connections`): an overtaking needs two
  connect calls; a cancel call that reads the event of another needs two
  peripherals. Links are lost and made again, and `Peripheral`s come by and let
  go, without a bound; capacity two lets a cancel call be overrun.
- *One thread, two tasks, two queues* (`executor`): tasks are actors too, as
  their code may lock and spawn, so three actors contend. The second queue makes
  a `lock` from inside a block wait behind other work; as locks nest in that one
  order only, no circle of waits can arise here, and circles are left to the
  theorems, where any order is allowed. Three blocks on one queue
  are enough for a barrier to have one before and one behind it.
- *`Bridges` two* (`discovery`) is how many delegates of a peripheral can be
  told apart at once: the property is that there is never a second. `MaxUnread`
  bounds the unread discoveries of a stream, whose channel is unbounded in the
  code; no property depends on how many there are beyond one that stays.
- *`MaxDue` two* (`discovery`): the power may change twice before the first
  change is reported, so that a report can carry a state later than the one it
  is about, and be followed by a report that says the same.
- *Codes 5 and 10, three domains* (`connections`): 5 is `OperationCancelled` in
  one domain and `InsufficientAuthentication` in another; 10 is the kind a
  failure without an `NSError` is given.

Calls, streams and tasks are each used once, so every system here may stop with
nothing left to do: `CHECK_DEADLOCK FALSE`. That it does not stop too early is
what the liveness properties say.

### Fairness, and why the code justifies it

- A queue runs every block it is given: weak fairness of the polls that a sent
  outcome or event has woken (`Poll`, `FinishOnce`, `FinishConnect`,
  `ReadDisconnects`) and of starting blocks (`Start`). The wake-ups themselves
  are what `DispatchExecutor` models.
- The code of a block runs for a finite time: fairness of its end. It is strong
  fairness, as a block is interrupted, again and again if it likes, by the calls of `lock` it
  makes; the closures of nested calls end under weak fairness.
- CoreBluetooth deals with every request it holds, by a callback or by losing it
  with the link: weak fairness of the disjunction, never of the answer itself.
  A full buffer drains, and CoreBluetooth says so, unless the link is lost
  before the one or the other: again the disjunction, with `LoseReady`.
- A connection asked to close closes. An attempt to connect need never end, and
  has no fairness: CoreBluetooth does not time attempts out.
- Something goes on advertising while a scan is on, for `DroppedScanStops`
  only: the code stops a scan whose stream is gone when the next discovery fails
  to be sent, and without one it never does.
- CoreBluetooth reports every change of the manager's state, and a caller that
  was woken by a report is polled, for `PowerOnReaches`. The power itself comes
  and goes as it likes: the property is about the case that it comes to stay.
- Fairness ends with what it is about: with the delegate in `PeripheralUpdates`,
  with the manager in `CentralDiscovery`. A once method and a caller that waits
  for the power each hold what they wait on, so neither can end under them.
- Nothing obliges a caller to make a call, to drop one or to read a stream.

## 4. What the model assumes

- **Serial queue.** `CentralManagerAsync::background` passes a serial queue to
  CoreBluetooth, and delegate callbacks and polls (submitted with
  `barrier_async`) are blocks of it. So an action is one block, atomic, and
  blocks come in any order. Only `DispatchExecutor`, about the executor itself,
  has queues where blocks run together. The main queue is a serial queue
  whose code outside blocks is not modelled.
- **Requests** are answered one callback each, in order per slot, and a
  disconnection may leave any of them without. One that comes while the buffer
  of writes is full, or before `isReadyToSendWriteWithoutResponse` is called,
  may leave that call undone too. A write without response has no
  callback, as the only callback for a write is `didWriteValueFor`, which
  CoreBluetooth calls for writes with response.
- **Broadcast channels** (`async_broadcast`): a new receiver starts empty; each
  receiver has the last *capacity* events it has not read; an overrun is
  reported once by `recv()` and passed over by `Stream::next()`; sending with no
  active receiver is an error the code ignores. One queue shared by all
  receivers in the library, one inbox per receiver here: a receiver cannot tell.
- **Connections**: a change of state and its callback are one block. Cancelling
  an attempt that is pending gives no callback. A connect to a connected
  peripheral is confirmed before the link can be lost. A connect while
  disconnecting sets the state to connecting, and the disconnection is reported
  all the same. The central is powered on throughout this module.
  An attempt CoreBluetooth makes by itself may fail or be confirmed like another.
  The reason CoreBluetooth gives for a failure is any of three domains, or none.
- **Power**: a manager starts in a state that is not `PoweredOn` (`Unknown`), and
  reports every change in a block of its own, which reads the state there is by
  then. A scan is heeded only when the state is `PoweredOn`, and ends with it.
  What the caller does with its manager otherwise is its own: it may scan
  without a look at the state, and drop the manager at any time but while it
  waits on it.
- **Services**: a `CBService` a caller holds may be asked for its peripheral
  whether a `Peripheral` is alive or not; that the `CBPeripheral` itself is
  still there is what makes the call return one, or panic.
- **Delegates**: `CBPeripheral.delegate` is a weak property, so that a delegate
  lives as long as a `Peripheral` that holds it: one of the caller's, or one in
  an event that nobody has read yet. Connect and cancel calls borrow the one they
  are given. A discovery under way when a scan stops may still be delivered.
- **A panic** in a delegate callback unwinds into frames of Objective-C, which
  aborts: the actions that reach one set `aborted`, and nothing follows. In
  `CentralDiscovery` and `CentralConnections`, where there are several places,
  `panic` says which; the panics in `Service::peripheral` and in the loop of a cancel call are
  in blocks of the caller's, and are taken to end the program too.
- **Tasks** are the state words of `async_task`, with its flags; a waker may be
  used by anybody as long as the future is alive. Who holds wakers is not
  modelled: a detached task at rest may find itself without one at any time, is
  then scheduled once more, closed, and has its future dropped on its queue
  (`Detach` if there was none to begin with, `DropWakers` later).
- **Nesting**: which queues' handles code on a queue may lock is an assumption
  about callers, the constant `Nesting`. `Handle::lock` itself looks at nothing.
  The instance allows one pair, `lock_reentered` a queue and itself, the theorems
  any relation. Nested locks of the instance are two deep.

## 5. What is proved

The proofs are checked by TLAPS, for every value of the constants that
satisfies the named assumptions, which TLC evaluates in the runs too. Every
safety property that the passing runs check is a theorem. Each module has one
inductive invariant, `IndInv`, with one lemma for each action or family of
actions, and the properties follow from `Invariance`.

**`OneShotCallsProofs`** (from `ValuesDistinct`: an unset channel, a dropped sender
and the outcomes can be told apart). For any calls, keys and outcomes:

- `OneTaker`: `Spec => []OneWaiter`. No two calls wait on a key;
- `CancellationCaused`: `Spec => []CanceledHasCause`. A call fails with `Canceled`
  only if another call was made on its key;
- `OutcomesStay`: `Spec => OutcomeStays`. A channel is used once, and only while
  its call waits, so that what it holds is what the call returns.

The two modules that implement it have these for nothing once the refinement is
proved, and their own proofs need not look at channels again.

**`PeripheralRequestsProofs`** (from `RequestsAssumption`: the operations are
those of `SenderMap`; the two markers are no calls and differ). For any set
of calls, attributes and operations:

- `TypeCorrect`: `Spec => []TypeOK`;
- `WaitersServed`: `Spec => []NoOrphanWaiter`. A call that waits is found by a
  callback;
- `WaitersBacked`: `Spec => []WaiterBacked`. The sender in a slot is backed by a
  request CoreBluetooth still holds, or has lost;
- `AnswersAttributed`: `Spec => []ForeignAnswerHasCause`. An outcome that is
  given to another call than its own goes to one on the same key, only after its
  own call was abandoned, and to no third;
- `ImplementsOneShot`: `Spec => OneShotSpec`, the refinement, with
  `CancellationCaused` and `AnswersStay`, the theorems it carries over;
- `TurnsServed`: `Spec /\ []TakeTurns => []OwnAnswers`. Callers who await each
  call on a key before they make the next, and drop none, read their own
  outcome or wait, whatever connections are lost.

None of the invariants is inductive. The invariant that is adds where calls and requests
are: `SendersUnused` (a sender in a slot belongs to a call of that slot, which
has no answer yet), `RequestsUnanswered` (a request CoreBluetooth holds was made
under that slot by a call that is not idle and whose outcome is in no channel;
its maker waits in the map, or was abandoned), `RequestsDistinct` (it holds each
once, in one slot) and `IdleUntouched` (a call not made is nowhere). With these
the heart of the argument is short. `WaiterBacked` says that the sender in a
slot is that of the *last* request of the slot's queue; so when the head of the
queue is answered and somebody else's sender is found, that somebody made a
later request, and the head's own call was overtaken, dropped, or has been given
an earlier outcome: it is `Abandoned`. The refinement needs `SendersUnused`
alone: a sender found in a map is that of the call that waits, if one does.
`TurnsServed` is the same argument read the other way, as nobody is `Abandoned`
who has waited for his turn. Both halves of its premise are needed: TLC finds a
counterexample if calls may overlap, and one if a call may be dropped.

**`EventInboxProofs`**. What `Offer` does to an inbox: it adds the event, keeps
what there is room for, and marks as lagging an inbox that had none. Events are
any set; that the counters of `EventStreams`, the peripherals of
`CentralConnections` and the states of `CentralDiscovery` are all events is why
these lemmas stand alone.

**`EventStreamsProofs`** (from `StreamsAssumption`: capacities are positive). For
any receivers, keys and capacities, and events without a bound:

- `TypeCorrect`: `Spec => []TypeOK`;
- `KeepsNewest`: `Spec => []NewestRetained`. An inbox is a contiguous run of
  event numbers that ends with the newest;
- `ReportsLoss`: `Spec => []LossReported`.

The two are proved together per receiver (`Kept(r)`): that an inbox not marked
as lagging starts where its receiver left off cannot be shown without knowing
that it has no holes.

**`PeripheralUpdatesProofs`** (from `UpdatesAssumption`: the channels of the
delegate are no characteristics, capacities are positive, receivers are finitely
many, as a number of them is compared with zero):

- `TypeCorrect`: `Spec => []TypeOK`;
- `NothingMissed`: `Spec => []OnceBacked`;
- `ReadyNotLost`: `Spec => []NoLostReady`. Who waits for room in the buffer will be
  told of it, unless that was lost with the link;
- `ImplementsStreams`: `Spec => StreamsSpec`, the refinement;
- `LagsAreOverruns`: `Spec => LaggedOnlyIfOverrun`;
- `EndsAreComplete`: `Spec => EndsComplete`.

`IndInv` adds `OpenInMap`: a receiver that is open on a characteristic finds that
characteristic in the map, while there is a map. Without it the refinement fails at a value update
that finds no channel in the map (`UpdateValue`): it reaches nobody, which is a
`Publish` of the abstract module only if nobody is subscribed. The refinement
maps a step to `Subscribe`, `Publish`, `Deliver`, `ReportLag` or `Unsubscribe`
of the abstract module, or to a stutter.
`LagsAreOverruns` is then not proved again here: `ReportsLoss`,
a theorem about `EventStreams`, is carried over through the instance
(`ReceiversTold`), and says that a lag has its cause. `EndsAreComplete` rests on
it too: an inbox that is empty and not marked as lagging starts, and so ends,
where its channel is.

**`CentralConnectionsProofs`** (from `ConnectionsAssumption`: connect and cancel calls
are different calls, the marker is none of them, the capacity is positive):

- `TypeCorrect`: `Spec => []TypeOK`;
- `ConnectsBacked`: `Spec => []ConnectBacked`;
- `CancelsBacked`: `Spec => []CancelBacked`;
- `NoneLeftBehind`: `Spec => NoAttemptLeftBehind`, a property of steps;
- `ConnectionsTold`: `Spec => ConnectionTold`, another;
- `CanceledMeansOvertaken`: `Spec => []CanceledIsOvertaken`;
- `AttemptsKeepDelegates`: `Spec => []AttemptKeepsDelegate`. While CoreBluetooth
  tries to connect for a call, the `Peripheral` that keeps the delegate lives;
- `ImplementsOneShot`: `Spec => OneShotSpec`, the refinement, with `OneCallWaits`
  and `OutcomesStay`, the theorems it carries over;
- `TurnsNotUndone`: `Spec /\ []TakeTurns => []NoneOvertaken`,
- `AbortsOnlyOverrun`: `Spec /\ []ReadInTime => []NeverUnreachable`, and
- `CallbacksSafeIfHeld`: `Spec /\ []LinksHeld => []DelegateFound`, which say what
  is left of three claims that fail (below).

The two properties of steps need `AttemptAttended`, an invariant: an attempt
under way is a reconnection CoreBluetooth makes by itself, or one that a call
waits for. So a step after which no call waits has ended the attempt, and one
that connects answers the call that `ConnectBacked` puts in the map. With
`CallsHeld` (who waits borrows a `Peripheral`) it also says that the answer finds
a delegate. That is why `CallbacksSafeIfHeld` asks the caller to
hold what is connected, closing or reconnecting, and says nothing of attempts.
`CanceledMeansOvertaken` has an invariant of its own, `Overtaken` (a call that
is `Canceled`, or whose sender was dropped, has another on its peripheral), and
the lemma `ConnectErrorKind` about `ErrorKinds`: whatever CoreBluetooth gives as
a reason, the kind it becomes is none of the crate's own. The refinement has
`SendersUnused`: a sender in the map belongs to a connect call on that
peripheral, and its channel is empty. The theorems of
`OneShotCalls` come over by way of the instance `CallFacts` of
`OneShotCallsProofs`.

**`CentralDiscoveryProofs`** (from `DiscoveryAssumption`: the marker is no stream and no
delegate; there are delegates):

- `TypeCorrect`: `Spec => []TypeOK`;
- `DelegateShared`: `Spec => []OneDelegate`;
- `OpenStreamsFed`: `Spec => []OpenIsFed`;
- `ScansAttended`: `Spec => []ScanAttended`;
- `PowerOnNotLost`: `Spec => []NoLostPowerOn`;
- `WaitersScanPowered`: `Spec => ScansWhenPowered`, a property of steps;
- `EventsSafeIfHeld`: `Spec /\ []EventsExpected => []EventNeverAborts`. No connection
  event aborts if a `Peripheral` is alive, by whichever way it was come by, of
  every peripheral that events may come of.

The conjunction of the properties with the type invariant is inductive once it
has `FreshState`: a caller that waits holds at most one state unread, which is
the state there is, or a report is due that will take its place. That is where
the capacity of `watch()` comes in, and `WaitersScanPowered` follows. `Unmade`,
an invariant apart, says that before there is a manager its state is not
`PoweredOn` and nobody has been sent one, which makes it right to subscribe
unseen in the block that makes it.

**`DispatchExecutorProofs`** (from `ExecutorAssumption`: threads are no tasks, the marker
is no queue, concurrent queues and nestings are of the queues there are). For
any number of queues, threads and tasks, locks nested to any depth, and whatever
handles code on a queue may lock:

- `TypeCorrect`: `Spec => []TypeOK`;
- `AccessesExclusive`: `Spec => []AccessExclusive`;
- `WakesKept`: `Spec => []WakeKept`;
- `LocalsDroppedAlone`: `Spec => LocalDroppedAlone`;
- `DroppedStopped`: `Spec => DroppedNotPolled`;
- `DroppedNotForgotten`: `Spec => []DroppedAttended`. The future of a task that was
  closed, because its `Task` was dropped, or was detached and no waker is left,
  is being polled, waits for its last turn, or is dropped; and a `Task` that is held
  keeps the future of its task until it completes;
- `FuturesUsedAlive`: `Spec => UsedAlive`. A future is polled or dropped only while
  it is alive;
- `LocksDoNotCircle`: if `LocksOrdered`, `Spec => []NoCircularWait`. Queues whose
  blocks wait for one another's are no circle;
- `SomeoneGoesOn`: if `LocksOrdered`, `Spec => []SomeQueueGoesOn`. While a block waits
  to start, some queue with one waiting starts one or has code running.

`BarrierAlone` says that a barrier that runs runs alone, and `RunningAsMeant`
that the blocks which touch values are barriers: together they give the first.
That wake-ups are kept rests on `WaitingOnce` (no block waits twice),
`WaitingAsMeant` (a poll that waits is of a task scheduled and not running) and its
converse `ScheduledWaits`. `PollEncloses` ties code to blocks: the code
of a task, at any depth of locks, is inside the block of its poll, which is what
makes the end of a poll the end of the right block. `FuturesAsMeant` ties the
flags of a task to its future, by a proof of its own on top of `IndInv`.

For locks there is a second invariant, `LockInv`: code enters a closure, or waits
to, from a closure or poll that may lock its handle (`NestedAsMeant`), a block
that runs is one its code is in (`BlocksEnclose`), and who is blocked in
`barrier_sync` has a closure waiting in that queue (`WantsWait`). A block of one queue that waits for another is then the start of a
path in `Nesting`, and `LocksOrdered` says that every set of queues has one from
which no path goes on in the set. `LocksOrdered` is a hypothesis and no
assumption of the module: the code does not see to it, and `lock_reentered` is
the run where it is false. No run checks `NoCircularWait`: where `LocksOrdered`
is true on two queues there is no circle to look for.

**What is left of the claims that fail.** For four of the disagreements of
section 6 a theorem says what a caller can do to be safe from them:

| Claim | Run that refutes it | Holds if | Theorem |
|---|---|---|---|
| an overtaken connect call undoes no other (4) | `overtaken_connect` | connect calls to a peripheral take turns | `TurnsNotUndone` |
| `unreachable!()` is not reached (3) | `cancel_unreachable` | a cancel call reads before its channel is full | `AbortsOnlyOverrun` |
| `lock` does not deadlock (5) | `lock_reentered` | handles are locked in an order | `LocksDoNotCircle`, `SomeoneGoesOn` |
| a callback finds the delegate it unwraps (6) | `connection_event_panic` | a `Peripheral` is kept of every peripheral that may have a connection event, and of every one that is connected, closing or being reconnected automatically | `EventsSafeIfHeld`, `CallbacksSafeIfHeld` |

The premise of each is what the counterexample of its run breaks. The two
theorems for finding 6 are about the callbacks of the module each is in: the
connection event in `CentralDiscovery`; the four that report connections, and
the one for ANCS authorization, in `CentralConnections`.

**Only model-checked.** Liveness under fairness (`AnsweredOrLost`, `OnceReturns`,
`CancelSettles`, `PowerOnReaches`, `DroppedScanStops`, `DroppedReclaimed`, `LockReturns`), and with
it everything about `ENABLED`, is outside what the prover can do and stays with
TLC. The safety half of each is proved: what is waited for is there, or on its
way (`WaitersBacked` for `AnsweredOrLost`, `NothingMissed` for `OnceReturns`,
`CancelsBacked` for `CancelSettles`, `PowerOnNotLost` for `PowerOnReaches`,
`ScansAttended` for `DroppedScanStops`, `DroppedNotForgotten` for
`DroppedReclaimed`, `SomeoneGoesOn` for `LockReturns`), so that what stays with TLC
is that fair steps lead there. Induction over data and recursive operators
would stay with TLC too, but the project uses none. What the violated properties
of section 6 say is shown by TLC's counterexamples.

## 6. What disagrees with the documentation

Each of these is a run TLC finds a counterexample for; `PROJECT.json` quotes the
lines.

1. **A write without response never returns.** `write_characteristic_value`
   awaits the callback that only writes with response have.
2. **A value update with no receiver left aborts.**
   `did_update_value_for_characteristic` borrows the map of channels mutably, to
   remove the channel, within the borrow that found it. Reading a
   characteristic once, and then being notified of it, is enough.
3. **A cancel call that is overrun reaches `unreachable!()`.** Its loop ends on
   the error for a lag. Seventeen disconnections of other peripherals between two
   polls are needed.
4. **An overtaken connect call undoes the call that overtook it.** It returns
   `Canceled`, and on the way its guard sees a peripheral that is connecting and
   cancels the attempt, which is the later call's. That call waits for good.
5. **`lock` from code on the same queue waits for itself**, and `==` and `hash()`
   of handles are calls of `lock`.
6. **A connection event of an unknown peripheral aborts.** The bridge unwraps the
   delegate of a peripheral that has none unless a `Peripheral` of it is alive. The
   callbacks for a connection, a failure to connect, both forms of a
   disconnection and ANCS authorization unwrap it in the same way
   (`central_manager.rs` of `corebluetooth`, lines 484, 500, 515, 534 and 563), and
   in `CentralConnections` they do; a connection whose caller lets go of its last
   `Peripheral` aborts the program as it ends.

## 7. Not modelled

- **Advertisement data, UUIDs, timestamps** (`advertisement_data.rs`, `util.rs` of
  `corebluetooth`): each converts one value from or to a Foundation type, with
  no state and nothing that depends on when or by whom it is called. A model of
  them would restate them; they want tests with values.
- **Getters** of peripherals, services, characteristics, descriptors and
  centrals: they read CoreBluetooth's objects. The one that does more,
  `Service::peripheral`, is modelled.
- **`btuuid.rs`**: no module declares the file, so that no crate contains it.
- **The manager's options, quality of service and restoration**: dictionaries and
  numbers handed on. `will_restore_state` is called only for a manager with a
  restore identifier, which `CentralManagerAsync` never gives.
- **L2CAP bytes and descriptors**: opening a channel is a request of
  `PeripheralRequests`. Who closes the descriptor that `L2capChannel::new` takes
  from the `NSStream`s is decided by Foundation, and nothing in the repository
  says how.
- **Wording** of errors (`Display`), and the conversions between error types that
  no callback makes.
- **Streams of disconnections, connection events and ANCS authorization** have
  no actions of their own: one receiver of any of them is a receiver of
  `EventStreams`, with the key its channel and the capacity 16. What is
  particular about disconnections, the cancel call that reads them, is in
  `CentralConnections`; about ANCS authorization, that its callback may abort,
  in `DidUpdateANCS` there; about connection events, the unwrap before they are
  sent, in `CentralDiscovery`.
- **What a power cycle does to connections and to requests in flight.**
  `CentralConnections` and `PeripheralRequests` have the power on throughout.
  Whether CoreBluetooth reports the disconnections, or drops them with the
  attempts, when the radio goes off is settled by nothing in the repository, and
  the code does nothing about it: `did_update_state` sends the state on. For
  requests it would be a `Disconnect` like another, which may lose any of them.
- **Hazards with no property** are listed with their reasons in `PROJECT.json`:
  most are facts about CoreBluetooth that the repository does not settle, or
  outcomes its documentation leaves open.
