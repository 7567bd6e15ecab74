-------------------------- MODULE CentralDiscovery --------------------------
(***************************************************************************)
(* How CentralManagerAsync comes by peripherals: the wait for the manager  *)
(* to power on; scans, whose discoveries go to the stream of the latest    *)
(* one; retrieval; connection events; the peripheral of a Service.         *)
(*                                                                         *)
(* A CBPeripheral holds its delegate weakly: the delegate, with the maps   *)
(* of pending requests in it, lives as long as a Peripheral made for it.   *)
(* Peripheral::init finds the living delegate, or makes one;               *)
(* Peripheral::new expects one.  The manager's own delegate, with the      *)
(* senders in it, lives as long as a CentralManager.  Every action is one  *)
(* block of the serial dispatch queue, or a step of CoreBluetooth.         *)
(***************************************************************************)
EXTENDS EventInbox

CONSTANTS
  Streams,     \* callers that scan once, each with the stream scan() returns
  Peripherals,
  Bridges,     \* identities of delegates: as many as may be alive at once
  None,        \* no sender; no delegate
  MaxUnread,   \* bound on the discoveries a stream holds unread
  MaxDue       \* bound on the state updates CoreBluetooth has still to report

ASSUME DiscoveryAssumption ==
  /\ None \notin Streams \union Bridges
  /\ Bridges # {}

(* PoweredOff stands for every CBManagerState in which one must wait. *)
ManagerStates == {"PoweredOn", "PoweredOff"}

VARIABLES
  manager,    \* the CentralManager: "none", "alive", "gone"
  power,      \* its state()
  due,        \* changes of it CoreBluetooth has still to report
  updates,    \* stream |-> states its caller, who waits for PoweredOn, has not read
  scanning,   \* is_scanning
  sender,     \* the stream whose sender is in `discoveries`, or None
  stream,     \* stream |-> "idle", "waiting", "panicked", "open", "ended", "dropped"
  buffer,     \* stream |-> its unread discoveries, each a Peripheral
  found,      \* a discovery on its way to the delegate: {} or one peripheral
  held,       \* the other Peripherals alive: pairs of a peripheral and a delegate
  services,   \* peripherals of which the caller holds a Service
  delegate,   \* peripheral |-> its delegate while alive, or None
  registered, \* register_for_connection_events was called
  panic       \* what unwrapped a delegate that is gone: "none", "event", "service"

states == <<manager, power, due, updates>>
scans == <<scanning, sender, stream, found>>
uses == <<services, registered, panic>>
vars == <<manager, power, due, updates, scanning, sender, stream, buffer, found,
          held, services, delegate, registered, panic>>

Init ==
  /\ manager = "none"
  /\ power = "PoweredOff"
  /\ due = 0
  /\ updates = [s \in Streams |-> EmptyInbox]
  /\ scanning = FALSE
  /\ sender = None
  /\ stream = [s \in Streams |-> "idle"]
  /\ buffer = [s \in Streams |-> <<>>]
  /\ found = {}
  /\ held = {}
  /\ services = {}
  /\ delegate = [p \in Peripherals |-> None]
  /\ registered = FALSE
  /\ panic = "none"

-----------------------------------------------------------------------------
(* Peripherals and their delegates.                                        *)

(* Every Peripheral alive, with the delegate it keeps alive. *)
Alive == held \union UNION {{buffer[s][i] : i \in DOMAIN buffer[s]} : s \in Streams}

(* A delegate not in use. *)
NewBridge(p) == CHOOSE b \in Bridges : <<p, b>> \notin Alive

(* Mutant of InitPeripheral: the delegate there is not looked for. *)
InitPeripheralAnew(p) == <<p, NewBridge(p)>>

(* Peripheral::init: the Peripheral made. *)
InitPeripheral(p) == <<p, IF delegate[p] # None THEN delegate[p] ELSE NewBridge(p)>>

(* After a step that has set the delegates to d: one with no Peripheral    *)
(* left is gone.                                                           *)
Keep(d) ==
  delegate' = [p \in Peripherals |-> IF <<p, d[p]>> \in Alive' THEN d[p] ELSE None]

(* setDelegate, of the Peripheral w. *)
Delegating(w) == [delegate EXCEPT ![w[1]] = w[2]]

(* retrieve_peripherals, retrieve_connected_peripherals. *)
Retrieve(p) ==
  /\ held' = held \union {InitPeripheral(p)}
  /\ UNCHANGED buffer
  /\ Keep(Delegating(InitPeripheral(p)))
  /\ UNCHANGED <<states, scans, uses>>

(* The caller's last clone of a Peripheral is dropped. *)
DropPeripheral ==
  \E w \in held :
    /\ held' = held \ {w}
    /\ UNCHANGED buffer
    /\ Keep(delegate)
    /\ UNCHANGED <<states, scans, uses>>

Register ==
  /\ registered' = TRUE
  /\ UNCHANGED <<states, scans, buffer, held, services, delegate, panic>>

(* Peripheral::new, called by `who`, unwraps the delegate of p.  The       *)
(* Peripheral made is kept or not.                                         *)
NewPeripheral(p, who) ==
  IF delegate[p] = None
    THEN panic' = who /\ UNCHANGED held
    ELSE held' \in {held, held \union {<<p, delegate[p]>>}} /\ UNCHANGED panic

(* connectionEventDidOccur, of a peripheral that matches, known to this    *)
(* program or not.                                                         *)
ConnectionEvent(p) ==
  /\ registered
  /\ NewPeripheral(p, "event")
  /\ UNCHANGED <<states, scans, buffer, services, delegate, registered>>

(* The caller keeps one of the services() of a Peripheral. *)
KeepService(p) ==
  /\ \E w \in held : w[1] = p
  /\ services' = services \union {p}
  /\ UNCHANGED <<states, scans, buffer, held, delegate, registered, panic>>

(* Service::peripheral(), where the CBService still has its CBPeripheral. *)
ServicePeripheral(p) ==
  /\ p \in services
  /\ NewPeripheral(p, "service")
  /\ UNCHANGED <<states, scans, buffer, services, delegate, registered>>

-----------------------------------------------------------------------------
(* Scans.                                                                  *)

(* Mutant of SetSender: only the first sender is stored. *)
SetSenderOnce(s) ==
  /\ sender' = IF sender = None THEN s ELSE sender
  /\ stream' = [stream EXCEPT ![s] = "open"]

(* discoveries(): the sender there is dropped, which ends its stream. *)
SetSender(s) ==
  /\ sender' = s
  /\ stream' = [r \in Streams |->
                  IF r = s THEN "open"
                  ELSE IF r = sender /\ stream[r] = "open" THEN "ended"
                  ELSE stream[r]]

(* scan(), which panics if a scan is on.  CoreBluetooth heeds it only when *)
(* powered on.                                                             *)
StartScan(s) ==
  /\ IF scanning
       THEN stream' = [stream EXCEPT ![s] = "panicked"] /\ UNCHANGED sender
       ELSE SetSender(s)
  /\ scanning' = (scanning \/ power = "PoweredOn")

(* A caller that scans without regard to the state. *)
Scan(s) ==
  /\ stream[s] = "idle"
  /\ StartScan(s)
  /\ UNCHANGED <<states, buffer, found, held, delegate, uses>>

(* stop_scan() of the CentralManager; it tells the delegate nothing. *)
StopScan ==
  /\ scanning
  /\ scanning' = FALSE
  /\ UNCHANGED <<states, sender, stream, buffer, found, held, delegate, uses>>

(* The next discovery of a stream is read, and its Peripheral kept or not. *)
ReadStream(s) ==
  /\ stream[s] \in {"open", "ended"}
  /\ buffer[s] # <<>>
  /\ buffer' = [buffer EXCEPT ![s] = Tail(@)]
  /\ held' \in {held, held \union {Head(buffer[s])}}
  /\ Keep(delegate)
  /\ UNCHANGED <<states, scans, uses>>

(* A stream is dropped, or the future of a caller that waits. *)
DropStream(s) ==
  /\ stream[s] \in {"waiting", "open", "ended"}
  /\ stream' = [stream EXCEPT ![s] = "dropped"]
  /\ buffer' = [buffer EXCEPT ![s] = <<>>]
  /\ updates' = [updates EXCEPT ![s] = EmptyInbox]
  /\ UNCHANGED held
  /\ Keep(delegate)
  /\ UNCHANGED <<manager, power, due, scanning, sender, found, uses>>

(* A peripheral that advertises is seen; its discovery may come after the  *)
(* scan has been stopped.                                                  *)
Advertise(p) ==
  /\ scanning
  /\ found = {}
  /\ sender # None => Len(buffer[sender]) < MaxUnread
  /\ found' = {p}
  /\ UNCHANGED <<states, scanning, sender, stream, buffer, held, delegate, uses>>

(* Mutant of Publish: take() and no set(). *)
PublishTaking(w) ==
  /\ IF sender # None /\ stream[sender] = "open"
       THEN buffer' = [buffer EXCEPT ![sender] = Append(@, w)] /\ UNCHANGED scanning
       ELSE UNCHANGED <<buffer, scanning>>
  /\ sender' = None

(* Mutant of Publish: a send that fails does not stop the scan. *)
PublishHeedless(w) ==
  /\ IF sender # None /\ stream[sender] = "open"
       THEN buffer' = [buffer EXCEPT ![sender] = Append(@, w)]
       ELSE UNCHANGED buffer
  /\ UNCHANGED <<sender, scanning>>

(* Mutant of Publish: what is sent is the peripheral, not a Peripheral. *)
PublishUnpaired(w) ==
  /\ IF sender # None /\ stream[sender] = "open"
       THEN buffer' = [buffer EXCEPT ![sender] = Append(@, w[1])] /\ UNCHANGED <<sender, scanning>>
       ELSE sender' = None /\ UNCHANGED <<buffer, scanning>>

(* did_discover: the discovery is sent; if the receiver is gone, the scan  *)
(* is stopped and the sender with it.                                      *)
Publish(w) ==
  \/ /\ sender = None
     /\ UNCHANGED <<buffer, sender, scanning>>
  \/ /\ sender # None
     /\ stream[sender] = "open"
     /\ buffer' = [buffer EXCEPT ![sender] = Append(@, w)]
     /\ UNCHANGED <<sender, scanning>>
  \/ /\ sender # None
     /\ stream[sender] = "dropped"
     /\ sender' = None
     /\ scanning' = FALSE
     /\ UNCHANGED buffer

DidDiscover(p) ==
  /\ found = {p}
  /\ found' = {}
  /\ UNCHANGED held
  /\ Publish(InitPeripheral(p))
  /\ Keep(Delegating(InitPeripheral(p)))
  /\ UNCHANGED <<states, stream, uses>>

-----------------------------------------------------------------------------
(* The manager and its state.                                              *)

(* background, main_thread: the block that makes the manager may subscribe *)
(* to its states without looking at them first.                            *)
Construct ==
  \E early \in SUBSET Streams :
    /\ manager = "none"
    /\ manager' = "alive"
    /\ stream' = [s \in Streams |-> IF s \in early THEN "waiting" ELSE stream[s]]
    /\ UNCHANGED <<power, due, updates, scanning, sender, found, buffer, held, delegate, uses>>

(* Mutant of ScanPowered: the state is not looked at first. *)
ScanPoweredUnchecked(s) ==
  /\ stream[s] = "idle"
  /\ stream' = [stream EXCEPT ![s] = "waiting"]
  /\ updates' = [updates EXCEPT ![s] = EmptyInbox]
  /\ UNCHANGED <<manager, power, due, scanning, sender, found, buffer, held, delegate, uses>>

(* A caller that scans if it finds the manager powered on, and subscribes  *)
(* to its states, in the same block, if it does not.                       *)
ScanPowered(s) ==
  /\ stream[s] = "idle"
  /\ IF power = "PoweredOn"
       THEN StartScan(s) /\ UNCHANGED updates
       ELSE /\ stream' = [stream EXCEPT ![s] = "waiting"]
            /\ updates' = [updates EXCEPT ![s] = EmptyInbox]
            /\ UNCHANGED <<scanning, sender>>
  /\ UNCHANGED <<manager, power, due, found, buffer, held, delegate, uses>>

(* It reads a state, and scans if that is PoweredOn. *)
ReadState(s) ==
  /\ stream[s] = "waiting"
  /\ HasNews(updates[s])
  /\ IF Head(updates[s].queue) = "PoweredOn"
       THEN /\ StartScan(s)
            /\ updates' = [updates EXCEPT ![s] = EmptyInbox]
       ELSE /\ updates' = [updates EXCEPT ![s] = Taken(@)]
            /\ UNCHANGED <<scanning, sender, stream>>
  /\ UNCHANGED <<manager, power, due, found, buffer, held, delegate, uses>>

(* Radio off or on, permission given or taken; a scan ends with the power. *)
ChangePower ==
  \E v \in ManagerStates \ {power} :
    /\ due < MaxDue
    /\ due' = due + 1
    /\ power' = v
    /\ scanning' = (scanning /\ v = "PoweredOn")
    /\ UNCHANGED <<manager, updates, sender, stream, found, buffer, held, delegate, uses>>

(* Mutant of StateCap: broadcast(16) in place of watch(). *)
StateCapOfBroadcast == 16

(* state_updated is a watch(). *)
StateCap == 1

(* did_update_state: the state there is by then goes to every receiver. *)
DidUpdateState ==
  /\ due > 0
  /\ due' = due - 1
  /\ updates' = [s \in Streams |->
                   IF stream[s] = "waiting" THEN Offer(updates[s], power, StateCap)
                   ELSE updates[s]]
  /\ UNCHANGED <<manager, power, scans, buffer, held, delegate, uses>>

(* The last CentralManager is dropped, and the delegate with it; a caller  *)
(* that waits has one.                                                     *)
DropManager ==
  /\ \A s \in Streams : stream[s] # "waiting"
  /\ manager' = "gone"
  /\ power' = "PoweredOff" /\ due' = 0
  /\ scanning' = FALSE /\ found' = {}
  /\ sender' = None
  /\ stream' = [s \in Streams |-> IF s = sender /\ stream[s] = "open" THEN "ended" ELSE stream[s]]
  /\ registered' = FALSE
  /\ UNCHANGED <<updates, buffer, held, services, delegate, panic>>

-----------------------------------------------------------------------------
(* What needs the manager, and what does not. *)
WithManager ==
  /\ manager = "alive"
  /\ \/ \E p \in Peripherals : Retrieve(p) \/ ConnectionEvent(p) \/ Advertise(p) \/ DidDiscover(p)
     \/ \E s \in Streams : Scan(s) \/ ScanPowered(s) \/ ReadState(s)
     \/ Register \/ StopScan \/ ChangePower \/ DidUpdateState \/ DropManager

Next ==
  /\ panic = "none"
  /\ \/ Construct \/ WithManager
     \/ \E p \in Peripherals : KeepService(p) \/ ServicePeripheral(p)
     \/ \E s \in Streams : ReadStream(s) \/ DropStream(s)
     \/ DropPeripheral

Spec == Init /\ [][Next]_vars

Running == manager = "alive" /\ panic = "none"

(* Something goes on advertising, CoreBluetooth reports every change of    *)
(* state, and the dispatch queue runs its blocks.                          *)
Fairness ==
  /\ WF_vars(Running /\ \E p \in Peripherals : Advertise(p))
  /\ WF_vars(Running /\ \E p \in Peripherals : DidDiscover(p))
  /\ WF_vars(Running /\ DidUpdateState)
  /\ \A s \in Streams : WF_vars(Running /\ ReadState(s))

FairSpec == Spec /\ Fairness

-----------------------------------------------------------------------------
(* Properties.                                                             *)

(* Every variable has its type. *)
TypeOK ==
  /\ manager \in {"none", "alive", "gone"}
  /\ power \in ManagerStates
  /\ due \in Nat
  /\ updates \in [Streams -> Inboxes(ManagerStates)]
  /\ {scanning, registered} \subseteq BOOLEAN
  /\ sender \in Streams \union {None}
  /\ stream \in [Streams -> {"idle", "waiting", "panicked", "open", "ended", "dropped"}]
  /\ buffer \in [Streams -> Seq(Peripherals \X Bridges)]
  /\ found \subseteq Peripherals
  /\ held \subseteq Peripherals \X Bridges
  /\ services \subseteq Peripherals
  /\ delegate \in [Peripherals -> Bridges \union {None}]
  /\ panic \in {"none", "event", "service"}

(* All Peripherals of one CBPeripheral share one delegate, and it is the   *)
(* one CoreBluetooth calls: a future made by way of any of them is found   *)
(* by the callback, however they were come by.                             *)
OneDelegate == \A w \in Alive : delegate[w[1]] = w[2]

(* An open stream is fed: its sender is the one in the cell.  So a stream  *)
(* ends only when another scan takes its place or the manager is dropped,  *)
(* and none outlives the manager without being ended.                      *)
OpenIsFed == \A s \in Streams : stream[s] = "open" => sender = s

(* A scan is never on without a sender, whose receiver can be seen to be   *)
(* gone: none goes on that nothing will stop.                              *)
ScanAttended == scanning => sender # None

(* No power-on slips by: a caller that waits with nothing to read while    *)
(* the manager is on is still to be told so.                               *)
NoLostPowerOn ==
  \A s \in Streams :
    stream[s] = "waiting" /\ ~HasNews(updates[s]) => power # "PoweredOn" \/ due > 0

(* A caller that waited for the manager to power on scans when it is on,   *)
(* not on the word of a state that has since been reported to be over.     *)
ScansWhenPowered ==
  [][\A s \in Streams :
       stream[s] = "waiting" /\ stream'[s] \in {"open", "panicked"} =>
         power = "PoweredOn" \/ due > 0]_vars

(* A caller that waits scans, or is dropped, if the manager comes to stay  *)
(* on, unless the program panics.                                          *)
PowerOnReaches ==
  \A s \in Streams :
    stream[s] = "waiting" /\ [](power = "PoweredOn") ~> stream[s] # "waiting" \/ panic # "none"

(* A scan whose stream is dropped is stopped, if anything is discovered,   *)
(* or its place taken.                                                     *)
DroppedScanStops ==
  \A s \in Streams :
    stream[s] = "dropped" /\ sender = s /\ scanning ~> ~scanning \/ sender # s \/ panic # "none"

(* A connection event never aborts the program: the documentation says     *)
(* that the delegate is called when one occurs.                            *)
EventNeverAborts == panic # "event"
=============================================================================
