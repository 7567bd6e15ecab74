------------------------- MODULE PeripheralUpdates -------------------------
(***************************************************************************)
(* What PeripheralAsync broadcasts: name, service, RSSI and ready-to-send  *)
(* events, each over a channel of the delegate's own, and the values of a  *)
(* characteristic, over a channel made when somebody first asks for them.  *)
(*                                                                         *)
(* A stream method hands its receiver to the caller.  A once method        *)
(* (discover_services, read_rssi, read_characteristic_value,               *)
(* ready_to_send_write_without_response) takes one event and drops its     *)
(* receiver.  Every action is one block of the serial dispatch queue, or a *)
(* step of CoreBluetooth.  The events of a channel are numbered.           *)
(*                                                                         *)
(* The senders go with the delegate, when its last Peripheral is dropped.  *)
(* A once method borrows one; a stream does not, and ends when what is     *)
(* left in it has been read.                                               *)
(***************************************************************************)
EXTENDS EventInbox, FiniteSets

CONSTANTS
  Receivers,        \* receivers, and the calls that make them; each used once
  Characteristics,  \* characteristics with a broadcast channel of their values
  OwnChannels,      \* the delegate's own channels in use
  ValueCap,         \* capacity of a broadcast(); 16 in the code
  NoChannel,        \* not open on any channel
  MaxEvents         \* bound on the unsolicited events of a channel

(* Channel of the delegate |-> capacity: watch() holds one event. *)
OwnCap ==
  [ name_updates |-> 1, services_changed |-> ValueCap, rssi_updates |-> 1,
    service_discovery |-> 1, ready_to_send |-> 1 ]

Channels == OwnChannels \union Characteristics

Cap == [k \in Channels |-> IF k \in Characteristics THEN ValueCap ELSE OwnCap[k]]

Streamed == Channels \intersect ({"name_updates", "services_changed"} \union Characteristics)

(* Channels whose events answer requests of the once methods. *)
Asked == Channels \intersect ({"rssi_updates", "service_discovery"} \union Characteristics)

ASSUME UpdatesAssumption ==
  /\ OwnChannels \subseteq DOMAIN OwnCap
  /\ ValueCap \in Nat \ {0}
  /\ NoChannel \notin Channels
  /\ Characteristics \intersect DOMAIN OwnCap = {}
  /\ IsFiniteSet(Receivers)

VARIABLES
  delegated,  \* the delegate is alive
  phase,      \* receiver |-> "idle", "streaming", "awaiting", "returned", "ended", "dropped"
  on,         \* receiver |-> the channel it is open on, or NoChannel
  inbox,      \* receiver |-> what it has not consumed
  next,       \* receiver |-> the first event neither taken nor reported lost
  result,     \* receiver |-> what its once method took: "none", "event" or "lagged"
  published,  \* channel |-> events so far
  entry,      \* characteristics with a sender in characteristic_value_updates
  owed,       \* channel |-> answers CoreBluetooth has still to give
  lost,       \* channels an event of which CoreBluetooth owed, and will never give
  canSend,    \* canSendWriteWithoutResponse
  readyDue,   \* CoreBluetooth has still to say that it became so
  aborted     \* a delegate callback panicked, into Objective-C frames

receivers == <<phase, on, inbox, next, result>>
requests == <<owed, lost>>
sending == <<delegated, canSend, readyDue>>
vars == <<delegated, phase, on, inbox, next, result, published, entry, owed, lost, canSend, readyDue, aborted>>

Init ==
  /\ delegated = TRUE
  /\ phase = [r \in Receivers |-> "idle"]
  /\ on = [r \in Receivers |-> NoChannel]
  /\ inbox = [r \in Receivers |-> EmptyInbox]
  /\ next = [r \in Receivers |-> 1]
  /\ result = [r \in Receivers |-> "none"]
  /\ published = [k \in Channels |-> 0]
  /\ entry = {}
  /\ owed = [k \in Asked |-> 0]
  /\ lost = {}
  /\ canSend \in BOOLEAN
  /\ readyDue = FALSE
  /\ aborted = FALSE

-----------------------------------------------------------------------------
(* Receivers.                                                              *)

Open(r, k) ==
  /\ on' = [on EXCEPT ![r] = k]
  /\ inbox' = [inbox EXCEPT ![r] = EmptyInbox]
  /\ next' = [next EXCEPT ![r] = published[k] + 1]

Close(r) ==
  /\ on' = [on EXCEPT ![r] = NoChannel]
  /\ inbox' = [inbox EXCEPT ![r] = EmptyInbox]

(* Mutant of NewReceiver: the channel made is not put into the map. *)
NewReceiverUnregistered(r, k) == Open(r, k) /\ UNCHANGED entry

(* Mutant of NewReceiver: a new channel takes the place of the old one. *)
NewReceiverReplacing(r, k) ==
  /\ on' = [d \in Receivers |-> IF d = r THEN k ELSE IF on[d] = k THEN NoChannel ELSE on[d]]
  /\ inbox' = [d \in Receivers |-> IF d = r \/ on[d] = k THEN EmptyInbox ELSE inbox[d]]
  /\ next' = [next EXCEPT ![r] = published[k] + 1]
  /\ entry' = entry \union ({k} \intersect Characteristics)

(* new_receiver(); a characteristic without a channel is given one. *)
NewReceiver(r, k) ==
  /\ Open(r, k)
  /\ entry' = entry \union ({k} \intersect Characteristics)

(* name_changed, services_changed, characteristic_value_updates. *)
OpenStream(r) ==
  \E k \in Streamed :
    /\ phase[r] = "idle"
    /\ NewReceiver(r, k)
    /\ phase' = [phase EXCEPT ![r] = "streaming"]
    /\ UNCHANGED <<result, published, requests, sending, aborted>>

(* First poll of discover_services, read_rssi, read_characteristic_value:  *)
(* the request is made, then the receiver.                                 *)
AskOnce(r) ==
  \E k \in Asked :
    /\ phase[r] = "idle"
    /\ owed' = [owed EXCEPT ![k] = @ + 1]
    /\ NewReceiver(r, k)
    /\ phase' = [phase EXCEPT ![r] = "awaiting"]
    /\ UNCHANGED <<result, published, lost, sending, aborted>>

(* Mutant of AwaitReady: the flag is not looked at first. *)
AwaitReadyUnchecked(r) ==
  /\ "ready_to_send" \in OwnChannels
  /\ phase[r] = "idle"
  /\ phase' = [phase EXCEPT ![r] = "awaiting"]
  /\ Open(r, "ready_to_send")
  /\ UNCHANGED <<result, published, entry, requests, sending, aborted>>

(* First poll of ready_to_send_write_without_response. *)
AwaitReady(r) ==
  /\ "ready_to_send" \in OwnChannels
  /\ phase[r] = "idle"
  /\ IF canSend
       THEN /\ phase' = [phase EXCEPT ![r] = "returned"]
            /\ UNCHANGED <<on, inbox, next>>
       ELSE /\ phase' = [phase EXCEPT ![r] = "awaiting"]
            /\ Open(r, "ready_to_send")
  /\ UNCHANGED <<result, published, entry, requests, sending, aborted>>

(* `recv().await?` of a once method: the first event, or the error for a   *)
(* lag; the receiver goes out of scope.                                    *)
FinishOnce(r) ==
  /\ phase[r] = "awaiting"
  /\ HasNews(inbox[r])
  /\ result' = [result EXCEPT ![r] =
                  IF inbox[r].lagged THEN "lagged" ELSE "event"]
  /\ phase' = [phase EXCEPT ![r] = "returned"]
  /\ Close(r)
  /\ UNCHANGED <<next, published, entry, requests, sending, aborted>>

(* A caller's recv() on its stream. *)
StreamRecv(r) ==
  /\ phase[r] = "streaming"
  /\ HasNews(inbox[r])
  /\ IF inbox[r].lagged
       THEN /\ inbox' = [inbox EXCEPT ![r] = Caught(@)]
            /\ next' = [next EXCEPT ![r] = Head(inbox[r].queue)]
       ELSE /\ inbox' = [inbox EXCEPT ![r] = Taken(@)]
            /\ next' = [next EXCEPT ![r] = Head(inbox[r].queue) + 1]
  /\ UNCHANGED <<phase, on, result, published, entry, requests, sending, aborted>>

(* A caller's Stream::next() on it. *)
StreamNext(r) ==
  /\ phase[r] = "streaming"
  /\ HasNews(inbox[r])
  /\ inbox' = [inbox EXCEPT ![r] = Taken(@)]
  /\ next' = [next EXCEPT ![r] = Head(inbox[r].queue) + 1]
  /\ UNCHANGED <<phase, on, result, published, entry, requests, sending, aborted>>

(* The stream is dropped, or the future of a once method is. *)
DropReceiver(r) ==
  /\ phase[r] \in {"streaming", "awaiting"}
  /\ phase' = [phase EXCEPT ![r] = "dropped"]
  /\ Close(r)
  /\ UNCHANGED <<next, result, published, entry, requests, sending, aborted>>

(* A stream whose sender is gone ends when nothing is left in it. *)
StreamEnd(r) ==
  /\ ~delegated
  /\ phase[r] = "streaming"
  /\ ~HasNews(inbox[r])
  /\ phase' = [phase EXCEPT ![r] = "ended"]
  /\ Close(r)
  /\ UNCHANGED <<next, result, published, entry, requests, sending, aborted>>

(* The last Peripheral is dropped, and the delegate with its senders.      *)
DropDelegate ==
  /\ \A r \in Receivers : phase[r] # "awaiting"
  /\ delegated' = FALSE
  /\ entry' = {}
  /\ owed' = [k \in Asked |-> 0]
  /\ readyDue' = FALSE
  /\ UNCHANGED <<receivers, published, lost, canSend, aborted>>

-----------------------------------------------------------------------------
(* Delegate callbacks, and CoreBluetooth.                                  *)

(* try_broadcast() on channel k. *)
Publish(k) ==
  /\ published' = [published EXCEPT ![k] = @ + 1]
  /\ inbox' = [r \in Receivers |->
                 IF on[r] = k THEN Offer(inbox[r], published[k] + 1, Cap[k]) ELSE inbox[r]]

(* did_update_name, did_modify_services. *)
Announce(k) ==
  /\ k \in {"name_updates", "services_changed"}
  /\ published[k] < MaxEvents
  /\ Publish(k)
  /\ UNCHANGED <<phase, on, next, result, entry, requests, sending, aborted>>

(* Mutant of Answer: one callback stands for every request made. *)
AnswerForAll(k) ==
  /\ k \in {"rssi_updates", "service_discovery"}
  /\ owed[k] > 0
  /\ owed' = [owed EXCEPT ![k] = 1 - @]
  /\ Publish(k)
  /\ UNCHANGED <<phase, on, next, result, entry, lost, sending, aborted>>

(* did_discover_services, did_read_rssi. *)
Answer(k) ==
  /\ k \in {"rssi_updates", "service_discovery"}
  /\ owed[k] > 0
  /\ owed' = [owed EXCEPT ![k] = @ - 1]
  /\ Publish(k)
  /\ UNCHANGED <<phase, on, next, result, entry, lost, sending, aborted>>

ReceiverCount(k) == Cardinality({r \in Receivers : on[r] = k})

(* did_update_value_for_characteristic.  A channel nobody listens to is to *)
(* be removed, by borrow_mut() of the map while the borrow() that found it *)
(* is alive, which panics.                                                 *)
UpdateValue(ch) ==
  \/ /\ ch \notin entry
     /\ published' = [published EXCEPT ![ch] = @ + 1]
     /\ UNCHANGED <<inbox, aborted>>
  \/ /\ ch \in entry
     /\ ReceiverCount(ch) = 0
     /\ aborted' = TRUE
     /\ UNCHANGED <<published, inbox>>
  \/ /\ ch \in entry
     /\ ReceiverCount(ch) > 0
     /\ Publish(ch)
     /\ UNCHANGED aborted

(* The outcome of a read. *)
AnswerRead(ch) ==
  /\ owed[ch] > 0
  /\ owed' = [owed EXCEPT ![ch] = @ - 1]
  /\ UpdateValue(ch)
  /\ UNCHANGED <<phase, on, next, result, entry, lost, sending>>

(* A notification or indication. *)
Notification(ch) ==
  /\ published[ch] < MaxEvents
  /\ UpdateValue(ch)
  /\ UNCHANGED <<phase, on, next, result, entry, requests, sending>>

(* A disconnection may leave a request without a callback. *)
LoseAnswer(k) ==
  /\ owed[k] > 0
  /\ owed' = [owed EXCEPT ![k] = @ - 1]
  /\ lost' = lost \union {k}
  /\ UNCHANGED <<receivers, published, entry, sending, aborted>>

(* Writes without response fill CoreBluetooth's buffer, and leave it. *)
BufferFills ==
  /\ canSend
  /\ "ready_to_send" \in OwnChannels /\ published["ready_to_send"] < MaxEvents
  /\ canSend' = FALSE
  /\ UNCHANGED <<receivers, published, entry, requests, delegated, readyDue, aborted>>

BufferDrains ==
  /\ ~canSend
  /\ canSend' = TRUE
  /\ readyDue' = TRUE
  /\ UNCHANGED <<receivers, published, entry, requests, delegated, aborted>>

(* is_ready_to_send_write_without_response. *)
BecomeReady ==
  /\ "ready_to_send" \in OwnChannels
  /\ readyDue
  /\ readyDue' = FALSE
  /\ Publish("ready_to_send")
  /\ UNCHANGED <<phase, on, next, result, entry, requests, delegated, canSend, aborted>>

(* A disconnection while the buffer is full, or before CoreBluetooth has   *)
(* said that it drained: the news is not given.                            *)
LoseReady ==
  /\ "ready_to_send" \in OwnChannels
  /\ ~canSend \/ readyDue
  /\ readyDue' = FALSE
  /\ lost' = lost \union {"ready_to_send"}
  /\ UNCHANGED <<receivers, published, entry, owed, delegated, canSend, aborted>>

-----------------------------------------------------------------------------
(* What needs the delegate: calls, and callbacks. *)
WithDelegate ==
  /\ delegated
  /\ \/ \E r \in Receivers : OpenStream(r) \/ AskOnce(r) \/ AwaitReady(r) \/ FinishOnce(r)
     \/ \E k \in OwnChannels : Announce(k) \/ Answer(k)
     \/ \E ch \in Characteristics : AnswerRead(ch) \/ Notification(ch)
     \/ \E k \in Asked : LoseAnswer(k)
     \/ BufferFills \/ BufferDrains \/ BecomeReady \/ LoseReady \/ DropDelegate

Next ==
  /\ ~aborted
  /\ \/ WithDelegate
     \/ \E r \in Receivers : StreamRecv(r) \/ StreamNext(r) \/ StreamEnd(r) \/ DropReceiver(r)

Spec == Init /\ [][Next]_vars

(* The dispatch queue runs every block it is given; CoreBluetooth gives an *)
(* answer, and its buffer drains and it says so, or that is lost with the  *)
(* connection.  No stream need be read, and no call made.                  *)
Running == delegated /\ ~aborted

Fairness ==
  /\ \A r \in Receivers : WF_vars(Running /\ FinishOnce(r))
  /\ \A k \in Asked \ Characteristics : WF_vars(Running /\ (Answer(k) \/ LoseAnswer(k)))
  /\ \A ch \in Characteristics : WF_vars(Running /\ (AnswerRead(ch) \/ LoseAnswer(ch)))
  /\ WF_vars(Running /\ (BufferDrains \/ LoseReady))
  /\ WF_vars(Running /\ (BecomeReady \/ LoseReady))

FairSpec == Spec /\ Fairness

-----------------------------------------------------------------------------
(* Properties.                                                             *)

(* Every variable has its type. *)
TypeOK ==
  /\ phase \in [Receivers -> {"idle", "streaming", "awaiting", "returned", "ended", "dropped"}]
  /\ on \in [Receivers -> Channels \union {NoChannel}]
  /\ inbox \in [Receivers -> Inboxes(Nat)]
  /\ next \in [Receivers -> Nat]
  /\ result \in [Receivers -> {"none", "event", "lagged"}]
  /\ published \in [Channels -> Nat]
  /\ entry \subseteq Characteristics
  /\ owed \in [Asked -> Nat]
  /\ lost \subseteq Asked \union ({"ready_to_send"} \intersect OwnChannels)
  /\ {delegated, canSend, readyDue, aborted} \subseteq BOOLEAN

(* A once call that waits with nothing to read is owed an answer on its    *)
(* channel, unless CoreBluetooth lost one: nobody else can use it up.      *)
OnceBacked ==
  \A r \in Receivers :
    phase[r] = "awaiting" /\ ~HasNews(inbox[r]) /\ on[r] \in Asked =>
      owed[on[r]] > 0 \/ on[r] \in lost

(* Checking canSendWriteWithoutResponse and then subscribing loses no wake *)
(* up: a call that waits with nothing to read while writes may be sent is  *)
(* still to be told so, unless that was lost with the connection.          *)
NoLostReady ==
  \A r \in Receivers :
    phase[r] = "awaiting" /\ ~HasNews(inbox[r]) /\ on[r] = "ready_to_send" =>
      ~canSend \/ readyDue \/ "ready_to_send" \in lost

(* A once call fails with Lagged only if more events came between its      *)
(* first poll and its last than its channel holds.                         *)
LaggedOnlyIfOverrun ==
  [][\A r \in Receivers :
       result'[r] = "lagged" /\ result[r] # "lagged" =>
         published[on[r]] + 1 - next[r] > Cap[on[r]]]_vars

(* A stream does not end before its time: whatever was published until the *)
(* delegate was gone was given to its reader, or reported lost.            *)
EndsComplete ==
  [][\A r \in Receivers :
       phase'[r] = "ended" /\ phase[r] # "ended" => next[r] = published[on[r]] + 1]_vars

(* The delegate's channels and the map of value channels keep the promise  *)
(* of EventStreams: a subscriber is sent every event of its channel.       *)
Streams == INSTANCE EventStreams WITH Keys <- Channels, NoKey <- NoChannel, EventNumbers <- Nat

StreamsSpec == Streams!Spec

(* A once call returns, or is dropped, unless what it awaits was lost with *)
(* the connection or the program aborted.                                  *)
OnceReturns ==
  \A r \in Receivers :
    phase[r] = "awaiting" ~> phase[r] # "awaiting" \/ on[r] \in lost \/ aborted

(* A value update never aborts the program, whoever listens: the           *)
(* documentation says that values may be updated as the result of reads or *)
(* of notifications at any time.                                           *)
NeverAborts == ~aborted
=============================================================================
