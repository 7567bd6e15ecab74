------------------------- MODULE PeripheralRequests -------------------------
(***************************************************************************)
(* The one-shot requests of PeripheralAsync: discovery of included         *)
(* services, characteristics and descriptors, descriptor reads, writes,    *)
(* notification changes and L2CAP opens.                                   *)
(*                                                                         *)
(* Each async method hands its request to CoreBluetooth, leaves the sender *)
(* of a oneshot channel in a map of PeripheralAsyncDelegate keyed by the   *)
(* attribute (one cell for L2CAP), and awaits the receiver.  CoreBluetooth *)
(* later calls a delegate method, which takes the sender out of the map    *)
(* and sends the outcome.  Nothing ties a response to the request it       *)
(* answers but the key.                                                    *)
(*                                                                         *)
(* Every action is one block of the serial dispatch queue (a poll of a     *)
(* future, or a delegate callback), or a step of CoreBluetooth.            *)
(***************************************************************************)
EXTENDS Naturals, Sequences

CONSTANTS
  Calls,       \* calls of the async methods; each is one future, used once
  Attributes,  \* services, characteristics and descriptors requests are about
  Ops,         \* the operations the calls may perform
  NoCall,      \* no sender in the map; no value in a channel
  Canceled     \* what a receiver reads after its sender is dropped

(* Operation |-> field of PeripheralAsyncDelegate its sender waits in. *)
SenderMap ==
  [ discover_included_services |-> "included_service_discovery",
    discover_characteristics   |-> "characteristic_discovery",
    discover_descriptors       |-> "descriptor_discovery",
    read_descriptor_value      |-> "descriptor_value_updates",
    write_with_response        |-> "characteristic_writes",
    write_without_response     |-> "characteristic_writes",
    write_descriptor_value     |-> "descriptor_writes",
    set_notify                 |-> "notification_updates",
    open_l2cap_channel         |-> "l2cap_channel_opened" ]

DiscoveryOps ==
  {"discover_included_services", "discover_characteristics", "discover_descriptors"}

AccessOps ==
  { "read_descriptor_value", "write_with_response", "write_without_response",
    "write_descriptor_value", "set_notify" }

ASSUME RequestsAssumption ==
  /\ Ops \subseteq DOMAIN SenderMap
  /\ NoCall \notin Calls
  /\ Canceled \notin Calls
  /\ NoCall # Canceled

(* The place a sender waits in: an entry of a map, or the L2CAP cell, which *)
(* every PSM shares.                                                        *)
Slot(op, a) ==
  IF op = "open_l2cap_channel" THEN <<SenderMap[op]>> ELSE <<SenderMap[op], a>>

Slots == {Slot(op, a) : op \in Ops, a \in Attributes}

NoSlot == <<>>

VARIABLES
  phase,      \* call |-> "idle", "awaiting", "returned" or "dropped"
  slot,       \* call |-> the slot its sender was left in
  answer,     \* call |-> its channel: NoCall, Canceled, or the request answered
  pending,    \* slot |-> the call whose sender is there, or NoCall
  inFlight,   \* slot |-> requests CoreBluetooth has still to answer, oldest first
  lost,       \* calls whose request CoreBluetooth will never answer
  connected   \* whether the peripheral is connected

vars == <<phase, slot, answer, pending, inFlight, lost, connected>>

Init ==
  /\ phase = [c \in Calls |-> "idle"]
  /\ slot = [c \in Calls |-> NoSlot]
  /\ answer = [c \in Calls |-> NoCall]
  /\ pending = [s \in Slots |-> NoCall]
  /\ inFlight = [s \in Slots |-> <<>>]
  /\ lost = {}
  /\ connected = TRUE

-----------------------------------------------------------------------------
(* The async methods.                                                      *)

(* CoreBluetooth takes a request.  It answers it later, unless the link is *)
(* down or the write asked for no response.                                *)
Issue(c, op, s) ==
  IF connected /\ op # "write_without_response"
    THEN /\ inFlight' = [inFlight EXCEPT ![s] = Append(@, c)]
         /\ UNCHANGED lost
    ELSE /\ lost' = lost \union {c}
         /\ UNCHANGED inFlight

(* Mutant of Settle: the channel is a broadcast, not a oneshot. *)
SettleEveryWaiter(s, v) ==
  answer' = [d \in Calls |->
               IF slot[d] = s /\ phase[d] = "awaiting" THEN v ELSE answer[d]]

(* The value v reaches the receiver of the call whose sender waits in s,   *)
(* unless that receiver is gone.                                           *)
Settle(s, v) ==
  answer' = [d \in Calls |->
               IF d = pending[s] /\ phase[d] = "awaiting" THEN v ELSE answer[d]]

(* Mutant of Register: the overtaken sender is leaked, not dropped. *)
RegisterLeaking(c, s) ==
  /\ pending' = [pending EXCEPT ![s] = c]
  /\ UNCHANGED answer

(* Mutant of Register: entry().or_insert() keeps the sender that is there. *)
RegisterIfVacant(c, s) ==
  /\ pending' = [pending EXCEPT ![s] = IF @ = NoCall THEN c ELSE @]
  /\ UNCHANGED answer

(* insert() into the map, or replace() of the cell: the sender that was    *)
(* there is dropped, and its receiver reads Canceled.                      *)
Register(c, s) ==
  /\ Settle(s, Canceled)
  /\ pending' = [pending EXCEPT ![s] = c]

(* A method's first poll: request, register, await, in one block. *)
Request(c, op, a) ==
  LET s == Slot(op, a)
  IN  /\ phase[c] = "idle"
      /\ Issue(c, op, s)
      /\ Register(c, s)
      /\ phase' = [phase EXCEPT ![c] = "awaiting"]
      /\ slot' = [slot EXCEPT ![c] = s]
      /\ UNCHANGED connected

Discover(c) == \E op \in Ops \intersect DiscoveryOps, a \in Attributes : Request(c, op, a)

Access(c) == \E op \in Ops \intersect AccessOps, a \in Attributes : Request(c, op, a)

OpenL2cap(c) == \E op \in Ops \intersect {"open_l2cap_channel"}, a \in Attributes : Request(c, op, a)

(* `receiver.await?` resolves with what is in the channel. *)
Poll(c) ==
  /\ phase[c] = "awaiting"
  /\ answer[c] # NoCall
  /\ phase' = [phase EXCEPT ![c] = "returned"]
  /\ UNCHANGED <<slot, answer, pending, inFlight, lost, connected>>

(* The caller gives up on the future: a timeout, or a select!.  The sender *)
(* stays in the map and the request with CoreBluetooth.                    *)
DropCall(c) ==
  /\ phase[c] = "awaiting"
  /\ phase' = [phase EXCEPT ![c] = "dropped"]
  /\ UNCHANGED <<slot, answer, pending, inFlight, lost, connected>>

-----------------------------------------------------------------------------
(* CoreBluetooth and the delegate's callbacks.                             *)

(* Mutant of Complete: get() instead of remove(). *)
CompleteKeepingEntry(s, r) ==
  /\ Settle(s, r)
  /\ UNCHANGED pending

(* Mutant of Complete: the entry is marked as spent, not removed. *)
CompleteMarkingEntry(s, r) ==
  /\ Settle(s, r)
  /\ pending' = [pending EXCEPT ![s] = Canceled]

(* Mutant of Complete: the sender is dropped unused. *)
CompleteDroppingSender(s, r) ==
  /\ Settle(s, Canceled)
  /\ pending' = [pending EXCEPT ![s] = NoCall]

(* A delegate callback with the outcome of request r: whatever sender is   *)
(* in the slot is taken out and given it.                                  *)
Complete(s, r) ==
  /\ Settle(s, r)
  /\ pending' = [pending EXCEPT ![s] = NoCall]

(* The outcome of the oldest request of a slot, success or failure. *)
Respond(s) ==
  /\ inFlight[s] # <<>>
  /\ inFlight' = [inFlight EXCEPT ![s] = Tail(@)]
  /\ Complete(s, Head(inFlight[s]))
  /\ UNCHANGED <<phase, slot, lost, connected>>

Disconnect ==
  /\ connected
  /\ connected' = FALSE
  /\ UNCHANGED <<phase, slot, answer, pending, inFlight, lost>>

(* A disconnection may leave a request without a callback. *)
LoseRequest(s) ==
  /\ ~connected
  /\ inFlight[s] # <<>>
  /\ inFlight' = [inFlight EXCEPT ![s] = Tail(@)]
  /\ lost' = lost \union {Head(inFlight[s])}
  /\ UNCHANGED <<phase, slot, answer, pending, connected>>

Reconnect ==
  /\ ~connected
  /\ \A s \in Slots : inFlight[s] = <<>>
  /\ connected' = TRUE
  /\ UNCHANGED <<phase, slot, answer, pending, inFlight, lost>>

-----------------------------------------------------------------------------
Next ==
  \/ \E c \in Calls : Discover(c) \/ Access(c) \/ OpenL2cap(c)
  \/ \E c \in Calls : Poll(c) \/ DropCall(c)
  \/ \E s \in Slots : Respond(s) \/ LoseRequest(s)
  \/ Disconnect
  \/ Reconnect

Spec == Init /\ [][Next]_vars

(* The dispatch queue runs every block it is given, so a woken future is   *)
(* polled; CoreBluetooth deals with every request it holds.  Nothing obliges *)
(* anyone to make a call, to drop one, or to change the link.              *)
Fairness ==
  /\ \A c \in Calls : WF_vars(Poll(c))
  /\ \A s \in Slots : WF_vars(Respond(s) \/ LoseRequest(s))

FairSpec == Spec /\ Fairness

-----------------------------------------------------------------------------
(* Properties.                                                             *)

Phases == {"idle", "awaiting", "returned", "dropped"}

(* Every variable has its type. *)
TypeOK ==
  /\ phase \in [Calls -> Phases]
  /\ slot \in [Calls -> Slots \union {NoSlot}]
  /\ answer \in [Calls -> Calls \union {NoCall, Canceled}]
  /\ pending \in [Slots -> Calls \union {NoCall}]
  /\ inFlight \in [Slots -> Seq(Calls)]
  /\ lost \subseteq Calls
  /\ connected \in BOOLEAN

(* No waiter is forgotten: a future that still awaits an empty channel has *)
(* its sender in the map, where a callback finds it, whatever calls on the *)
(* same key overtook it.                                                   *)
NoOrphanWaiter ==
  \A c \in Calls :
    phase[c] = "awaiting" /\ answer[c] = NoCall => pending[slot[c]] = c

(* The sender in a slot is never left without a response to come: its own  *)
(* request is the last one CoreBluetooth holds for the slot, unless that   *)
(* request will never be answered.                                         *)
WaiterBacked ==
  \A s \in Slots :
    pending[s] # NoCall /\ pending[s] \notin lost =>
      /\ inFlight[s] # <<>>
      /\ inFlight[s][Len(inFlight[s])] = pending[s]

(* Call g no longer waits for its own response: its future was dropped, or *)
(* was superseded or given the response to an earlier request.             *)
Abandoned(g) == phase[g] = "dropped" \/ answer[g] \notin {g, NoCall}

(* A call is given another call's outcome only on its own key, only after  *)
(* that other call was abandoned, and never one that a third was given:    *)
(* callers who await each call on a key before making the next always read *)
(* their own outcome.                                                      *)
ForeignAnswerHasCause ==
  \A c, g \in Calls :
    answer[c] = g /\ g # c =>
      /\ slot[g] = slot[c] /\ Abandoned(g)
      /\ \A d \in Calls \ {c} : answer[d] # g

(* The methods keep the promise of OneShotCalls to their callers: a call   *)
(* ends the wait of the call before it on its key, and of no other, and a  *)
(* callback that finds a sender ends the wait of the last.                 *)
OneShot == INSTANCE OneShotCalls WITH
             Keys <- Slots, Outcomes <- Calls, Unset <- NoCall, NoKey <- NoSlot,
             key <- slot, outcome <- answer

OneShotSpec == OneShot!Spec

(* Every call resolves, or is dropped, or its request is one CoreBluetooth *)
(* never answers.                                                          *)
AnsweredOrLost ==
  \A c \in Calls :
    phase[c] = "awaiting" ~> phase[c] # "awaiting" \/ c \in lost

(* A write returns to its caller, as the documentation of                  *)
(* write_characteristic_value promises for both write types.               *)
WriteReturns ==
  \A c \in Calls : phase[c] = "awaiting" ~> phase[c] # "awaiting"
=============================================================================
