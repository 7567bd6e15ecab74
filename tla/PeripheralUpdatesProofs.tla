----------------------- MODULE PeripheralUpdatesProofs ----------------------
(***************************************************************************)
(* The broadcasts of a peripheral implement EventStreams, for any          *)
(* receivers, characteristics and capacities, and the once methods miss    *)
(* nothing.                                                                *)
(***************************************************************************)
EXTENDS PeripheralUpdates, EventInboxProofs, FiniteSetTheorems

Phases == {"idle", "streaming", "awaiting", "returned", "ended", "dropped"}

(* A receiver is open on a channel while its stream or its call is alive,  *)
(* and one that is open on a characteristic finds it in the map, while     *)
(* there is a map.                                                         *)
OpenInMap ==
  \A r \in Receivers :
    /\ phase[r] \in {"streaming", "awaiting"} => on[r] \in Channels
    /\ phase[r] \notin {"streaming", "awaiting"} => on[r] = NoChannel
    /\ delegated /\ on[r] \in Characteristics => on[r] \in entry

IndInv ==
  /\ TypeOK
  /\ OpenInMap
  /\ OnceBacked
  /\ NoLostReady

(* Capacities are positive. *)
LEMMA CapType == Cap \in [Channels -> Nat \ {0}]
<1> SUFFICES ASSUME NEW k \in Channels
             PROVE  Cap[k] \in Nat \ {0}
  BY DEF Cap
<1>1. CASE k \in Characteristics
  BY <1>1, UpdatesAssumption DEF Cap
<1>2. CASE k \notin Characteristics
  <2>1. k \in {"name_updates", "services_changed", "rssi_updates", "service_discovery", "ready_to_send"}
    BY <1>2, UpdatesAssumption DEF Channels, OwnCap
  <2> QED
    BY <1>2, <2>1, UpdatesAssumption DEF Cap, OwnCap
<1> QED
  BY <1>1, <1>2

(* The ready channel is the delegate's own, and answers no request. *)
LEMMA ReadyChannel ==
  /\ "ready_to_send" \notin Characteristics
  /\ "ready_to_send" \notin Asked
<1>1. "ready_to_send" \in DOMAIN OwnCap
  BY DEF OwnCap
<1> QED
  BY <1>1, UpdatesAssumption DEF Asked

(* Streams and requests are about channels there are. *)
LEMMA StreamedAndAsked == Streamed \subseteq Channels /\ Asked \subseteq Channels
BY DEF Streamed, Asked

-----------------------------------------------------------------------------
(* The abstract actions the steps map to.                                  *)

(* Opening a receiver that is not open subscribes it. *)
LEMMA OpenSubscribes ==
  ASSUME NEW r \in Receivers, NEW k \in Channels, on[r] = NoChannel, Open(r, k), UNCHANGED published
  PROVE  Streams!Next
BY DEF Open, Streams!Next, Streams!Subscribe, Streams!EmptyInbox, EmptyInbox

(* Closing one that is open ends its subscription. *)
LEMMA CloseUnsubscribes ==
  ASSUME NEW r \in Receivers, on[r] # NoChannel, Close(r), UNCHANGED <<next, published>>
  PROVE  Streams!Next
BY DEF Close, Streams!Next, Streams!Unsubscribe, Streams!EmptyInbox, EmptyInbox

(* try_broadcast publishes. *)
LEMMA PublishPublishes ==
  ASSUME NEW k \in Channels, published[k] \in Nat, Publish(k), UNCHANGED <<on, next>>
  PROVE  Streams!Next
<1>1. \A b, e, cap : Streams!Offer(b, e, cap) = Offer(b, e, cap)
  BY DEF Streams!Offer, Offer
<1>2. Streams!Publish(k)
  BY <1>1 DEF Publish, Streams!Publish
<1> QED
  BY <1>2 DEF Streams!Next

(* An update of a value nobody can hear of is published to nobody. *)
LEMMA UnheardPublishes ==
  ASSUME TypeOK, OpenInMap, delegated, NEW ch \in Characteristics, ch \notin entry,
         published' = [published EXCEPT ![ch] = @ + 1], UNCHANGED <<on, inbox, next>>
  PROVE  Streams!Next
<1>1. ch \in Channels /\ published[ch] \in Nat
  BY DEF Channels, TypeOK
<1>2. \A r \in Receivers : on[r] # ch
  BY DEF OpenInMap
<1>3. inbox' = [r \in Receivers |->
                  IF on[r] = ch THEN Streams!Offer(inbox[r], published[ch] + 1, Cap[ch]) ELSE inbox[r]]
  BY <1>2 DEF TypeOK
<1>4. Streams!Publish(ch)
  BY <1>1, <1>3 DEF Streams!Publish
<1> QED
  BY <1>1, <1>4 DEF Streams!Next

-----------------------------------------------------------------------------
(* Events.                                                                 *)

(* An event on a channel is news to its receivers, and nothing to others. *)
LEMMA PublishReaches ==
  ASSUME TypeOK, NEW k \in Channels, Publish(k)
  PROVE  /\ published' \in [Channels -> Nat]
         /\ inbox' \in [Receivers -> Inboxes(Nat)]
         /\ \A r \in Receivers : IF on[r] = k THEN HasNews(inbox'[r]) ELSE inbox'[r] = inbox[r]
<1>1. published[k] \in Nat /\ published[k] + 1 \in Nat /\ Cap[k] \in Nat \ {0}
  BY CapType DEF TypeOK
<1>2. published' \in [Channels -> Nat]
  BY <1>1 DEF Publish, TypeOK
<1>3. ASSUME NEW r \in Receivers
      PROVE  /\ inbox[r] \in Inboxes(Nat)
             /\ Offer(inbox[r], published[k] + 1, Cap[k]) \in Inboxes(Nat)
             /\ HasNews(Offer(inbox[r], published[k] + 1, Cap[k]))
  BY <1>1, OfferAdds, OfferIsNews DEF TypeOK
<1>4. inbox' \in [Receivers -> Inboxes(Nat)]
  BY <1>3 DEF Publish
<1>5. \A r \in Receivers : IF on[r] = k THEN HasNews(inbox'[r]) ELSE inbox'[r] = inbox[r]
  BY <1>3 DEF Publish
<1> QED
  BY <1>2, <1>4, <1>5

(* A receiver count of zero means what it says. *)
LEMMA NobodyListens ==
  ASSUME NEW k, ReceiverCount(k) = 0
  PROVE  \A r \in Receivers : on[r] # k
<1> DEFINE S == {r \in Receivers : on[r] = k}
<1>1. IsFiniteSet(S)
  BY FS_Subset, UpdatesAssumption
<1>2. S = {}
  BY <1>1, FS_EmptySet DEF ReceiverCount
<1> QED
  BY <1>2

(* So is an update of a value, which has receivers only in the last case. *)
LEMMA UpdateReaches ==
  ASSUME TypeOK, OpenInMap, delegated, NEW ch \in Characteristics, UpdateValue(ch)
  PROVE  /\ published' \in [Channels -> Nat]
         /\ inbox' \in [Receivers -> Inboxes(Nat)]
         /\ aborted' \in BOOLEAN
         /\ \A r \in Receivers : IF on[r] = ch THEN HasNews(inbox'[r]) ELSE inbox'[r] = inbox[r]
<1>1. ch \in Channels /\ published[ch] + 1 \in Nat
  BY DEF Channels, TypeOK
<1>2. aborted \in BOOLEAN
  BY DEF TypeOK
<1>3. CASE ch \notin entry
  <2>1. \A r \in Receivers : on[r] # ch
    BY <1>3 DEF OpenInMap
  <2>2. published' = [published EXCEPT ![ch] = @ + 1] /\ inbox' = inbox /\ aborted' = aborted
    BY <1>3 DEF UpdateValue
  <2> QED
    BY <1>1, <1>2, <2>1, <2>2 DEF TypeOK
<1>4. CASE ReceiverCount(ch) = 0 /\ aborted' = TRUE /\ UNCHANGED <<published, inbox>>
  <2>1. \A r \in Receivers : on[r] # ch
    BY <1>4, NobodyListens
  <2> QED
    BY <1>4, <2>1 DEF TypeOK
<1>5. CASE Publish(ch) /\ aborted' = aborted
  BY <1>1, <1>2, <1>5, PublishReaches
<1> QED
  BY <1>3, <1>4, <1>5 DEF UpdateValue

-----------------------------------------------------------------------------
(* What the steps preserve.                                                *)

(* Initially nobody listens. *)
LEMMA InitInv == Init => IndInv
<1> SUFFICES ASSUME Init PROVE IndInv
  OBVIOUS
<1>1. TypeOK
  BY EmptyIsInbox DEF Init, TypeOK
<1>2. OpenInMap
  BY UpdatesAssumption DEF Init, OpenInMap, Channels
<1>3. OnceBacked /\ NoLostReady
  BY DEF Init, OnceBacked, NoLostReady
<1> QED
  BY <1>1, <1>2, <1>3 DEF IndInv

(* A stream opened waits for no answer. *)
LEMMA OpenStreamStep ==
  ASSUME IndInv, NEW r \in Receivers, OpenStream(r)
  PROVE  IndInv'
<1>1. PICK k \in Streamed :
        /\ phase[r] = "idle"
        /\ NewReceiver(r, k)
        /\ phase' = [phase EXCEPT ![r] = "streaming"]
        /\ UNCHANGED <<result, published, requests, sending, aborted>>
  BY DEF OpenStream
<1> USE <1>1 DEF IndInv, NewReceiver, Open, requests, sending
<1>2. k \in Channels /\ published[k] + 1 \in Nat
  BY StreamedAndAsked DEF TypeOK
<1>3. TypeOK'
  BY <1>2, EmptyIsInbox DEF TypeOK
<1>4. OpenInMap'
  BY <1>2 DEF TypeOK, OpenInMap
<1>5. OnceBacked' /\ NoLostReady'
  BY DEF TypeOK, OnceBacked, NoLostReady
<1> QED
  BY <1>3, <1>4, <1>5

(* A call that asks is owed an answer. *)
LEMMA AskOnceStep ==
  ASSUME IndInv, NEW r \in Receivers, AskOnce(r)
  PROVE  IndInv'
<1>1. PICK k \in Asked :
        /\ phase[r] = "idle"
        /\ owed' = [owed EXCEPT ![k] = @ + 1]
        /\ NewReceiver(r, k)
        /\ phase' = [phase EXCEPT ![r] = "awaiting"]
        /\ UNCHANGED <<result, published, lost, sending, aborted>>
  BY DEF AskOnce
<1> USE <1>1 DEF IndInv, NewReceiver, Open, sending
<1>2. k \in Channels /\ published[k] + 1 \in Nat /\ owed[k] \in Nat
  BY StreamedAndAsked DEF TypeOK
<1>3. TypeOK'
  BY <1>2, EmptyIsInbox DEF TypeOK
<1>4. OpenInMap'
  BY <1>2 DEF TypeOK, OpenInMap
<1>5. OnceBacked'
  BY <1>2 DEF TypeOK, OnceBacked
<1>6. NoLostReady'
  BY ReadyChannel DEF TypeOK, NoLostReady
<1> QED
  BY <1>3, <1>4, <1>5, <1>6

(* One that awaits readiness does so only while writes cannot be sent. *)
LEMMA AwaitReadyStep ==
  ASSUME IndInv, NEW r \in Receivers, AwaitReady(r)
  PROVE  IndInv'
<1> USE DEF IndInv, AwaitReady, Open, requests, sending
<1>1. "ready_to_send" \in Channels /\ published["ready_to_send"] + 1 \in Nat
  BY DEF TypeOK, Channels
<1>2. TypeOK'
  <2>1. CASE canSend
    BY <2>1 DEF TypeOK
  <2>2. CASE ~canSend
    <3>1. /\ phase' = [phase EXCEPT ![r] = "awaiting"] /\ on' = [on EXCEPT ![r] = "ready_to_send"]
          /\ inbox' = [inbox EXCEPT ![r] = EmptyInbox]
          /\ next' = [next EXCEPT ![r] = published["ready_to_send"] + 1]
      BY <2>2
    <3>2. /\ phase' \in [Receivers -> Phases] /\ on' \in [Receivers -> Channels \union {NoChannel}]
          /\ next' \in [Receivers -> Nat]
      BY <1>1, <3>1 DEF TypeOK, Phases
    <3>3. inbox' \in [Receivers -> Inboxes(Nat)]
      BY <3>1, EmptyIsInbox DEF TypeOK
    <3> QED
      BY <3>2, <3>3 DEF TypeOK, Phases
  <2> QED
    BY <2>1, <2>2
<1>3. OpenInMap'
  BY <1>1, ReadyChannel DEF TypeOK, OpenInMap
<1>4. OnceBacked'
  BY ReadyChannel DEF TypeOK, OnceBacked
<1>5. NoLostReady'
  BY DEF TypeOK, NoLostReady
<1> QED
  BY <1>2, <1>3, <1>4, <1>5

(* A receiver closed waits for nothing. *)
LEMMA CloseStep ==
  ASSUME IndInv, NEW r \in Receivers, NEW end \in {"returned", "ended", "dropped"},
         Close(r), phase' = [phase EXCEPT ![r] = end],
         result' \in [Receivers -> {"none", "event", "lagged"}],
         UNCHANGED <<next, published, entry, requests, sending, aborted>>
  PROVE  IndInv'
<1> USE DEF IndInv, Close, requests, sending
<1>1. TypeOK'
  BY EmptyIsInbox DEF TypeOK
<1>2. OpenInMap'
  BY UpdatesAssumption DEF TypeOK, OpenInMap, Channels
<1>3. OnceBacked' /\ NoLostReady'
  BY DEF TypeOK, OnceBacked, NoLostReady
<1> QED
  BY <1>1, <1>2, <1>3

(* A once method that returns closes its receiver. *)
LEMMA FinishOnceStep ==
  ASSUME IndInv, NEW r \in Receivers, FinishOnce(r)
  PROVE  IndInv'
<1>1. result' \in [Receivers -> {"none", "event", "lagged"}]
  BY DEF FinishOnce, IndInv, TypeOK
<1> QED
  BY <1>1, CloseStep DEF FinishOnce

(* So does a receiver that is dropped, or has come to its end. *)
LEMMA EndReceiverStep ==
  ASSUME IndInv, NEW r \in Receivers, StreamEnd(r) \/ DropReceiver(r)
  PROVE  IndInv'
BY CloseStep DEF StreamEnd, DropReceiver, IndInv, TypeOK

(* The delegate goes when nobody waits for an answer. *)
LEMMA DropDelegateStep ==
  ASSUME IndInv, DropDelegate
  PROVE  IndInv'
<1> USE DEF IndInv, DropDelegate, receivers
<1>1. TypeOK'
  BY DEF TypeOK
<1>2. OpenInMap' /\ OnceBacked' /\ NoLostReady'
  BY DEF OpenInMap, OnceBacked, NoLostReady
<1> QED
  BY <1>1, <1>2

(* Reading a stream concerns no call. *)
LEMMA StreamStep ==
  ASSUME IndInv, NEW r \in Receivers, StreamRecv(r) \/ StreamNext(r)
  PROVE  IndInv'
<1> USE DEF IndInv, StreamRecv, StreamNext, requests, sending
<1>1. /\ Taken(inbox[r]) \in Inboxes(Nat) /\ Caught(inbox[r]) \in Inboxes(Nat)
      /\ Head(inbox[r].queue) \in Nat /\ Head(inbox[r].queue) + 1 \in Nat
  <2>1. inbox[r] \in Inboxes(Nat) /\ HasNews(inbox[r])
    BY DEF TypeOK
  <2>2. Caught(inbox[r]) \in Inboxes(Nat)
    BY <2>1 DEF Caught, Inboxes
  <2>3. Taken(inbox[r]) \in Inboxes(Nat) /\ Head(inbox[r].queue) \in Nat
    BY <2>1, TakenInbox
  <2> QED
    BY <2>2, <2>3
<1>2. TypeOK'
  BY <1>1 DEF TypeOK
<1>3. OpenInMap'
  BY DEF OpenInMap
<1>4. phase[r] = "streaming" /\ \A d \in Receivers \ {r} : inbox'[d] = inbox[d]
  BY DEF TypeOK
<1>5. OnceBacked' /\ NoLostReady'
  BY <1>4 DEF OnceBacked, NoLostReady
<1> QED
  BY <1>2, <1>3, <1>5

(* An event on a channel of the delegate's own answers all who wait on it. *)
LEMMA PublishStep ==
  ASSUME IndInv, NEW k \in Channels, Publish(k),
         owed' \in [Asked -> Nat], \A j \in Asked \ {k} : owed'[j] = owed[j],
         readyDue' \in BOOLEAN, k # "ready_to_send" => readyDue' = readyDue,
         UNCHANGED <<phase, on, next, result, entry, lost, delegated, canSend, aborted>>
  PROVE  IndInv'
<1> USE DEF IndInv
<1>1. /\ published' \in [Channels -> Nat]
      /\ inbox' \in [Receivers -> Inboxes(Nat)]
      /\ \A r \in Receivers : IF on[r] = k THEN HasNews(inbox'[r]) ELSE inbox'[r] = inbox[r]
  BY PublishReaches
<1>2. TypeOK'
  BY <1>1 DEF TypeOK
<1>3. OpenInMap'
  BY DEF OpenInMap
<1>4. OnceBacked'
  BY <1>1 DEF OnceBacked
<1>5. NoLostReady'
  BY <1>1 DEF NoLostReady
<1> QED
  BY <1>2, <1>3, <1>4, <1>5

(* So does an update of a value, where the program goes on. *)
LEMMA UpdateStep ==
  ASSUME IndInv, delegated, NEW ch \in Characteristics, UpdateValue(ch),
         owed' \in [Asked -> Nat], \A j \in Asked \ {ch} : owed'[j] = owed[j],
         UNCHANGED <<phase, on, next, result, entry, lost, sending>>
  PROVE  IndInv'
<1> USE DEF IndInv, sending
<1>1. /\ published' \in [Channels -> Nat]
      /\ inbox' \in [Receivers -> Inboxes(Nat)]
      /\ aborted' \in BOOLEAN
      /\ \A r \in Receivers : IF on[r] = ch THEN HasNews(inbox'[r]) ELSE inbox'[r] = inbox[r]
  BY UpdateReaches
<1>2. TypeOK'
  BY <1>1 DEF TypeOK
<1>3. OpenInMap'
  BY DEF OpenInMap
<1>4. OnceBacked'
  BY <1>1 DEF OnceBacked
<1>5. NoLostReady'
  BY <1>1, ReadyChannel DEF NoLostReady
<1> QED
  BY <1>2, <1>3, <1>4, <1>5

(* An answer of CoreBluetooth's, or a change it announces. *)
LEMMA CallbackStep ==
  ASSUME IndInv, NEW k \in OwnChannels, Announce(k) \/ Answer(k)
  PROVE  IndInv'
<1>1. k \in Channels /\ k # "ready_to_send"
  BY DEF Channels, Announce, Answer
<1>2. CASE Announce(k)
  <2>1. owed' \in [Asked -> Nat] /\ owed' = owed /\ readyDue' \in BOOLEAN
    BY <1>2 DEF Announce, IndInv, TypeOK, requests, sending
  <2> QED
    BY <1>1, <1>2, <2>1, PublishStep DEF Announce, requests, sending
<1>3. CASE Answer(k)
  <2>1. owed' \in [Asked -> Nat]
    <3>1. k \in Asked /\ owed[k] \in Nat /\ owed[k] > 0
      BY <1>1, <1>3 DEF Answer, IndInv, TypeOK, Asked
    <3>2. owed[k] - 1 \in Nat
      BY <3>1
    <3> QED
      BY <1>3, <3>2 DEF Answer, IndInv, TypeOK
  <2>2. \A j \in Asked \ {k} : owed'[j] = owed[j]
    BY <1>3 DEF Answer, IndInv, TypeOK
  <2>3. readyDue' \in BOOLEAN
    BY <1>3 DEF Answer, IndInv, TypeOK, sending
  <2> QED
    BY <1>1, <1>3, <2>1, <2>2, <2>3, PublishStep DEF Answer, sending
<1> QED
  BY <1>2, <1>3

(* The news that writes may be sent. *)
LEMMA BecomeReadyStep ==
  ASSUME IndInv, BecomeReady
  PROVE  IndInv'
<1>1. "ready_to_send" \in Channels
  BY DEF BecomeReady, Channels
<1>2. owed' \in [Asked -> Nat] /\ owed' = owed /\ readyDue' \in BOOLEAN
  BY DEF BecomeReady, IndInv, TypeOK, requests
<1> QED
  BY <1>1, <1>2, PublishStep DEF BecomeReady, requests

(* The outcome of a read, or a notification. *)
LEMMA ValueStep ==
  ASSUME IndInv, delegated, NEW ch \in Characteristics, AnswerRead(ch) \/ Notification(ch)
  PROVE  IndInv'
<1>1. CASE AnswerRead(ch)
  <2>1. ch \in Asked
    BY DEF Asked, Channels
  <2>2. owed' \in [Asked -> Nat] /\ \A j \in Asked \ {ch} : owed'[j] = owed[j]
    BY <1>1, <2>1 DEF AnswerRead, IndInv, TypeOK
  <2> QED
    BY <1>1, <2>2, UpdateStep DEF AnswerRead
<1>2. CASE Notification(ch)
  <2>1. owed' \in [Asked -> Nat] /\ owed' = owed
    BY <1>2 DEF Notification, IndInv, TypeOK, requests
  <2> QED
    BY <1>2, <2>1, UpdateStep DEF Notification, requests
<1> QED
  BY <1>1, <1>2

(* A loss is remembered, and the buffer that drains will be told. *)
LEMMA EnvironmentStep ==
  ASSUME IndInv, (\E k \in Asked : LoseAnswer(k)) \/ BufferFills \/ BufferDrains \/ LoseReady
  PROVE  IndInv'
<1> USE DEF IndInv, receivers, requests
<1>1. ASSUME NEW k \in Asked, LoseAnswer(k)
      PROVE  IndInv'
  <2> USE <1>1 DEF LoseAnswer, sending
  <2>1. TypeOK'
    BY DEF TypeOK
  <2>2. OpenInMap' /\ NoLostReady'
    BY DEF OpenInMap, NoLostReady
  <2>3. OnceBacked'
    BY DEF TypeOK, OnceBacked
  <2> QED
    BY <2>1, <2>2, <2>3
<1>2. CASE BufferFills \/ BufferDrains
  <2> USE <1>2 DEF BufferFills, BufferDrains
  <2>1. TypeOK'
    BY DEF TypeOK
  <2>2. OpenInMap' /\ OnceBacked'
    BY DEF OpenInMap, OnceBacked
  <2>3. NoLostReady'
    BY DEF NoLostReady
  <2> QED
    BY <2>1, <2>2, <2>3
<1>3. CASE LoseReady
  <2> USE <1>3 DEF LoseReady
  <2>1. TypeOK'
    BY DEF TypeOK
  <2>2. OpenInMap' /\ OnceBacked' /\ NoLostReady'
    BY DEF OpenInMap, OnceBacked, NoLostReady
  <2> QED
    BY <2>1, <2>2
<1> QED
  BY <1>1, <1>2, <1>3

-----------------------------------------------------------------------------
(* The invariant holds in every behaviour. *)
THEOREM Invariance == Spec => []IndInv
<1>1. IndInv /\ [Next]_vars => IndInv'
  <2> SUFFICES ASSUME IndInv, [Next]_vars
               PROVE  IndInv'
    OBVIOUS
  <2>1. CASE WithDelegate
    <3>1. ASSUME NEW r \in Receivers, OpenStream(r) \/ AskOnce(r) \/ AwaitReady(r) \/ FinishOnce(r)
          PROVE  IndInv'
      BY <3>1, OpenStreamStep, AskOnceStep, AwaitReadyStep, FinishOnceStep
    <3>2. ASSUME NEW k \in OwnChannels, Announce(k) \/ Answer(k)
          PROVE  IndInv'
      BY <3>2, CallbackStep
    <3>3. ASSUME delegated, NEW ch \in Characteristics, AnswerRead(ch) \/ Notification(ch)
          PROVE  IndInv'
      BY <3>3, ValueStep
    <3>4. CASE (\E k \in Asked : LoseAnswer(k)) \/ BufferFills \/ BufferDrains \/ LoseReady
      BY <3>4, EnvironmentStep
    <3> QED
      BY <2>1, <3>1, <3>2, <3>3, <3>4, BecomeReadyStep, DropDelegateStep DEF WithDelegate
  <2>2. ASSUME NEW r \in Receivers,
               StreamRecv(r) \/ StreamNext(r) \/ StreamEnd(r) \/ DropReceiver(r)
        PROVE  IndInv'
    BY <2>2, StreamStep, EndReceiverStep
  <2>3. CASE UNCHANGED vars
    BY <2>3 DEF vars, IndInv, TypeOK, OpenInMap, OnceBacked, NoLostReady
  <2> QED
    BY <2>1, <2>2, <2>3 DEF Next
<1> QED
  BY <1>1, InitInv, PTL DEF Spec

(* The variables keep their types. *)
THEOREM TypeCorrect == Spec => []TypeOK
BY Invariance, PTL DEF IndInv

(* A once call that waits is owed an answer or was told of a loss:         *)
(* subscribing after asking misses nothing, because both are one block.    *)
THEOREM NothingMissed == Spec => []OnceBacked
BY Invariance, PTL DEF IndInv

(* A call that waits for readiness will be told of it, or it was lost: the *)
(* flag is looked at and the receiver made in one block.                   *)
THEOREM ReadyNotLost == Spec => []NoLostReady
BY Invariance, PTL DEF IndInv

-----------------------------------------------------------------------------
(* The refinement.                                                         *)

(* Every step is one of EventStreams, or none of its concern. *)
LEMMA StepRefines ==
  ASSUME IndInv, [Next]_vars
  PROVE  [Streams!Next]_(Streams!vars)
<1> USE DEF IndInv, Streams!vars
<1>1. ASSUME NEW r \in Receivers, OpenStream(r) \/ AskOnce(r) \/ AwaitReady(r)
      PROVE  [Streams!Next]_(Streams!vars)
  <2>1. CASE OpenStream(r)
    <3>1. PICK k \in Channels : phase[r] = "idle" /\ Open(r, k) /\ published' = published
      BY <2>1, StreamedAndAsked DEF OpenStream, NewReceiver
    <3> QED
      BY <3>1, OpenSubscribes DEF OpenInMap
  <2>2. CASE AskOnce(r)
    <3>1. PICK k \in Channels : phase[r] = "idle" /\ Open(r, k) /\ published' = published
      BY <2>2, StreamedAndAsked DEF AskOnce, NewReceiver
    <3> QED
      BY <3>1, OpenSubscribes DEF OpenInMap
  <2>3. CASE AwaitReady(r)
    <3>1. CASE canSend
      BY <2>3, <3>1 DEF AwaitReady
    <3>2. CASE ~canSend
      <4>1. phase[r] = "idle" /\ Open(r, "ready_to_send") /\ published' = published
        BY <2>3, <3>2 DEF AwaitReady
      <4>2. "ready_to_send" \in Channels
        BY <2>3 DEF AwaitReady, Channels
      <4> QED
        BY <4>1, <4>2, OpenSubscribes DEF OpenInMap
    <3> QED
      BY <3>1, <3>2
  <2> QED
    BY <1>1, <2>1, <2>2, <2>3
<1>2. ASSUME NEW r \in Receivers, FinishOnce(r) \/ StreamEnd(r) \/ DropReceiver(r)
      PROVE  [Streams!Next]_(Streams!vars)
  <2>1. on[r] # NoChannel
    BY <1>2, UpdatesAssumption DEF OpenInMap, FinishOnce, StreamEnd, DropReceiver
  <2> QED
    BY <1>2, <2>1, CloseUnsubscribes DEF FinishOnce, StreamEnd, DropReceiver
<1>3. ASSUME NEW r \in Receivers, StreamRecv(r) \/ StreamNext(r)
      PROVE  [Streams!Next]_(Streams!vars)
  <2>1. on[r] # NoChannel
    BY <1>3, UpdatesAssumption DEF OpenInMap, StreamRecv, StreamNext
  <2>2. Streams!ReportLag(r) \/ Streams!Deliver(r)
    BY <1>3, <2>1 DEF StreamRecv, StreamNext, Streams!ReportLag, Streams!Deliver,
       Streams!Caught, Caught, Streams!Taken, Taken, Streams!HasNews, HasNews
  <2> QED
    BY <2>2 DEF Streams!Next
<1>4. ASSUME NEW k \in OwnChannels, Announce(k) \/ Answer(k)
      PROVE  [Streams!Next]_(Streams!vars)
  <2>1. k \in Channels /\ published[k] \in Nat
    BY DEF Channels, TypeOK
  <2> QED
    BY <1>4, <2>1, PublishPublishes DEF Announce, Answer
<1>5. ASSUME delegated, NEW ch \in Characteristics, AnswerRead(ch) \/ Notification(ch)
      PROVE  [Streams!Next]_(Streams!vars)
  <2>1. UpdateValue(ch) /\ UNCHANGED <<on, next>>
    BY <1>5 DEF AnswerRead, Notification
  <2>2. ch \in Channels /\ published[ch] \in Nat
    BY DEF Channels, TypeOK
  <2> QED
    BY <1>5, <2>1, <2>2, UnheardPublishes, PublishPublishes DEF UpdateValue
<1>6. CASE (\E k \in Asked : LoseAnswer(k)) \/ BufferFills \/ BufferDrains \/ LoseReady \/ DropDelegate
  BY <1>6 DEF LoseAnswer, BufferFills, BufferDrains, LoseReady, DropDelegate, receivers
<1>7. CASE BecomeReady
  <2>1. "ready_to_send" \in Channels /\ published["ready_to_send"] \in Nat
    BY <1>7 DEF BecomeReady, Channels, TypeOK
  <2> QED
    BY <1>7, <2>1, PublishPublishes DEF BecomeReady
<1>8. CASE UNCHANGED vars
  BY <1>8 DEF vars
<1> QED
  BY <1>1, <1>2, <1>3, <1>4, <1>5, <1>6, <1>7, <1>8 DEF Next, WithDelegate

(* The channels of the delegate, and those of the map, keep the promise of *)
(* EventStreams to every receiver.                                         *)
THEOREM ImplementsStreams == Spec => StreamsSpec
<1>1. Init => Streams!Init
  BY DEF Init, Streams!Init, Streams!EmptyInbox, EmptyInbox
<1>2. IndInv /\ [Next]_vars => [Streams!Next]_(Streams!vars)
  BY StepRefines
<1> QED
  BY <1>1, <1>2, Invariance, PTL DEF Spec, StreamsSpec, Streams!Spec

(* The theorems about EventStreams, of the channels of this module. *)
StreamFacts == INSTANCE EventStreamsProofs WITH
                 Keys <- Channels, NoKey <- NoChannel, EventNumbers <- Nat

(* So a receiver of any of them is told of what it lost. *)
THEOREM ReceiversTold == Spec => []Streams!LossReported
<1>1. StreamFacts!StreamsAssumption
  BY CapType, UpdatesAssumption DEF StreamFacts!StreamsAssumption
<1>2. Streams!Init => StreamFacts!Init
  BY DEF Streams!Init, StreamFacts!Init, Streams!EmptyInbox, StreamFacts!EmptyInbox
<1>3. [Streams!Next]_(Streams!vars) => [StreamFacts!Next]_(StreamFacts!vars)
  <2>1. \A b, e, cap : Streams!Offer(b, e, cap) = StreamFacts!Offer(b, e, cap)
    BY DEF Streams!Offer, StreamFacts!Offer
  <2>2. \A k \in Channels : Streams!Publish(k) => StreamFacts!Publish(k)
    BY <2>1 DEF Streams!Publish, StreamFacts!Publish
  <2>3. \A r \in Receivers, k \in Channels : Streams!Subscribe(r, k) => StreamFacts!Subscribe(r, k)
    BY DEF Streams!Subscribe, StreamFacts!Subscribe, Streams!EmptyInbox, StreamFacts!EmptyInbox
  <2>4. \A r \in Receivers :
          /\ Streams!ReportLag(r) => StreamFacts!ReportLag(r)
          /\ Streams!Deliver(r) => StreamFacts!Deliver(r)
          /\ Streams!Unsubscribe(r) => StreamFacts!Unsubscribe(r)
    BY DEF Streams!ReportLag, StreamFacts!ReportLag, Streams!Deliver, StreamFacts!Deliver,
       Streams!Unsubscribe, StreamFacts!Unsubscribe, Streams!Caught, StreamFacts!Caught,
       Streams!Taken, StreamFacts!Taken, Streams!HasNews, StreamFacts!HasNews,
       Streams!EmptyInbox, StreamFacts!EmptyInbox
  <2>5. Streams!Next => StreamFacts!Next
    BY <2>2, <2>3, <2>4 DEF Streams!Next, StreamFacts!Next
  <2> QED
    BY <2>5 DEF Streams!vars, StreamFacts!vars
<1>4. StreamFacts!LossReported => Streams!LossReported
  BY DEF StreamFacts!LossReported, Streams!LossReported
<1>5. StreamFacts!Spec => []StreamFacts!LossReported
  BY <1>1, StreamFacts!ReportsLoss
<1> QED
  BY <1>2, <1>3, <1>4, <1>5, ImplementsStreams, PTL DEF StreamsSpec, Streams!Spec, StreamFacts!Spec

(* A once call that fails with Lagged was overrun: what its inbox says of  *)
(* a loss is true of what was published.                                   *)
THEOREM LagsAreOverruns == Spec => LaggedOnlyIfOverrun
<1> DEFINE Overrun ==
      \A r \in Receivers :
        result'[r] = "lagged" /\ result[r] # "lagged" =>
          published[on[r]] + 1 - next[r] > Cap[on[r]]
<1>1. IndInv /\ Streams!LossReported /\ [Next]_vars => Overrun
  <2> SUFFICES ASSUME IndInv, Streams!LossReported, [Next]_vars,
                      NEW r \in Receivers, result'[r] = "lagged", result[r] # "lagged"
               PROVE  published[on[r]] + 1 - next[r] > Cap[on[r]]
    OBVIOUS
  <2>1. FinishOnce(r) /\ inbox[r].lagged
    <3>1. PICK d \in Receivers : FinishOnce(d)
      BY DEF Next, WithDelegate, vars, OpenStream, AskOnce, AwaitReady, StreamRecv, StreamNext,
         StreamEnd, DropReceiver, DropDelegate, Announce, Answer, AnswerRead, Notification, LoseAnswer, BufferFills, BufferDrains,
         BecomeReady, LoseReady, receivers
    <3> QED
      BY <3>1 DEF FinishOnce, IndInv, TypeOK
  <2>2. on[r] \in Channels /\ on[r] # NoChannel
    BY <2>1, UpdatesAssumption DEF FinishOnce, IndInv, OpenInMap
  <2>3. next[r] + Cap[on[r]] <= published[on[r]]
    BY <2>1, <2>2 DEF Streams!LossReported
  <2>4. next[r] \in Nat /\ Cap[on[r]] \in Nat /\ published[on[r]] \in Nat
    BY <2>2, CapType DEF IndInv, TypeOK
  <2> QED
    BY <2>3, <2>4
<1> QED
  BY <1>1, Invariance, ReceiversTold, PTL DEF Spec, LaggedOnlyIfOverrun

(* A stream that ends has given, or reported lost, all there was to give:  *)
(* an inbox that has nothing left has missed nothing in silence.           *)
THEOREM EndsAreComplete == Spec => EndsComplete
<1> DEFINE Complete ==
      \A r \in Receivers :
        phase'[r] = "ended" /\ phase[r] # "ended" => next[r] = published[on[r]] + 1
<1>1. IndInv /\ Streams!LossReported /\ [Next]_vars => Complete
  <2> SUFFICES ASSUME IndInv, Streams!LossReported, [Next]_vars,
                      NEW r \in Receivers, phase'[r] = "ended", phase[r] # "ended"
               PROVE  next[r] = published[on[r]] + 1
    OBVIOUS
  <2>1. StreamEnd(r)
    <3>1. phase \in [Receivers -> Phases] /\ phase' # phase
      BY DEF IndInv, TypeOK, Phases
    <3>2. ASSUME NEW d \in Receivers, OpenStream(d) \/ AskOnce(d) \/ AwaitReady(d) \/ FinishOnce(d)
                                       \/ DropReceiver(d)
          PROVE  FALSE
      BY <3>1, <3>2 DEF OpenStream, AskOnce, AwaitReady, FinishOnce, DropReceiver
    <3>3. ASSUME NEW d \in Receivers, StreamEnd(d), d # r
          PROVE  FALSE
      BY <3>1, <3>3 DEF StreamEnd
    <3>4. PICK d \in Receivers : StreamEnd(d)
      BY <3>1, <3>2 DEF Next, WithDelegate, vars, StreamRecv, StreamNext, DropDelegate, Announce,
         Answer, AnswerRead, Notification, LoseAnswer, BufferFills, BufferDrains, BecomeReady,
         LoseReady, receivers
    <3> QED
      BY <3>3, <3>4
  <2>2. on[r] \in Channels /\ on[r] # NoChannel
    BY <2>1, UpdatesAssumption DEF StreamEnd, IndInv, OpenInMap
  <2>3. Len(inbox[r].queue) = 0
    BY <2>1 DEF StreamEnd, HasNews
  <2>4. next[r] \in Nat /\ Cap[on[r]] \in Nat \ {0} /\ published[on[r]] \in Nat
    BY <2>2, CapType DEF IndInv, TypeOK
  <2>5. ~inbox[r].lagged
    BY <2>2, <2>3, <2>4 DEF Streams!LossReported
  <2>6. next[r] + Len(inbox[r].queue) = published[on[r]] + 1
    BY <2>2, <2>5 DEF Streams!LossReported
  <2> QED
    BY <2>3, <2>4, <2>6
<1> QED
  BY <1>1, Invariance, ReceiversTold, PTL DEF Spec, EndsComplete
=============================================================================
