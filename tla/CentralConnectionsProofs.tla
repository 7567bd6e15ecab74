---------------------- MODULE CentralConnectionsProofs ----------------------
(***************************************************************************)
(* The safety properties of CentralConnections, for any peripherals, calls *)
(* and capacity of the channel of disconnections.                          *)
(***************************************************************************)
EXTENDS CentralConnections, EventInboxProofs

(* A call that was made has a peripheral. *)
CallsTargeted ==
  \A c \in Calls : phase[c] # "idle" => target[c] \in Peripherals

(* A call not made has no outcome. *)
IdleUnanswered ==
  \A c \in ConnectCalls : phase[c] = "idle" => outcome[c] = "none" /\ error[c] = {}

(* An attempt under way, unless it is a reconnection of CoreBluetooth's    *)
(* own, is one that a call waits for.                                      *)
AttemptAttended ==
  \A p \in Peripherals :
    link[p] = "connecting" =>
      p \in auto \/ \E c \in ConnectCalls : Waiting(c, p) /\ outcome[c] = "none"

(* A call borrows the Peripheral it was given until it ends. *)
CallsHeld ==
  \A c \in Calls : phase[c] = "awaiting" => target[c] \in held

IndInv ==
  /\ TypeOK
  /\ CallsTargeted
  /\ CallsHeld
  /\ IdleUnanswered
  /\ ConnectBacked
  /\ AttemptAttended
  /\ CancelBacked

-----------------------------------------------------------------------------
(* Whatever CoreBluetooth gives as the reason of a failure, or if it gives *)
(* none, the error it becomes is not Canceled.                             *)
LEMMA ConnectErrorKind ==
  ASSUME NEW nserror \in {{}} \union {{e} : e \in NSErrors}
  PROVE  AsyncKind(FromError(ConnectError(nserror))) \in ErrorKinds
<1> DEFINE error1 == ConnectError(nserror)
<1>1. AsyncKind(FromError(error1)) = Kind(error1)
  BY DEF AsyncKind, FromError, Os, FromErrorKind
<1>2. CASE nserror = {}
  <2>1. error1 = Simple(Bluetooth(ConnectionFailed))
    BY <1>2 DEF ConnectError, FromNSErrorOrKind
  <2>2. Kind(error1) = Bluetooth(10)
    BY <2>1 DEF Kind, Simple, ConnectionFailed
  <2> QED
    BY <1>1, <2>2 DEF Bluetooth, ErrorKinds
<1>3. CASE nserror # {}
  <2>1. PICK e \in NSErrors : error1 = Os(e)
    BY <1>3 DEF ConnectError, FromNSErrorOrKind
  <2>2. Kind(error1) = FromNSError(e)
    BY <2>1 DEF Kind, Os
  <2>3. e.code = 5
    BY DEF NSErrors
  <2>4. FromNSError(e) \in {Bluetooth(5), ATT(5), Other}
    BY <2>3 DEF FromNSError
  <2> QED
    BY <1>1, <2>2, <2>4 DEF Bluetooth, ATT, ErrorKinds
<1> QED
  BY <1>2, <1>3

(* Canceled is the crate's own. *)
LEMMA CanceledIsOwn == Canceled \notin ErrorKinds /\ AsyncKind(FromCanceled) = Canceled
BY DEF Canceled, ErrorKinds, Other, AsyncKind, FromCanceled, Simple

-----------------------------------------------------------------------------
(* Initially nothing was asked for. *)
LEMMA InitInv == Init => IndInv
<1> SUFFICES ASSUME Init PROVE IndInv
  OBVIOUS
<1>1. TypeOK
  BY EmptyIsInbox DEF Init, TypeOK
<1>2. /\ CallsTargeted /\ CallsHeld /\ IdleUnanswered
      /\ ConnectBacked /\ AttemptAttended /\ CancelBacked
  BY DEF Init, CallsTargeted, CallsHeld, IdleUnanswered, ConnectBacked, AttemptAttended, CancelBacked, Calls
<1> QED
  BY <1>1, <1>2 DEF IndInv

-----------------------------------------------------------------------------
(* The steps of connect_with_options.                                      *)

(* The first poll makes the call the one that is waited for; whoever was   *)
(* there before it is told so.                                             *)
LEMMA ConnectStep ==
  ASSUME IndInv, NEW c \in ConnectCalls, Connect(c)
  PROVE  IndInv'
<1> USE ConnectionsAssumption
<1>1. PICK p \in Peripherals, reconnect \in BOOLEAN :
        /\ phase[c] = "idle" /\ p \in held
        /\ CBConnect(p, reconnect)
        /\ RegisterConnecting(c, p)
        /\ phase' = [phase EXCEPT ![c] = "awaiting"]
        /\ target' = [target EXCEPT ![c] = p]
        /\ UNCHANGED <<error, inbox, held, panic, withdrawnBy>>
  BY DEF Connect
<1>2. TypeOK
  BY DEF IndInv
<1>3. TypeOK'
  BY <1>1, <1>2 DEF TypeOK, CBConnect, RegisterConnecting, Settle, Calls
<1>4. CallsTargeted'
  BY <1>1, <1>2 DEF IndInv, TypeOK, CallsTargeted, Calls
<1>5. ConnectBacked'
  BY <1>1, <1>2 DEF IndInv, TypeOK, CallsTargeted, ConnectBacked, CBConnect,
     RegisterConnecting, Settle, Calls, Waiting
<1>6. AttemptAttended'
  <2>1. Waiting(c, p)' /\ outcome'[c] = "none"
    BY <1>1, <1>2 DEF IndInv, TypeOK, IdleUnanswered, RegisterConnecting, Settle, Calls, Waiting
  <2>2. ASSUME NEW q \in Peripherals \ {p}, link'[q] = "connecting"
        PROVE  q \in auto' \/ \E d \in ConnectCalls : Waiting(d, q)' /\ outcome'[d] = "none"
    BY <1>1, <1>2, <2>2 DEF IndInv, TypeOK, AttemptAttended, CBConnect,
       RegisterConnecting, Settle, Calls, Waiting
  <2> QED
    BY <2>1, <2>2 DEF AttemptAttended
<1>7. CancelBacked'
  BY <1>1, <1>2 DEF IndInv, TypeOK, CancelBacked, CBConnect, Calls
<1>8. IdleUnanswered'
  BY <1>1, <1>2 DEF IndInv, TypeOK, IdleUnanswered, RegisterConnecting, Settle, Calls, Waiting
<1>9. CallsHeld'
  BY <1>1, <1>2 DEF IndInv, TypeOK, CallsHeld, Calls
<1> QED
  BY <1>3, <1>4, <1>5, <1>6, <1>7, <1>8, <1>9 DEF IndInv

(* A call that returns with the outcome of its attempt leaves it as it is. *)
LEMMA FinishConnectStep ==
  ASSUME IndInv, NEW c \in ConnectCalls, FinishConnect(c)
  PROVE  IndInv'
<1> USE ConnectionsAssumption DEF IndInv, FinishConnect, peripheral
<1>1. TypeOK'
  BY DEF TypeOK, Calls
<1>2. CallsTargeted' /\ CallsHeld' /\ IdleUnanswered' /\ ConnectBacked' /\ CancelBacked'
  BY DEF TypeOK, CallsTargeted, CallsHeld, IdleUnanswered, ConnectBacked, CancelBacked, Calls
<1>3. AttemptAttended'
  BY DEF TypeOK, AttemptAttended, Waiting, Calls
<1> QED
  BY <1>1, <1>2, <1>3

(* Withdrawing what goes on for peripheral p ends the attempt, and marks   *)
(* the call that waits for it.                                             *)
LEMMA GuardStep ==
  ASSUME IndInv, NEW c \in ConnectCalls, NEW p \in Peripherals, NEW who \in {"superseded", "drop"},
         NEW end \in {"returned", "dropped"},
         phase[c] = "awaiting", target[c] = p, Guard(p, who),
         phase' = [phase EXCEPT ![c] = end],
         error' \in {error, [error EXCEPT ![c] = {Canceled}]},
         UNCHANGED <<target, outcome, connecting, inbox, held, panic>>
  PROVE  IndInv'
<1> USE ConnectionsAssumption DEF IndInv
<1>1. TypeOK'
  <2>1. error' \in [ConnectCalls -> SUBSET AsyncErrorKinds]
    BY DEF TypeOK, AsyncErrorKinds
  <2> QED
    BY <2>1 DEF TypeOK, Calls, Guard, CBCancel, Withdrawn, peripheral
<1>2. CallsTargeted' /\ CallsHeld' /\ IdleUnanswered'
  BY DEF TypeOK, CallsTargeted, CallsHeld, IdleUnanswered, Calls
<1>3. ConnectBacked'
  BY DEF TypeOK, CallsTargeted, ConnectBacked, Calls, Guard, CBCancel, Withdrawn, Waiting, peripheral
<1>4. AttemptAttended'
  BY DEF TypeOK, AttemptAttended, Calls, Guard, CBCancel, Withdrawn, Waiting, peripheral
<1>5. CancelBacked'
  BY DEF TypeOK, CancelBacked, Calls, Guard, CBCancel, Withdrawn, peripheral
<1> QED
  BY <1>1, <1>2, <1>3, <1>4, <1>5

(* A call that was overtaken runs its guard as it returns. *)
LEMMA FailConnectStep ==
  ASSUME IndInv, NEW c \in ConnectCalls, FailConnect(c)
  PROVE  IndInv'
<1>1. target[c] \in Peripherals
  BY DEF IndInv, CallsTargeted, FailConnect, Calls
<1> QED
  BY <1>1, GuardStep, CanceledIsOwn DEF FailConnect

(* One that is dropped runs it too. *)
LEMMA DropConnectStep ==
  ASSUME IndInv, NEW c \in ConnectCalls, DropConnect(c)
  PROVE  IndInv'
<1>1. target[c] \in Peripherals
  BY DEF IndInv, CallsTargeted, DropConnect, Calls
<1> QED
  BY <1>1, GuardStep DEF DropConnect

-----------------------------------------------------------------------------
(* The steps of cancel_peripheral_connection.                              *)

(* The first poll waits only for a disconnection that it has asked for. *)
LEMMA CancelStep ==
  ASSUME IndInv, NEW x \in CancelCalls, Cancel(x)
  PROVE  IndInv'
<1> USE ConnectionsAssumption
<1>1. PICK p \in Peripherals :
        /\ phase[x] = "idle" /\ p \in held
        /\ phase' = [phase EXCEPT ![x] = IF link[p] = "connected" THEN "awaiting" ELSE "returned"]
        /\ target' = [target EXCEPT ![x] = p]
        /\ IF link[p] \in {"connecting", "connected"}
             THEN CBCancel(p) /\ Withdrawn(p, "cancel")
             ELSE UNCHANGED <<peripheral, withdrawnBy>>
        /\ UNCHANGED <<outcome, error, connecting, inbox, held, panic>>
  BY DEF Cancel
<1>2. TypeOK
  BY DEF IndInv
<1>3. TypeOK'
  BY <1>1, <1>2 DEF TypeOK, Calls, CBCancel, Withdrawn, peripheral
<1>4. CallsTargeted' /\ CallsHeld' /\ IdleUnanswered'
  BY <1>1, <1>2 DEF IndInv, TypeOK, CallsTargeted, CallsHeld, IdleUnanswered, Calls
<1>5. ConnectBacked'
  BY <1>1, <1>2 DEF IndInv, TypeOK, CallsTargeted, ConnectBacked, Calls, CBCancel, Withdrawn,
     Waiting, peripheral
<1>6. AttemptAttended'
  BY <1>1, <1>2 DEF IndInv, TypeOK, AttemptAttended, Calls, CBCancel, Withdrawn, Waiting, peripheral
<1>7. CancelBacked'
  BY <1>1, <1>2 DEF IndInv, TypeOK, CancelBacked, Calls, CBCancel, Withdrawn, peripheral
<1> QED
  BY <1>3, <1>4, <1>5, <1>6, <1>7 DEF IndInv

(* A call that reads its inbox without a lag finds its event there, or     *)
(* goes on waiting for one still to come.                                  *)
LEMMA ReadDisconnectsStep ==
  ASSUME IndInv, NEW x \in CancelCalls, ReadDisconnects(x)
  PROVE  IndInv'
<1> USE ConnectionsAssumption DEF IndInv, ReadDisconnects, peripheral
<1>1. TypeOK'
  BY EmptyIsInbox DEF TypeOK, Calls
<1>2. CallsTargeted' /\ CallsHeld' /\ IdleUnanswered' /\ ConnectBacked'
  BY DEF TypeOK, CallsTargeted, CallsHeld, IdleUnanswered, ConnectBacked, Calls
<1>3. AttemptAttended'
  BY DEF TypeOK, AttemptAttended, Waiting, Calls
<1>4. CancelBacked'
  BY DEF TypeOK, CancelBacked, Calls
<1> QED
  BY <1>1, <1>2, <1>3, <1>4

(* The end of the program changes nothing else. *)
LEMMA ReachUnreachableStep ==
  ASSUME IndInv, NEW x \in CancelCalls, ReachUnreachable(x)
  PROVE  IndInv'
BY DEF IndInv, ReachUnreachable, peripheral, calls, TypeOK, CallsTargeted, CallsHeld,
   IdleUnanswered, ConnectBacked, AttemptAttended, Waiting, CancelBacked

(* A call that is dropped waits no longer. *)
LEMMA DropCancelStep ==
  ASSUME IndInv, NEW x \in CancelCalls, DropCancel(x)
  PROVE  IndInv'
<1> USE ConnectionsAssumption DEF IndInv, DropCancel, peripheral
<1>1. TypeOK'
  BY EmptyIsInbox DEF TypeOK, Calls
<1>2. CallsTargeted' /\ CallsHeld' /\ IdleUnanswered' /\ ConnectBacked'
  BY DEF TypeOK, CallsTargeted, CallsHeld, IdleUnanswered, ConnectBacked, Calls
<1>3. AttemptAttended'
  BY DEF TypeOK, AttemptAttended, Waiting, Calls
<1>4. CancelBacked'
  BY DEF TypeOK, CancelBacked, Calls
<1> QED
  BY <1>1, <1>2, <1>3, <1>4

-----------------------------------------------------------------------------
(* The steps of CoreBluetooth.                                             *)

(* An outcome reaches the call that waits for the attempt, and ends the    *)
(* attempt.                                                                *)
LEMMA OutcomeStep ==
  ASSUME IndInv, NEW p \in Peripherals, NEW v \in {"ok", "error"},
         NEW l \in {"connected", "disconnected"},
         link' = [link EXCEPT ![p] = l], owed' = owed \ {p}, TakeSender(p, v),
         NEW k \in ErrorKinds,
         error' \in {error, [c \in ConnectCalls |->
                              IF c = connecting[p] /\ Waiting(c, p) THEN {k} ELSE error[c]]},
         UNCHANGED <<phase, target, inbox, held, panic, closing, auto, withdrawnBy>>
  PROVE  IndInv'
<1> USE ConnectionsAssumption DEF IndInv, TakeSender, Settle
<1>1. TypeOK'
  <2>1. error' \in [ConnectCalls -> SUBSET AsyncErrorKinds]
    BY DEF TypeOK, AsyncErrorKinds
  <2> QED
    BY <2>1 DEF TypeOK, Calls
<1>2. CallsTargeted' /\ CallsHeld' /\ IdleUnanswered'
  BY DEF TypeOK, CallsTargeted, CallsHeld, IdleUnanswered, Calls, Waiting
<1>3. ConnectBacked'
  BY DEF TypeOK, CallsTargeted, ConnectBacked, Calls, Waiting
<1>4. AttemptAttended'
  BY DEF TypeOK, AttemptAttended, Calls, Waiting
<1>5. CancelBacked'
  BY DEF TypeOK, CancelBacked, Calls
<1> QED
  BY <1>1, <1>2, <1>3, <1>4, <1>5

(* An outcome whose delegate is gone is one that no call waits for: the    *)
(* call would have kept the delegate.                                      *)
LEMMA UnwrapStep ==
  ASSUME IndInv, NEW p \in Peripherals, ~Alive(p), panic' = "delegate",
         NEW l \in {"connected", "disconnected"},
         link' = [link EXCEPT ![p] = l], owed' = owed \ {p},
         UNCHANGED <<phase, target, error, outcome, connecting, inbox, held, closing, auto,
                     withdrawnBy>>
  PROVE  IndInv'
<1> USE ConnectionsAssumption DEF IndInv
<1>1. TypeOK'
  BY DEF TypeOK
<1>2. CallsTargeted' /\ CallsHeld' /\ IdleUnanswered' /\ CancelBacked'
  BY DEF CallsTargeted, CallsHeld, IdleUnanswered, CancelBacked
<1>3. ConnectBacked'
  BY DEF ConnectBacked, CallsHeld, Alive, Calls
<1>4. AttemptAttended'
  BY DEF TypeOK, AttemptAttended, Waiting
<1> QED
  BY <1>1, <1>2, <1>3, <1>4

(* A disconnection is broadcast: calls that wait for it have it now, and   *)
(* those that wait for another still have theirs, or a lag.  It is not if  *)
(* its delegate is gone, when no call waits for it.                        *)
LEMMA BroadcastStep ==
  ASSUME TypeOK, CallsHeld, CancelBacked, NEW p \in Peripherals,
         IF Alive(p) THEN BroadcastDisconnect(p) ELSE UNCHANGED inbox,
         UNCHANGED calls, closing \ {p} \subseteq closing'
  PROVE  /\ inbox' \in [CancelCalls -> Inboxes(Peripherals)]
         /\ CancelBacked'
<1> USE ConnectionsAssumption
<1>1. ASSUME NEW x \in CancelCalls
      PROVE  inbox[x] \in Inboxes(Peripherals)
    BY <1>1 DEF TypeOK
<1>2. inbox' \in [CancelCalls -> Inboxes(Peripherals)]
  <2>1. CASE Alive(p)
    BY <1>1, <2>1, OfferAdds DEF BroadcastDisconnect
  <2>2. CASE ~Alive(p)
    BY <2>2 DEF TypeOK
  <2> QED
    BY <2>1, <2>2
<1>3. ASSUME NEW x \in CancelCalls, phase'[x] = "awaiting", Alive(p)
      PROVE  \/ inbox'[x].lagged
             \/ target'[x] \in closing'
             \/ \E i \in DOMAIN inbox'[x].queue : inbox'[x].queue[i] = target'[x]
  <2>1. phase[x] = "awaiting" /\ target'[x] = target[x]
    BY <1>3 DEF calls
  <2>2. inbox'[x] = Offer(inbox[x], p, DisconnectCap)
    BY <1>3, <2>1 DEF BroadcastDisconnect
  <2>3. CASE target[x] = p
    BY <1>1, <2>1, <2>2, <2>3, OfferAdds
  <2>4. CASE target[x] # p /\ target[x] \in closing
    BY <2>1, <2>4
  <2>5. CASE inbox[x].lagged
    BY <2>2, <2>5, OfferStaysLagged
  <2>6. CASE \E i \in DOMAIN inbox[x].queue : inbox[x].queue[i] = target[x]
    BY <1>1, <2>1, <2>2, <2>6, OfferKeeps
  <2> QED
    BY <2>1, <2>3, <2>4, <2>5, <2>6 DEF CancelBacked
<1>4. ASSUME NEW x \in CancelCalls, phase'[x] = "awaiting", ~Alive(p)
      PROVE  \/ inbox'[x].lagged
             \/ target'[x] \in closing'
             \/ \E i \in DOMAIN inbox'[x].queue : inbox'[x].queue[i] = target'[x]
  <2>1. phase[x] = "awaiting" /\ UNCHANGED <<target, inbox>>
    BY <1>4 DEF calls
  <2>2. target[x] # p
    BY <1>4, <2>1 DEF CallsHeld, Alive, Calls
  <2> QED
    BY <2>1, <2>2 DEF CancelBacked
<1> QED
  BY <1>2, <1>3, <1>4 DEF CancelBacked

(* A connection that was asked to close does. *)
LEMMA ClosedStep ==
  ASSUME IndInv, NEW p \in Peripherals, Closed(p)
  PROVE  IndInv'
<1> USE ConnectionsAssumption DEF IndInv, Closed
<1>1. inbox' \in [CancelCalls -> Inboxes(Peripherals)] /\ CancelBacked'
  BY BroadcastStep
<1>2. TypeOK'
  BY <1>1 DEF TypeOK, calls, Calls, NewPeripheral
<1>3. CallsTargeted' /\ CallsHeld' /\ IdleUnanswered' /\ ConnectBacked'
  BY DEF TypeOK, CallsTargeted, CallsHeld, IdleUnanswered, ConnectBacked, Calls, calls
<1>4. AttemptAttended'
  BY DEF TypeOK, AttemptAttended, Waiting, Calls, calls
<1> QED
  BY <1>1, <1>2, <1>3, <1>4

(* One that is lost is made again only if that was asked for. *)
LEMMA LinkLostStep ==
  ASSUME IndInv, NEW p \in Peripherals, LinkLost(p)
  PROVE  IndInv'
<1> USE ConnectionsAssumption DEF IndInv, LinkLost
<1>1. inbox' \in [CancelCalls -> Inboxes(Peripherals)] /\ CancelBacked'
  BY BroadcastStep
<1>2. TypeOK'
  BY <1>1 DEF TypeOK, calls, Calls, NewPeripheral
<1>3. CallsTargeted' /\ CallsHeld' /\ IdleUnanswered' /\ ConnectBacked'
  BY DEF TypeOK, CallsTargeted, CallsHeld, IdleUnanswered, ConnectBacked, Calls, calls
<1>4. AttemptAttended'
  BY DEF TypeOK, AttemptAttended, Waiting, Calls, calls
<1> QED
  BY <1>1, <1>2, <1>3, <1>4

(* did_connect and did_fail_to_connect, with a delegate or without. *)
LEMMA AnswerStep ==
  ASSUME IndInv, NEW p \in Peripherals, DidConnect(p) \/ DidFailToConnect(p)
  PROVE  IndInv'
<1>1. CASE DidConnect(p)
  <2>1. CASE Alive(p)
    BY <1>1, <2>1, OutcomeStep DEF DidConnect, NewPeripheral, calls, ErrorKinds
  <2>2. CASE ~Alive(p)
    BY <1>1, <2>2, UnwrapStep DEF DidConnect, NewPeripheral, calls
  <2> QED
    BY <2>1, <2>2
<1>2. CASE DidFailToConnect(p)
  <2>1. CASE Alive(p)
    <3>1. PICK nserror \in {{}} \union {{e} : e \in NSErrors} :
            /\ link' = [link EXCEPT ![p] = "disconnected"]
            /\ owed' = owed \ {p}
            /\ error' = [c \in ConnectCalls |->
                           IF c = connecting[p] /\ Waiting(c, p)
                             THEN {AsyncKind(FromError(ConnectError(nserror)))} ELSE error[c]]
            /\ TakeSender(p, "error")
            /\ UNCHANGED <<phase, target, inbox, held, panic, closing, auto, withdrawnBy>>
      BY <1>2, <2>1 DEF DidFailToConnect, NewPeripheral
    <3> QED
      BY <3>1, OutcomeStep, ConnectErrorKind
  <2>2. CASE ~Alive(p)
    BY <1>2, <2>2, UnwrapStep DEF DidFailToConnect, NewPeripheral
  <2> QED
    BY <2>1, <2>2
<1> QED
  BY <1>1, <1>2

(* What both callbacks do to connect calls, if they do anything. *)
LEMMA AnswerSettles ==
  ASSUME NEW p \in Peripherals, DidConnect(p) \/ DidFailToConnect(p)
  PROVE  /\ UNCHANGED <<phase, target, withdrawnBy>>
         /\ \/ \E v \in {"ok", "error"} : TakeSender(p, v)
            \/ UNCHANGED <<error, outcome, connecting>>
BY DEF DidConnect, DidFailToConnect, calls

(* An ANCS update tells no call anything, and what a call borrows is not   *)
(* let go.                                                                 *)
LEMMA HoldStep ==
  ASSUME IndInv, NEW p \in Peripherals, DidUpdateANCS(p) \/ Obtain(p) \/ LetGo(p)
  PROVE  IndInv'
<1> USE DEF IndInv, DidUpdateANCS, Obtain, LetGo, NewPeripheral, calls, peripheral
<1>1. TypeOK'
  BY DEF TypeOK
<1>2. CallsTargeted' /\ IdleUnanswered' /\ ConnectBacked' /\ AttemptAttended' /\ CancelBacked'
  BY DEF CallsTargeted, IdleUnanswered, ConnectBacked, AttemptAttended, CancelBacked, Waiting
<1>3. CallsHeld'
  BY DEF CallsHeld, Waiting
<1> QED
  BY <1>1, <1>2, <1>3

-----------------------------------------------------------------------------
(* The invariant holds in every behaviour. *)
THEOREM Invariance == Spec => []IndInv
<1>1. IndInv /\ [Next]_vars => IndInv'
  <2> SUFFICES ASSUME IndInv, [Next]_vars
               PROVE  IndInv'
    OBVIOUS
  <2>1. ASSUME NEW c \in ConnectCalls,
               Connect(c) \/ FinishConnect(c) \/ FailConnect(c) \/ DropConnect(c)
        PROVE  IndInv'
    BY <2>1, ConnectStep, FinishConnectStep, FailConnectStep, DropConnectStep
  <2>2. ASSUME NEW x \in CancelCalls,
               Cancel(x) \/ ReadDisconnects(x) \/ ReachUnreachable(x) \/ DropCancel(x)
        PROVE  IndInv'
    BY <2>2, CancelStep, ReadDisconnectsStep, ReachUnreachableStep, DropCancelStep
  <2>3. ASSUME NEW p \in Peripherals, DidConnect(p) \/ DidFailToConnect(p)
        PROVE  IndInv'
    BY <2>3, AnswerStep
  <2>4. ASSUME NEW p \in Peripherals,
               Closed(p) \/ LinkLost(p) \/ DidUpdateANCS(p) \/ Obtain(p) \/ LetGo(p)
        PROVE  IndInv'
    BY <2>4, ClosedStep, LinkLostStep, HoldStep
  <2>5. CASE UNCHANGED vars
    BY <2>5 DEF vars, IndInv, TypeOK, CallsTargeted, CallsHeld, IdleUnanswered, ConnectBacked,
       AttemptAttended, Waiting, CancelBacked
  <2> QED
    BY <2>1, <2>2, <2>3, <2>4, <2>5 DEF Next
<1> QED
  BY <1>1, InitInv, PTL DEF Spec

(* The variables keep their types, whatever the capacity of the channel. *)
THEOREM TypeCorrect == Spec => []TypeOK
BY Invariance, PTL DEF IndInv

(* A connect call that waits has its sender where a callback finds it, and *)
(* an answer due, unless its attempt was withdrawn.                        *)
THEOREM ConnectsBacked == Spec => []ConnectBacked
BY Invariance, PTL DEF IndInv

(* A cancel call never misses the disconnection it waits for, except       *)
(* through a lag, of which its inbox tells.                                *)
THEOREM CancelsBacked == Spec => []CancelBacked
BY Invariance, PTL DEF IndInv

(* When the last connect call on a peripheral ends, no attempt of its own  *)
(* goes on, since an attempt under way is one that a call waits for.       *)
THEOREM NoneLeftBehind == Spec => NoAttemptLeftBehind
<1> DEFINE Left ==
      \A p \in Peripherals :
        /\ \E c \in ConnectCalls : Waiting(c, p)
        /\ ~\E c \in ConnectCalls : Waiting(c, p)'
        => link'[p] # "connecting" \/ p \in auto'
<1>1. IndInv' => Left
  BY DEF IndInv, AttemptAttended
<1> QED
  BY <1>1, Invariance, PTL DEF Spec, NoAttemptLeftBehind

(* An attempt under way is one that a call waits for, and a call that      *)
(* waits has a Peripheral, unless CoreBluetooth makes it by itself.        *)
THEOREM AttemptsKeepDelegates == Spec => []AttemptKeepsDelegate
<1>1. IndInv => AttemptKeepsDelegate
  BY DEF IndInv, AttemptAttended, AttemptKeepsDelegate, CallsHeld, Calls, Waiting, Alive
<1> QED
  BY <1>1, Invariance, PTL

(* A connection comes about by an attempt, which unless it is automatic is *)
(* one that a call waits for, with its sender in the map.                  *)
THEOREM ConnectionsTold == Spec => ConnectionTold
<1> DEFINE Told ==
      \A p \in Peripherals \ auto :
        link[p] # "connected" /\ link'[p] = "connected" =>
          \E c \in ConnectCalls :
            Waiting(c, p) /\ outcome[c] = "none" /\ outcome'[c] = "ok"
<1>1. IndInv /\ [Next]_vars => Told
  <2> SUFFICES ASSUME IndInv, [Next]_vars, NEW p \in Peripherals, p \notin auto,
                      link[p] # "connected", link'[p] = "connected"
               PROVE  \E c \in ConnectCalls :
                        Waiting(c, p) /\ outcome[c] = "none" /\ outcome'[c] = "ok"
    OBVIOUS
  <2>1. CASE DidConnect(p)
    <3>1. link[p] = "connecting"
      BY <2>1 DEF DidConnect
    <3>2. PICK c \in ConnectCalls : Waiting(c, p) /\ outcome[c] = "none"
      BY <3>1 DEF IndInv, AttemptAttended
    <3>3. connecting[p] = c
      BY <3>2 DEF IndInv, ConnectBacked, Waiting
    <3>4. Alive(p)
      BY <3>2 DEF IndInv, CallsHeld, Calls, Waiting, Alive
    <3>5. outcome'[c] = "ok"
      BY <2>1, <3>2, <3>3, <3>4 DEF DidConnect, TakeSender, Settle
    <3> QED
      BY <3>2, <3>5
  <2>2. ASSUME NEW q \in Peripherals, DidConnect(q), q # p
        PROVE  FALSE
    BY <2>2 DEF DidConnect, IndInv, TypeOK
  <2>3. ASSUME NEW q \in Peripherals,
               \/ DidFailToConnect(q) \/ Closed(q) \/ LinkLost(q)
               \/ DidUpdateANCS(q) \/ Obtain(q) \/ LetGo(q)
        PROVE  FALSE
    BY <2>3 DEF DidFailToConnect, Closed, LinkLost, DidUpdateANCS, Obtain, LetGo, peripheral,
                IndInv, TypeOK
  <2>4. ASSUME NEW c \in ConnectCalls,
               Connect(c) \/ FinishConnect(c) \/ FailConnect(c) \/ DropConnect(c)
        PROVE  FALSE
    BY <2>4 DEF Connect, CBConnect, FinishConnect, FailConnect, DropConnect, Guard, CBCancel,
                peripheral, IndInv, TypeOK
  <2>5. ASSUME NEW x \in CancelCalls,
               Cancel(x) \/ ReadDisconnects(x) \/ ReachUnreachable(x) \/ DropCancel(x)
        PROVE  FALSE
    BY <2>5 DEF Cancel, CBCancel, ReadDisconnects, ReachUnreachable, DropCancel, peripheral,
                IndInv, TypeOK
  <2>6. ~UNCHANGED vars
    BY DEF vars
  <2> QED
    BY <2>1, <2>2, <2>3, <2>4, <2>5, <2>6 DEF Next
<1> QED
  BY <1>1, Invariance, PTL DEF Spec, ConnectionTold

(* A call is canceled, or has failed with Canceled, only if there is       *)
(* another on its peripheral.                                              *)
Overtaken ==
  \A c \in ConnectCalls :
    outcome[c] = "canceled" \/ Canceled \in error[c] =>
      \E d \in ConnectCalls \ {c} : phase[d] # "idle" /\ target[d] = target[c]

LEMMA OvertakenStep ==
  ASSUME IndInv, Overtaken, [Next]_vars
  PROVE  Overtaken'
<1> USE ConnectionsAssumption DEF IndInv
<1>1. ASSUME UNCHANGED <<outcome, target>>, \A c \in ConnectCalls : Canceled \in error'[c] =>
               Canceled \in error[c] \/ outcome[c] = "canceled",
             \A c \in Calls : phase[c] # "idle" => phase'[c] # "idle"
      PROVE  Overtaken'
  BY <1>1 DEF Overtaken, Calls
<1>2. ASSUME NEW c \in ConnectCalls, Connect(c)
      PROVE  Overtaken'
  <2>1. PICK p \in Peripherals :
          /\ phase[c] = "idle"
          /\ RegisterConnecting(c, p)
          /\ phase' = [phase EXCEPT ![c] = "awaiting"]
          /\ target' = [target EXCEPT ![c] = p]
          /\ UNCHANGED error
    BY <1>2 DEF Connect
  <2>2. SUFFICES ASSUME NEW b \in ConnectCalls, outcome'[b] = "canceled" \/ Canceled \in error'[b]
                 PROVE  \E d \in ConnectCalls \ {b} : phase'[d] # "idle" /\ target'[d] = target'[b]
    BY DEF Overtaken
  <2>3. b # c
    BY <2>1, <2>2 DEF IdleUnanswered, RegisterConnecting, Settle, Waiting, TypeOK
  <2>4. target'[b] = target[b] /\ target'[c] = p /\ phase'[c] # "idle"
    BY <2>1, <2>3 DEF TypeOK, Calls
  <2>5. CASE Waiting(b, p)
    BY <2>3, <2>4, <2>5 DEF Waiting
  <2>6. CASE ~Waiting(b, p)
    <3>1. outcome[b] = "canceled" \/ Canceled \in error[b]
      BY <2>1, <2>2, <2>6 DEF RegisterConnecting, Settle
    <3>2. PICK d \in ConnectCalls \ {b} : phase[d] # "idle" /\ target[d] = target[b]
      BY <3>1 DEF Overtaken
    <3>3. d # c /\ phase'[d] # "idle" /\ target'[d] = target[d]
      BY <2>1, <3>2 DEF TypeOK, Calls
    <3> QED
      BY <2>4, <3>2, <3>3
  <2> QED
    BY <2>5, <2>6
<1>3. ASSUME NEW c \in ConnectCalls, FailConnect(c)
      PROVE  Overtaken'
  BY <1>1, <1>3 DEF FailConnect, TypeOK, Calls
<1>4. ASSUME NEW c \in ConnectCalls, FinishConnect(c) \/ DropConnect(c)
      PROVE  Overtaken'
  BY <1>1, <1>4 DEF FinishConnect, DropConnect, TypeOK, Calls
<1>5. ASSUME NEW x \in CancelCalls, Cancel(x)
      PROVE  Overtaken'
  <2>1. /\ \A c \in ConnectCalls : target'[c] = target[c] /\ phase'[c] = phase[c]
        /\ UNCHANGED <<outcome, error>>
    BY <1>5 DEF Cancel, TypeOK, Calls
  <2> QED
    BY <2>1 DEF Overtaken
<1>6. ASSUME NEW x \in CancelCalls, ReadDisconnects(x) \/ ReachUnreachable(x) \/ DropCancel(x)
      PROVE  Overtaken'
  BY <1>1, <1>6 DEF ReadDisconnects, ReachUnreachable, DropCancel, calls, TypeOK, Calls
<1>7. ASSUME NEW p \in Peripherals, DidConnect(p) \/ DidFailToConnect(p)
      PROVE  Overtaken'
  <2>1. UNCHANGED <<phase, target>>
    BY <1>7, AnswerSettles
  <2>2. \A c \in ConnectCalls : outcome'[c] = "canceled" => outcome[c] = "canceled"
    BY <1>7, AnswerSettles DEF TakeSender, Settle
  <2>3. \A c \in ConnectCalls : Canceled \in error'[c] => Canceled \in error[c]
    <3>1. CASE DidConnect(p)
      BY <3>1 DEF DidConnect, calls
    <3>2. CASE DidFailToConnect(p)
      <4>1. PICK nserror \in {{}} \union {{e} : e \in NSErrors} :
              error' \in {error, [c \in ConnectCalls |->
                         IF c = connecting[p] /\ Waiting(c, p)
                           THEN {AsyncKind(FromError(ConnectError(nserror)))} ELSE error[c]]}
        BY <3>2 DEF DidFailToConnect
      <4>2. AsyncKind(FromError(ConnectError(nserror))) # Canceled
        BY ConnectErrorKind, CanceledIsOwn
      <4> QED
        BY <4>1, <4>2
    <3> QED
      BY <1>7, <3>1, <3>2
  <2> QED
    BY <2>1, <2>2, <2>3 DEF Overtaken
<1>8. ASSUME NEW p \in Peripherals,
             Closed(p) \/ LinkLost(p) \/ DidUpdateANCS(p) \/ Obtain(p) \/ LetGo(p)
      PROVE  Overtaken'
  BY <1>1, <1>8 DEF Closed, LinkLost, DidUpdateANCS, Obtain, LetGo, calls
<1>9. CASE UNCHANGED vars
  BY <1>1, <1>9 DEF vars
<1> QED
  BY <1>2, <1>3, <1>4, <1>5, <1>6, <1>7, <1>8, <1>9 DEF Next

(* Canceled comes of the loss of a sender, and a sender is lost only to    *)
(* another call's.                                                         *)
THEOREM CanceledMeansOvertaken == Spec => []CanceledIsOvertaken
<1>1. Init => Overtaken
  BY DEF Init, Overtaken
<1>2. Overtaken => CanceledIsOvertaken
  BY DEF Overtaken, CanceledIsOvertaken
<1> QED
  BY <1>1, <1>2, OvertakenStep, Invariance, PTL DEF Spec

-----------------------------------------------------------------------------
(* The promise of OneShotCalls.                                            *)

(* A sender in the map is that of a call on the peripheral it is kept for, *)
(* and has sent nothing.                                                   *)
SendersUnused ==
  \A p \in Peripherals :
    connecting[p] # None =>
      /\ phase[connecting[p]] # "idle"
      /\ target[connecting[p]] = p
      /\ outcome[connecting[p]] = "none"

(* Senders enter the map with their calls, and leave it as they are used.  *)
LEMMA SendersUnusedStep ==
  ASSUME IndInv, SendersUnused, [Next]_vars
  PROVE  SendersUnused'
<1> USE ConnectionsAssumption DEF IndInv
<1>1. ASSUME UNCHANGED <<connecting, outcome>>,
             \A c \in ConnectCalls :
               phase[c] # "idle" => phase'[c] # "idle" /\ target'[c] = target[c]
      PROVE  SendersUnused'
  BY <1>1 DEF SendersUnused, TypeOK
<1>2. ASSUME NEW c \in ConnectCalls, Connect(c)
      PROVE  SendersUnused'
  <2>1. PICK p \in Peripherals :
          /\ phase[c] = "idle"
          /\ RegisterConnecting(c, p)
          /\ phase' = [phase EXCEPT ![c] = "awaiting"]
          /\ target' = [target EXCEPT ![c] = p]
    BY <1>2 DEF Connect
  <2> SUFFICES ASSUME NEW q \in Peripherals, connecting'[q] # None
               PROVE  /\ phase'[connecting'[q]] # "idle"
                      /\ target'[connecting'[q]] = q
                      /\ outcome'[connecting'[q]] = "none"
    BY DEF SendersUnused
  <2>2. connecting[p] # c
    BY <2>1 DEF SendersUnused, Calls
  <2>3. CASE q = p
    <3>1. connecting'[q] = c
      BY <2>1, <2>3 DEF RegisterConnecting, TypeOK
    <3>2. outcome'[c] = "none"
      BY <2>1, <2>2 DEF RegisterConnecting, Settle, IdleUnanswered
    <3> QED
      BY <2>1, <2>3, <3>1, <3>2 DEF TypeOK, Calls
  <2>4. CASE q # p
    <3>1. connecting'[q] = connecting[q] /\ connecting[q] \in ConnectCalls
      BY <2>1, <2>4 DEF RegisterConnecting, TypeOK
    <3>2. connecting[q] # c /\ connecting[q] # connecting[p]
      BY <2>1, <2>4, <3>1 DEF SendersUnused
    <3>3. outcome'[connecting[q]] = "none"
      BY <2>1, <3>1, <3>2 DEF RegisterConnecting, Settle, SendersUnused
    <3> QED
      BY <2>1, <3>1, <3>2, <3>3 DEF SendersUnused, TypeOK, Calls
  <2> QED
    BY <2>3, <2>4
<1>3. ASSUME NEW c \in ConnectCalls, FinishConnect(c) \/ FailConnect(c) \/ DropConnect(c)
      PROVE  SendersUnused'
  BY <1>1, <1>3 DEF FinishConnect, FailConnect, DropConnect, TypeOK, Calls
<1>4. ASSUME NEW x \in CancelCalls,
             Cancel(x) \/ ReadDisconnects(x) \/ ReachUnreachable(x) \/ DropCancel(x)
      PROVE  SendersUnused'
  <2>1. UNCHANGED <<connecting, outcome>>
    BY <1>4 DEF Cancel, ReadDisconnects, ReachUnreachable, DropCancel
  <2>2. \A c \in ConnectCalls : phase'[c] = phase[c] /\ target'[c] = target[c]
    BY <1>4 DEF Cancel, ReadDisconnects, ReachUnreachable, DropCancel, calls, TypeOK, Calls
  <2> QED
    BY <1>1, <2>1, <2>2
<1>5. ASSUME NEW p \in Peripherals, DidConnect(p) \/ DidFailToConnect(p)
      PROVE  SendersUnused'
  <2>2. UNCHANGED <<phase, target>>
    BY <1>5, AnswerSettles
  <2>0. CASE UNCHANGED <<outcome, connecting>>
    BY <1>1, <2>0, <2>2
  <2>1. SUFFICES ASSUME NEW v \in {"ok", "error"}, TakeSender(p, v)
                 PROVE  SendersUnused'
    BY <1>5, <2>0, AnswerSettles
  <2> SUFFICES ASSUME NEW q \in Peripherals, connecting'[q] # None
               PROVE  /\ phase[connecting'[q]] # "idle"
                      /\ target[connecting'[q]] = q
                      /\ outcome'[connecting'[q]] = "none"
    BY <2>2 DEF SendersUnused
  <2>3. q # p /\ connecting'[q] = connecting[q] /\ connecting[q] \in ConnectCalls
    BY <2>1 DEF TakeSender, TypeOK
  <2>4. connecting[q] # connecting[p]
    BY <2>3 DEF SendersUnused
  <2>5. outcome'[connecting[q]] = "none"
    BY <2>1, <2>3, <2>4 DEF TakeSender, Settle, SendersUnused
  <2> QED
    BY <2>3, <2>5 DEF SendersUnused
<1>6. ASSUME NEW p \in Peripherals,
             Closed(p) \/ LinkLost(p) \/ DidUpdateANCS(p) \/ Obtain(p) \/ LetGo(p)
      PROVE  SendersUnused'
  BY <1>1, <1>6 DEF Closed, LinkLost, DidUpdateANCS, Obtain, LetGo, calls
<1>7. CASE UNCHANGED vars
  BY <1>1, <1>7 DEF vars
<1> QED
  BY <1>2, <1>3, <1>4, <1>5, <1>6, <1>7 DEF Next

(* What reaches the sender of p is what reaches the call that waits on p.  *)
LEMMA SettleGives ==
  ASSUME IndInv, SendersUnused, NEW p \in Peripherals, NEW v, Settle(p, v)
  PROVE  OneShot!Give(p, v)
<1>1. \A c \in ConnectCalls :
        (c = connecting[p] /\ Waiting(c, p)) <=> OneShot!Waits(c, p)
  BY ConnectionsAssumption
     DEF IndInv, ConnectBacked, SendersUnused, Waiting, OneShot!Waits, Calls
<1> QED
  BY <1>1 DEF Settle, OneShot!Give

(* Every step is one of OneShotCalls, or none of its concern. *)
LEMMA StepRefines ==
  ASSUME IndInv, SendersUnused, [Next]_vars
  PROVE  [OneShot!Next]_(OneShot!vars)
<1> USE ConnectionsAssumption DEF IndInv, OneShot!Next, OneShot!vars
<1>1. ASSUME UNCHANGED outcome,
             \A c \in ConnectCalls : phase'[c] = phase[c] /\ target'[c] = target[c]
      PROVE  UNCHANGED OneShot!vars
  BY <1>1
<1>2. ASSUME NEW c \in ConnectCalls, Connect(c)
      PROVE  OneShot!Next
  <2>1. PICK p \in Peripherals :
          /\ phase[c] = "idle"
          /\ RegisterConnecting(c, p)
          /\ phase' = [phase EXCEPT ![c] = "awaiting"]
          /\ target' = [target EXCEPT ![c] = p]
    BY <1>2 DEF Connect
  <2>2. OneShot!Give(p, "canceled")
    BY <2>1, SettleGives DEF RegisterConnecting
  <2>3. OneShot!Make(c, p)
    BY <2>1, <2>2 DEF OneShot!Make, TypeOK, Calls
  <2> QED
    BY <2>3
<1>3. ASSUME NEW c \in ConnectCalls, FinishConnect(c) \/ FailConnect(c)
      PROVE  OneShot!Next
  <2>1. OneShot!Return(c)
    BY <1>3 DEF FinishConnect, FailConnect, OneShot!Return, TypeOK, Calls
  <2> QED
    BY <2>1
<1>4. ASSUME NEW c \in ConnectCalls, DropConnect(c)
      PROVE  OneShot!Next
  <2>1. OneShot!Drop(c)
    BY <1>4 DEF DropConnect, OneShot!Drop, TypeOK, Calls
  <2> QED
    BY <2>1
<1>5. ASSUME NEW x \in CancelCalls,
             Cancel(x) \/ ReadDisconnects(x) \/ ReachUnreachable(x) \/ DropCancel(x)
      PROVE  UNCHANGED OneShot!vars
  <2>1. UNCHANGED outcome
    BY <1>5 DEF Cancel, ReadDisconnects, ReachUnreachable, DropCancel
  <2>2. \A c \in ConnectCalls : phase'[c] = phase[c] /\ target'[c] = target[c]
    BY <1>5 DEF Cancel, ReadDisconnects, ReachUnreachable, DropCancel, calls, TypeOK, Calls
  <2> QED
    BY <1>1, <2>1, <2>2
<1>6. ASSUME NEW p \in Peripherals, DidConnect(p) \/ DidFailToConnect(p)
      PROVE  OneShot!Next \/ UNCHANGED OneShot!vars
  <2>1. UNCHANGED <<phase, target>>
    BY <1>6, AnswerSettles
  <2>2. ASSUME NEW v \in {"ok", "error"}, TakeSender(p, v)
        PROVE  OneShot!Arrive(p, v)
    BY <2>1, <2>2, SettleGives DEF TakeSender, OneShot!Arrive
  <2>3. CASE UNCHANGED outcome
    BY <1>1, <2>1, <2>3
  <2> QED
    BY <1>6, <2>2, <2>3, AnswerSettles
<1>7. ASSUME NEW p \in Peripherals,
             Closed(p) \/ LinkLost(p) \/ DidUpdateANCS(p) \/ Obtain(p) \/ LetGo(p)
      PROVE  UNCHANGED OneShot!vars
  BY <1>1, <1>7 DEF Closed, LinkLost, DidUpdateANCS, Obtain, LetGo, calls
<1>8. CASE UNCHANGED vars
  BY <1>1, <1>8 DEF vars
<1> QED
  BY <1>2, <1>3, <1>4, <1>5, <1>6, <1>7, <1>8 DEF Next

(* The map never keeps a sender that has been used. *)
LEMMA SendersStayUnused == Spec => []SendersUnused
<1>1. Init => SendersUnused
  BY DEF Init, SendersUnused
<1> QED
  BY <1>1, SendersUnusedStep, Invariance, PTL DEF Spec

(* connect, with the guards that withdraw attempts and the disconnections  *)
(* that end them unanswered, keeps the promise of OneShotCalls.            *)
THEOREM ImplementsOneShot == Spec => OneShotSpec
<1>1. Init => OneShot!Init
  BY DEF Init, OneShot!Init, Calls
<1> QED
  BY <1>1, StepRefines, SendersStayUnused, Invariance, PTL DEF Spec, OneShotSpec, OneShot!Spec

(* The theorems about OneShotCalls, of the connect calls. *)
CallFacts == INSTANCE OneShotCallsProofs WITH
               Calls <- ConnectCalls, Keys <- Peripherals, Outcomes <- {"ok", "error"},
               Unset <- "none", Canceled <- "canceled", NoKey <- None,
               phase <- [c \in ConnectCalls |-> phase[c]],
               key <- [c \in ConnectCalls |-> target[c]]

(* So is connect an instance of what the theorems are about. *)
LEMMA ImplementsCalls == CallFacts!ValuesDistinct /\ (Spec => CallFacts!Spec)
<1>1. CallFacts!ValuesDistinct
  BY DEF CallFacts!ValuesDistinct
<1>2. OneShot!Init => CallFacts!Init
  BY DEF OneShot!Init, CallFacts!Init
<1>3. [OneShot!Next]_(OneShot!vars) => [CallFacts!Next]_(CallFacts!vars)
  BY DEF OneShot!Next, OneShot!vars, CallFacts!Next, CallFacts!vars,
     OneShot!Make, CallFacts!Make, OneShot!Arrive, CallFacts!Arrive,
     OneShot!Return, CallFacts!Return, OneShot!Drop, CallFacts!Drop,
     OneShot!Give, CallFacts!Give, OneShot!Waits, CallFacts!Waits
<1> QED
  BY <1>1, <1>2, <1>3, ImplementsOneShot, PTL DEF OneShotSpec, OneShot!Spec, CallFacts!Spec

(* A connection made, or a failure, is told to one call only. *)
THEOREM OneCallWaits == Spec => []OneShot!OneWaiter
<1>1. CallFacts!OneWaiter => OneShot!OneWaiter
  BY DEF CallFacts!OneWaiter, OneShot!OneWaiter, CallFacts!Waits, OneShot!Waits
<1> QED
  BY <1>1, ImplementsCalls, CallFacts!OneTaker, PTL

(* A call that was told of a connection is not told otherwise later: not   *)
(* by a failure, nor by a call that comes after it.                        *)
THEOREM OutcomesStay == Spec => OneShot!OutcomeStays
<1>1. CallFacts!OutcomeStays => OneShot!OutcomeStays
  BY PTL DEF CallFacts!OutcomeStays, OneShot!OutcomeStays, CallFacts!vars, OneShot!vars
<1> QED
  BY <1>1, ImplementsCalls, CallFacts!OutcomesStay, PTL

-----------------------------------------------------------------------------
(* Callers that take turns, and callers that are quick.                    *)

(* One connect call waits on a peripheral at a time. *)
TakeTurns ==
  \A c, d \in ConnectCalls :
    phase[c] = "awaiting" /\ phase[d] = "awaiting" /\ target[c] = target[d] => c = d

(* No call is overtaken, and none undone by one that was.                  *)
NoneOvertaken ==
  /\ \A c \in ConnectCalls : outcome[c] # "canceled"
  /\ NotUndoneByOvertaken

(* So it is if callers take turns: what undoes an attempt that somebody    *)
(* waits for is then a cancel call.                                        *)
THEOREM TurnsNotUndone == Spec /\ []TakeTurns => []NoneOvertaken
<1> USE ConnectionsAssumption
<1>1. Init => NoneOvertaken
  BY DEF Init, NoneOvertaken, NotUndoneByOvertaken
<1>2. IndInv /\ SendersUnused /\ TakeTurns' /\ NoneOvertaken /\ [Next]_vars => NoneOvertaken'
  <2> SUFFICES ASSUME IndInv, SendersUnused, TakeTurns', NoneOvertaken, [Next]_vars
               PROVE  NoneOvertaken'
    OBVIOUS
  <2>0. TypeOK
    BY DEF IndInv
  <2>1. ASSUME NEW c \in ConnectCalls, Connect(c)
        PROVE  NoneOvertaken'
    <3>1. PICK p \in Peripherals :
            /\ phase[c] = "idle"
            /\ RegisterConnecting(c, p)
            /\ phase' = [phase EXCEPT ![c] = "awaiting"]
            /\ target' = [target EXCEPT ![c] = p]
            /\ UNCHANGED withdrawnBy
      BY <2>1 DEF Connect
    <3>2. ASSUME NEW d \in ConnectCalls, Waiting(d, p)
          PROVE  FALSE
      <4>1. d # c
        BY <3>1, <3>2 DEF Waiting
      <4>2. Waiting(d, p)' /\ Waiting(c, p)'
        BY <4>1, <3>1, <3>2, <2>0 DEF Waiting, TypeOK, Calls
      <4> QED
        BY <4>1, <4>2 DEF TakeTurns, Waiting
    <3>3. outcome' = [d \in ConnectCalls |->
                        IF d = connecting[p] /\ Waiting(d, p) THEN "canceled" ELSE outcome[d]]
      BY <3>1 DEF RegisterConnecting, Settle
    <3>4. \A d \in ConnectCalls : outcome'[d] = outcome[d]
      BY <3>2, <3>3
    <3> QED
      BY <3>1, <3>4 DEF NoneOvertaken, NotUndoneByOvertaken
  <2>2. ASSUME NEW c \in ConnectCalls, FailConnect(c)
        PROVE  FALSE
    BY <2>2 DEF FailConnect, NoneOvertaken
  <2>3. ASSUME NEW c \in ConnectCalls, DropConnect(c)
        PROVE  NoneOvertaken'
    <3>1. UNCHANGED outcome /\ Guard(target[c], "drop")
      BY <2>3 DEF DropConnect
    <3> QED
      BY <3>1 DEF Guard, Withdrawn, NoneOvertaken, NotUndoneByOvertaken
  <2>4. ASSUME NEW x \in CancelCalls, Cancel(x)
        PROVE  NoneOvertaken'
    BY <2>4 DEF Cancel, Withdrawn, NoneOvertaken, NotUndoneByOvertaken
  <2>5. ASSUME NEW p \in Peripherals, DidConnect(p) \/ DidFailToConnect(p)
        PROVE  NoneOvertaken'
    <3>1. UNCHANGED withdrawnBy
      BY <2>5, AnswerSettles
    <3>2. UNCHANGED outcome \/ \E v \in {"ok", "error"} : TakeSender(p, v)
      BY <2>5, AnswerSettles
    <3> QED
      BY <3>1, <3>2 DEF TakeSender, Settle, NoneOvertaken, NotUndoneByOvertaken
  <2>6. CASE UNCHANGED <<outcome, withdrawnBy>>
    BY <2>6 DEF NoneOvertaken, NotUndoneByOvertaken
  <2> QED
    BY <2>1, <2>2, <2>3, <2>4, <2>5, <2>6 DEF Next, FinishConnect, ReadDisconnects,
       ReachUnreachable, DropCancel, Closed, LinkLost, DidUpdateANCS, Obtain, LetGo, vars
<1> QED
  BY <1>1, <1>2, SendersStayUnused, Invariance, PTL DEF Spec

(* Every cancel call reads its disconnections before its channel is full.  *)
ReadInTime == \A x \in CancelCalls : Len(inbox[x].queue) < DisconnectCap

(* unreachable!() is reached only by one that does not. *)
THEOREM AbortsOnlyOverrun == Spec /\ []ReadInTime => []NeverUnreachable
<1> DEFINE NoLag == NeverUnreachable /\ \A x \in CancelCalls : ~inbox[x].lagged
<1>1. Init => NoLag
  BY DEF Init, NeverUnreachable, EmptyInbox
<1>2. TypeOK /\ ReadInTime /\ NoLag /\ [Next]_vars => NoLag'
  <2> SUFFICES ASSUME TypeOK, ReadInTime, NoLag, [Next]_vars
               PROVE  NoLag'
    OBVIOUS
  <2>1. ASSUME NEW x \in CancelCalls, ReachUnreachable(x)
        PROVE  FALSE
    BY <2>1 DEF ReachUnreachable
  <2>2. ASSUME NEW x \in CancelCalls, ReadDisconnects(x) \/ DropCancel(x)
        PROVE  NoLag'
    BY <2>2 DEF ReadDisconnects, DropCancel, EmptyInbox, NeverUnreachable, TypeOK
  <2>3. ASSUME NEW p \in Peripherals, Closed(p) \/ LinkLost(p)
        PROVE  NoLag'
    <3>1. /\ panic' \in {panic, "delegate"}
          /\ BroadcastDisconnect(p) \/ UNCHANGED inbox
      BY <2>3 DEF Closed, LinkLost, NewPeripheral
    <3>2. ASSUME NEW x \in CancelCalls
          PROVE  ~inbox'[x].lagged
      <4>1. /\ inbox[x] \in Inboxes(Peripherals)
            /\ Len(inbox[x].queue) < DisconnectCap
            /\ DisconnectCap \in Nat \ {0}
            /\ ~inbox[x].lagged
        BY ConnectionsAssumption DEF TypeOK, ReadInTime
      <4>2. Offer(inbox[x], p, DisconnectCap).lagged = inbox[x].lagged
        BY <4>1, OfferWithRoom
      <4>3. inbox'[x] \in {inbox[x], Offer(inbox[x], p, DisconnectCap)}
        BY <3>1 DEF BroadcastDisconnect
      <4> QED
        BY <4>1, <4>2, <4>3
    <3> QED
      BY <3>1, <3>2 DEF NeverUnreachable
  <2>4. CASE UNCHANGED inbox /\ panic' \in {panic, "delegate"}
    BY <2>4 DEF NeverUnreachable
  <2> QED
    BY <2>1, <2>2, <2>3, <2>4 DEF Next, Connect, FinishConnect, FailConnect, DropConnect, Cancel,
       DidConnect, DidFailToConnect, DidUpdateANCS, Obtain, LetGo, NewPeripheral, calls, vars
<1> QED
  BY <1>1, <1>2, TypeCorrect, PTL DEF Spec

(* The caller keeps a Peripheral of whatever is connected, is about to be  *)
(* reported disconnected, or is being connected again automatically.       *)
LinksHeld ==
  \A p \in Peripherals :
    link[p] = "connected" \/ p \in closing \/ (link[p] = "connecting" /\ p \in auto) => p \in held

(* No callback has found the delegate of its peripheral gone. *)
DelegateFound == panic # "delegate"

(* If those are held, none does: the attempts of calls need no such care. *)
THEOREM CallbacksSafeIfHeld == Spec /\ []LinksHeld => []DelegateFound
<1>1. Init => DelegateFound
  BY DEF Init, DelegateFound
<1>2. IndInv /\ LinksHeld /\ DelegateFound /\ [Next]_vars => DelegateFound'
  <2> SUFFICES ASSUME IndInv, LinksHeld, panic # "delegate", [Next]_vars
               PROVE  panic' # "delegate"
    BY DEF DelegateFound
  <2>1. ASSUME NEW p \in Peripherals,
               p \in closing \/ link[p] = "connecting" \/ link[p] = "connected"
        PROVE  Alive(p)
    <3>1. CASE link[p] = "connecting" /\ p \notin auto
      BY <3>1 DEF IndInv, AttemptAttended, CallsHeld, Calls, Waiting, Alive
    <3> QED
      BY <2>1, <3>1 DEF LinksHeld, Alive
  <2>2. ASSUME NEW p \in Peripherals,
               \/ DidConnect(p) \/ DidFailToConnect(p) \/ Closed(p) \/ LinkLost(p) \/ DidUpdateANCS(p)
        PROVE  panic' # "delegate"
    <3>1. NewPeripheral(p) /\ (p \in closing \/ link[p] = "connecting" \/ link[p] = "connected")
      BY <2>2 DEF DidConnect, DidFailToConnect, Closed, LinkLost, DidUpdateANCS
    <3> QED
      BY <2>1, <3>1 DEF NewPeripheral
  <2>3. ASSUME NEW x \in CancelCalls, ReachUnreachable(x)
        PROVE  panic' # "delegate"
    BY <2>3 DEF ReachUnreachable
  <2>4. ASSUME NEW c \in ConnectCalls,
               Connect(c) \/ FinishConnect(c) \/ FailConnect(c) \/ DropConnect(c)
        PROVE  panic' # "delegate"
    BY <2>4 DEF Connect, FinishConnect, FailConnect, DropConnect
  <2>5. ASSUME NEW x \in CancelCalls, Cancel(x) \/ ReadDisconnects(x) \/ DropCancel(x)
        PROVE  panic' # "delegate"
    BY <2>5 DEF Cancel, ReadDisconnects, DropCancel
  <2>6. ASSUME NEW p \in Peripherals, Obtain(p) \/ LetGo(p)
        PROVE  panic' # "delegate"
    BY <2>6 DEF Obtain, LetGo
  <2>7. CASE UNCHANGED vars
    BY <2>7 DEF vars
  <2> QED
    BY <2>2, <2>3, <2>4, <2>5, <2>6, <2>7 DEF Next
<1> QED
  BY <1>1, <1>2, Invariance, PTL DEF Spec
=============================================================================
