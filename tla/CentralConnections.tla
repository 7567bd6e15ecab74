------------------------- MODULE CentralConnections -------------------------
(***************************************************************************)
(* Connections of CentralManagerAsync: connect, which withdraws its        *)
(* attempt when its future is dropped early, and                           *)
(* cancel_peripheral_connection, which reads the broadcast of              *)
(* disconnections until its own comes.                                     *)
(*                                                                         *)
(* Every action is one block of the serial dispatch queue: a poll, the     *)
(* drop of a future, or a CoreBluetooth event, which changes the state of  *)
(* a peripheral and calls the delegate.  The callback makes a Peripheral   *)
(* from what it is called with, and for that needs the delegate of the     *)
(* peripheral, which lives as long as some other Peripheral does.          *)
(***************************************************************************)
EXTENDS EventInbox, ErrorKinds

CONSTANTS
  Peripherals,
  ConnectCalls,   \* calls of connect_with_options, each used once
  CancelCalls,    \* calls of cancel_peripheral_connection, each used once
  DisconnectCap,  \* capacity of the broadcast of disconnections; 16 in the code
  None            \* no peripheral; no sender

Calls == ConnectCalls \union CancelCalls

ASSUME ConnectionsAssumption ==
  /\ ConnectCalls \intersect CancelCalls = {}
  /\ None \notin Calls \union Peripherals
  /\ DisconnectCap \in Nat \ {0}

VARIABLES
  phase,      \* call |-> "idle", "awaiting", "returned" or "dropped"
  target,     \* call |-> its peripheral
  outcome,    \* connect |-> its channel: "none", "ok", "error" or "canceled"
  error,      \* connect |-> the kind of the Error it has got: {} or one
  connecting, \* peripheral |-> the connect call whose sender is in the map
  inbox,      \* cancel |-> disconnections it has not read, by peripheral
  held,       \* peripherals of which the caller holds a Peripheral
  panic,      \* what ended the program: "none", "unreachable", "delegate"
  link,       \* peripheral |-> its state()
  closing,    \* peripherals whose disconnection is to be reported
  owed,       \* peripherals CoreBluetooth owes a did_connect or did_fail_to_connect
  auto,       \* peripherals connected with automatic reconnection
  withdrawnBy \* connect |-> who withdrew its attempt while it waited, or "none"

calls == <<phase, target, error>>
peripheral == <<link, closing, owed, auto>>
vars == <<phase, target, outcome, error, connecting, inbox, held, panic,
          link, closing, owed, auto, withdrawnBy>>

Init ==
  /\ phase = [c \in Calls |-> "idle"]
  /\ target = [c \in Calls |-> None]
  /\ outcome = [c \in ConnectCalls |-> "none"]
  /\ error = [c \in ConnectCalls |-> {}]
  /\ connecting = [p \in Peripherals |-> None]
  /\ inbox = [x \in CancelCalls |-> EmptyInbox]
  /\ held = {}
  /\ panic = "none"
  /\ link = [p \in Peripherals |-> "disconnected"]
  /\ closing = {}
  /\ owed = {}
  /\ auto = {}
  /\ withdrawnBy = [c \in ConnectCalls |-> "none"]

Waiting(c, p) == phase[c] = "awaiting" /\ target[c] = p

-----------------------------------------------------------------------------
(* Peripherals, and the callbacks' need of one.                            *)

(* A Peripheral of p is alive, the caller's or in an event not yet read,   *)
(* and so is the delegate of p.                                            *)
Alive(p) ==
  p \in held \/ \E x \in CancelCalls : \E i \in DOMAIN inbox[x].queue : inbox[x].queue[i] = p

(* Peripheral::new, in each callback, unwraps the delegate of p. *)
NewPeripheral(p) == panic' = IF Alive(p) THEN panic ELSE "delegate"

(* The caller comes by a Peripheral: a discovery, or retrieval. *)
Obtain(p) ==
  /\ held' = held \union {p}
  /\ UNCHANGED <<calls, outcome, connecting, inbox, panic, peripheral, withdrawnBy>>

(* The caller's last is dropped.  A call borrows the one it is given. *)
LetGo(p) ==
  /\ p \in held
  /\ ~\E c \in Calls : Waiting(c, p)
  /\ held' = held \ {p}
  /\ UNCHANGED <<calls, outcome, connecting, inbox, panic, peripheral, withdrawnBy>>

-----------------------------------------------------------------------------
(* CoreBluetooth's commands.                                               *)

(* connectPeripheral: pending until the peripheral is found, or confirmed  *)
(* at once if it is connected.                                             *)
CBConnect(p, reconnect) ==
  /\ link' = [link EXCEPT ![p] = IF @ = "connected" THEN @ ELSE "connecting"]
  /\ owed' = owed \union {p}
  /\ auto' = IF reconnect THEN auto \union {p} ELSE auto \ {p}
  /\ UNCHANGED closing

(* cancelPeripheralConnection: an attempt ends without a callback, a       *)
(* connection with did_disconnect.                                         *)
CBCancel(p) ==
  /\ closing' = closing \union (IF link[p] = "connected" THEN {p} ELSE {})
  /\ link' = [link EXCEPT ![p] = IF p \in closing' THEN "disconnecting" ELSE "disconnected"]
  /\ owed' = owed \ {p}
  /\ auto' = auto \ {p}

(* The call that waits for an attempt, as it is withdrawn. *)
Withdrawn(p, who) ==
  withdrawnBy' = [c \in ConnectCalls |->
                    IF c = connecting[p] /\ Waiting(c, p) THEN who ELSE withdrawnBy[c]]

-----------------------------------------------------------------------------
(* connect_with_options.                                                   *)

(* The outcome v reaches the call whose sender is in the map under p. *)
Settle(p, v) ==
  outcome' = [c \in ConnectCalls |->
                IF c = connecting[p] /\ Waiting(c, p) THEN v ELSE outcome[c]]

(* Mutant of RegisterConnecting: a sender already there is kept. *)
RegisterIfVacant(c, p) ==
  /\ UNCHANGED outcome
  /\ connecting' = [connecting EXCEPT ![p] = IF @ = None THEN c ELSE @]

(* register_connecting: a sender there is dropped. *)
RegisterConnecting(c, p) ==
  /\ Settle(p, "canceled")
  /\ connecting' = [connecting EXCEPT ![p] = c]

(* First poll. *)
Connect(c) ==
  \E p \in Peripherals, reconnect \in BOOLEAN :
    /\ phase[c] = "idle" /\ p \in held
    /\ CBConnect(p, reconnect)
    /\ RegisterConnecting(c, p)
    /\ phase' = [phase EXCEPT ![c] = "awaiting"]
    /\ target' = [target EXCEPT ![c] = p]
    /\ UNCHANGED <<error, inbox, held, panic, withdrawnBy>>

(* Mutant of Guard: the guard was defused before the answer was awaited. *)
GuardDefusedEarly(p, who) ==
  UNCHANGED <<peripheral, withdrawnBy>>

(* The guard: an attempt under way is withdrawn. *)
Guard(p, who) ==
  IF link[p] = "connecting"
    THEN CBCancel(p) /\ Withdrawn(p, who)
    ELSE UNCHANGED <<peripheral, withdrawnBy>>

(* did_connect or did_fail_to_connect came: the guard is defused. *)
FinishConnect(c) ==
  /\ phase[c] = "awaiting"
  /\ outcome[c] \in {"ok", "error"}
  /\ phase' = [phase EXCEPT ![c] = "returned"]
  /\ UNCHANGED <<target, outcome, error, connecting, inbox, held, panic, peripheral, withdrawnBy>>

(* `receiver.await?` leaves with Canceled, and the guard runs. *)
FailConnect(c) ==
  /\ phase[c] = "awaiting"
  /\ outcome[c] = "canceled"
  /\ error' = [error EXCEPT ![c] = {AsyncKind(FromCanceled)}]
  /\ phase' = [phase EXCEPT ![c] = "returned"]
  /\ Guard(target[c], "superseded")
  /\ UNCHANGED <<target, outcome, connecting, inbox, held, panic>>

(* The caller drops the future, and the guard runs. *)
DropConnect(c) ==
  /\ phase[c] = "awaiting"
  /\ phase' = [phase EXCEPT ![c] = "dropped"]
  /\ Guard(target[c], "drop")
  /\ UNCHANGED <<target, outcome, error, connecting, inbox, held, panic>>

-----------------------------------------------------------------------------
(* cancel_peripheral_connection.                                           *)

(* Mutant of Cancel: the end of a pending attempt is awaited too. *)
CancelAwaitingAttempt(x) ==
  \E p \in Peripherals :
    /\ phase[x] = "idle" /\ p \in held
    /\ phase' = [phase EXCEPT ![x] = IF link[p] \in {"connecting", "connected"}
                                       THEN "awaiting" ELSE "returned"]
    /\ target' = [target EXCEPT ![x] = p]
    /\ IF link[p] \in {"connecting", "connected"}
         THEN CBCancel(p) /\ Withdrawn(p, "cancel")
         ELSE UNCHANGED <<peripheral, withdrawnBy>>
    /\ UNCHANGED <<outcome, error, connecting, inbox, held, panic>>

(* First poll: the state is read once; the disconnection is awaited only   *)
(* of a peripheral that is connected.                                      *)
Cancel(x) ==
  \E p \in Peripherals :
    /\ phase[x] = "idle" /\ p \in held
    /\ phase' = [phase EXCEPT ![x] = IF link[p] = "connected" THEN "awaiting" ELSE "returned"]
    /\ target' = [target EXCEPT ![x] = p]
    /\ IF link[p] \in {"connecting", "connected"}
         THEN CBCancel(p) /\ Withdrawn(p, "cancel")
         ELSE UNCHANGED <<peripheral, withdrawnBy>>
    /\ UNCHANGED <<outcome, error, connecting, inbox, held, panic>>

(* A later poll: disconnections are read up to the call's own. *)
ReadDisconnects(x) ==
  /\ phase[x] = "awaiting"
  /\ HasNews(inbox[x]) /\ ~inbox[x].lagged
  /\ inbox' = [inbox EXCEPT ![x] = EmptyInbox]
  /\ phase' = [phase EXCEPT ![x] =
                 IF \E i \in DOMAIN inbox[x].queue : inbox[x].queue[i] = target[x]
                   THEN "returned" ELSE @]
  /\ UNCHANGED <<target, outcome, error, connecting, held, panic, peripheral, withdrawnBy>>

(* A later poll: the error for a lag ends the loop. *)
ReachUnreachable(x) ==
  /\ phase[x] = "awaiting"
  /\ inbox[x].lagged
  /\ panic' = "unreachable"
  /\ UNCHANGED <<calls, outcome, connecting, inbox, held, peripheral, withdrawnBy>>

DropCancel(x) ==
  /\ phase[x] = "awaiting"
  /\ phase' = [phase EXCEPT ![x] = "dropped"]
  /\ inbox' = [inbox EXCEPT ![x] = EmptyInbox]
  /\ UNCHANGED <<target, outcome, error, connecting, held, panic, peripheral, withdrawnBy>>

-----------------------------------------------------------------------------
(* CoreBluetooth's events, with the delegate's callbacks.                  *)

(* Mutant of TakeSender: the entry is marked with the outcome, not removed. *)
TakeSenderMarking(p, v) ==
  /\ Settle(p, v)
  /\ connecting' = [connecting EXCEPT ![p] = v]

(* The sender of p is removed from the map and used. *)
TakeSender(p, v) ==
  /\ Settle(p, v)
  /\ connecting' = [connecting EXCEPT ![p] = None]

DidConnect(p) ==
  /\ p \notin closing
  /\ link[p] = "connecting" \/ (link[p] = "connected" /\ p \in owed)
  /\ link' = [link EXCEPT ![p] = "connected"]
  /\ owed' = owed \ {p}
  /\ NewPeripheral(p)
  /\ IF Alive(p) THEN TakeSender(p, "ok") ELSE UNCHANGED <<outcome, connecting>>
  /\ UNCHANGED <<calls, inbox, held, closing, auto, withdrawnBy>>

(* The error of a connection that failed, for which there may be none. *)
ConnectError(nserror) == FromNSErrorOrKind(nserror, Bluetooth(ConnectionFailed))

DidFailToConnect(p) ==
  \E nserror \in {{}} \union {{e} : e \in NSErrors} :
    /\ p \notin closing
    /\ link[p] = "connecting"
    /\ link' = [link EXCEPT ![p] = "disconnected"]
    /\ owed' = owed \ {p}
    /\ NewPeripheral(p)
    /\ IF Alive(p)
         THEN /\ error' = [c \in ConnectCalls |->
                             IF c = connecting[p] /\ Waiting(c, p)
                               THEN {AsyncKind(FromError(ConnectError(nserror)))} ELSE error[c]]
              /\ TakeSender(p, "error")
         ELSE UNCHANGED <<error, outcome, connecting>>
    /\ UNCHANGED <<phase, target, inbox, held, closing, auto, withdrawnBy>>

(* Mutant of BroadcastDisconnect: a receiver with unread events is passed over. *)
BroadcastToIdle(p) ==
  inbox' = [x \in CancelCalls |->
              IF phase[x] = "awaiting" /\ ~HasNews(inbox[x])
                THEN Offer(inbox[x], p, DisconnectCap) ELSE inbox[x]]

(* did_disconnect: every open receiver is sent the event. *)
BroadcastDisconnect(p) ==
  inbox' = [x \in CancelCalls |->
              IF phase[x] = "awaiting" THEN Offer(inbox[x], p, DisconnectCap) ELSE inbox[x]]

(* A connection that was asked to close does. *)
Closed(p) ==
  /\ p \in closing
  /\ closing' = closing \ {p}
  /\ link' = [link EXCEPT ![p] = IF @ = "disconnecting" THEN "disconnected" ELSE @]
  /\ NewPeripheral(p)
  /\ IF Alive(p) THEN BroadcastDisconnect(p) ELSE UNCHANGED inbox
  /\ UNCHANGED <<calls, outcome, connecting, held, owed, auto, withdrawnBy>>

(* A connection is lost; CoreBluetooth may set about making it again. *)
LinkLost(p) ==
  /\ link[p] = "connected"
  /\ p \notin owed
  /\ link' = [link EXCEPT ![p] = IF p \in auto THEN "connecting" ELSE "disconnected"]
  /\ NewPeripheral(p)
  /\ IF Alive(p) THEN BroadcastDisconnect(p) ELSE UNCHANGED inbox
  /\ UNCHANGED <<calls, outcome, connecting, held, closing, owed, auto, withdrawnBy>>

(* did_update_ancs_authorization, whose receivers are none of a call's.    *)
DidUpdateANCS(p) ==
  /\ link[p] = "connected"
  /\ NewPeripheral(p)
  /\ UNCHANGED <<calls, outcome, connecting, inbox, held, peripheral, withdrawnBy>>

-----------------------------------------------------------------------------
Running == panic = "none"

Next ==
  /\ Running
  /\ \/ \E c \in ConnectCalls : Connect(c) \/ FinishConnect(c) \/ FailConnect(c) \/ DropConnect(c)
     \/ \E x \in CancelCalls :
          Cancel(x) \/ ReadDisconnects(x) \/ ReachUnreachable(x) \/ DropCancel(x)
     \/ \E p \in Peripherals :
          \/ DidConnect(p) \/ DidFailToConnect(p) \/ Closed(p) \/ LinkLost(p) \/ DidUpdateANCS(p)
          \/ Obtain(p) \/ LetGo(p)

Spec == Init /\ [][Next]_vars

(* The dispatch queue runs every block it is given, and a connection asked *)
(* to close closes.  An attempt to connect need never end.                 *)
Fairness ==
  /\ \A c \in ConnectCalls : WF_vars(Running /\ (FinishConnect(c) \/ FailConnect(c)))
  /\ \A x \in CancelCalls : WF_vars(Running /\ (ReadDisconnects(x) \/ ReachUnreachable(x)))
  /\ \A p \in Peripherals : WF_vars(Running /\ Closed(p))

FairSpec == Spec /\ Fairness

-----------------------------------------------------------------------------
(* Properties.                                                             *)

(* Every variable has its type. *)
TypeOK ==
  /\ phase \in [Calls -> {"idle", "awaiting", "returned", "dropped"}]
  /\ target \in [Calls -> Peripherals \union {None}]
  /\ outcome \in [ConnectCalls -> {"none", "ok", "error", "canceled"}]
  /\ error \in [ConnectCalls -> SUBSET AsyncErrorKinds]
  /\ connecting \in [Peripherals -> ConnectCalls \union {None}]
  /\ inbox \in [CancelCalls -> Inboxes(Peripherals)]
  /\ held \subseteq Peripherals
  /\ panic \in {"none", "unreachable", "delegate"}
  /\ link \in [Peripherals -> {"disconnected", "connecting", "connected", "disconnecting"}]
  /\ closing \subseteq Peripherals
  /\ owed \subseteq Peripherals
  /\ auto \subseteq Peripherals
  /\ withdrawnBy \in [ConnectCalls -> {"none", "superseded", "drop", "cancel"}]

(* A connect call that waits has its sender in the map, and an answer due, *)
(* unless somebody withdrew the attempt under it.                          *)
ConnectBacked ==
  \A c \in ConnectCalls :
    phase[c] = "awaiting" /\ outcome[c] = "none" =>
      /\ connecting[target[c]] = c
      /\ target[c] \in owed \/ withdrawnBy[c] # "none"

(* A cancel call that waits has its disconnection in its inbox, or still   *)
(* to come: none slips by between reading the state and listening.         *)
CancelBacked ==
  \A x \in CancelCalls :
    phase[x] = "awaiting" =>
      \/ inbox[x].lagged
      \/ target[x] \in closing
      \/ \E i \in DOMAIN inbox[x].queue : inbox[x].queue[i] = target[x]

(* No connection is made that nobody is told of, but for one made again    *)
(* automatically: the answer finds the call that waits, whatever calls     *)
(* overtook it or were dropped before.                                     *)
ConnectionTold ==
  [][\A p \in Peripherals \ auto :
       link[p] # "connected" /\ link'[p] = "connected" =>
         \E c \in ConnectCalls :
           Waiting(c, p) /\ outcome[c] = "none" /\ outcome'[c] = "ok"]_vars

(* A connect call fails with Canceled only if another overtook it, never   *)
(* because CoreBluetooth gave up or was told to: Canceled tells the caller *)
(* that the attempt has passed to a later call.                            *)
CanceledIsOvertaken ==
  \A c \in ConnectCalls :
    Canceled \in error[c] => \E d \in ConnectCalls \ {c} : target[d] = target[c]

(* connect keeps the promise of OneShotCalls to its callers, whoever gives *)
(* up, withdraws or fails: the wait for a peripheral passes from call to   *)
(* call, and an outcome reaches the last.                                  *)
OneShot == INSTANCE OneShotCalls WITH
             Calls <- ConnectCalls, Keys <- Peripherals, Outcomes <- {"ok", "error"},
             Unset <- "none", Canceled <- "canceled", NoKey <- None,
             phase <- [c \in ConnectCalls |-> phase[c]],
             key <- [c \in ConnectCalls |-> target[c]]

OneShotSpec == OneShot!Spec

(* CoreBluetooth is never left trying to connect for nobody: when the last *)
(* connect call on a peripheral ends, early or not, no attempt of its own  *)
(* goes on.                                                                *)
NoAttemptLeftBehind ==
  [][\A p \in Peripherals :
       /\ \E c \in ConnectCalls : Waiting(c, p)
       /\ ~\E c \in ConnectCalls : Waiting(c, p)'
       => link'[p] # "connecting" \/ p \in auto']_vars

(* CoreBluetooth tries to connect, unless of its own accord, only while a  *)
(* Peripheral is alive: the answer to an attempt does not find its         *)
(* delegate gone and abort the program, however calls are dropped or       *)
(* overtaken and Peripherals let go.                                       *)
AttemptKeepsDelegate ==
  \A p \in Peripherals \ auto : link[p] = "connecting" => Alive(p)

(* A cancel call returns, or is dropped, unless the program aborts. *)
CancelSettles ==
  \A x \in CancelCalls : phase[x] = "awaiting" ~> phase[x] # "awaiting" \/ ~Running

(* A cancel call that the disconnections of others outrun does not abort   *)
(* the program: the loop is written to end only by returning.              *)
NeverUnreachable == panic # "unreachable"

(* A connect call is not undone by an earlier one that it overtook: only   *)
(* its caller, or a cancel call, withdraws an attempt.                     *)
NotUndoneByOvertaken == \A c \in ConnectCalls : withdrawnBy[c] # "superseded"
=============================================================================
