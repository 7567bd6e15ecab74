----------------------- MODULE CentralDiscoveryProofs -----------------------
(***************************************************************************)
(* The safety properties of CentralDiscovery, for any scans, peripherals   *)
(* and identities of delegates.                                            *)
(***************************************************************************)
EXTENDS CentralDiscovery, EventInboxProofs

(* A caller that waits has at most one state to read, that of the manager  *)
(* unless a change is still to be reported.                                *)
FreshState ==
  \A s \in Streams :
    stream[s] = "waiting" /\ HasNews(updates[s]) =>
      /\ Len(updates[s].queue) = 1
      /\ Head(updates[s].queue) = power \/ due > 0

IndInv ==
  /\ TypeOK
  /\ OneDelegate
  /\ OpenIsFed
  /\ ScanAttended
  /\ NoLostPowerOn
  /\ FreshState

-----------------------------------------------------------------------------
(* Peripherals and their delegates.                                        *)

(* What is alive is a Peripheral with its delegate. *)
LEMMA AliveType ==
  ASSUME TypeOK
  PROVE  Alive \subseteq Peripherals \X Bridges
<1> SUFFICES ASSUME NEW w \in Alive
             PROVE  w \in Peripherals \X Bridges
  OBVIOUS
<1>1. CASE w \in held
  BY <1>1 DEF TypeOK
<1>2. ASSUME NEW s \in Streams, NEW i \in DOMAIN buffer[s], w = buffer[s][i]
      PROVE  w \in Peripherals \X Bridges
  <2>1. buffer[s] \in Seq(Peripherals \X Bridges)
    BY DEF TypeOK
  <2> QED
    BY <1>2, <2>1
<1> QED
  BY <1>1, <1>2 DEF Alive

(* Peripheral::init finds the delegate of the living, and makes one that   *)
(* nothing alive has otherwise.                                            *)
LEMMA InitPeripheralType ==
  ASSUME TypeOK, OneDelegate, NEW p \in Peripherals
  PROVE  /\ InitPeripheral(p) \in Peripherals \X Bridges
         /\ InitPeripheral(p)[1] = p
         /\ delegate[p] # None => InitPeripheral(p)[2] = delegate[p]
<1> USE DiscoveryAssumption
<1>1. CASE delegate[p] # None
  BY <1>1 DEF InitPeripheral, TypeOK
<1>2. CASE delegate[p] = None
  <2>1. ASSUME NEW b \in Bridges
        PROVE  <<p, b>> \notin Alive
    BY <1>2 DEF OneDelegate
  <2>2. NewBridge(p) \in Bridges
    BY <2>1 DEF NewBridge
  <2> QED
    BY <1>2, <2>2 DEF InitPeripheral
<1> QED
  BY <1>1, <1>2

(* Nothing new being alive, the delegates that have a Peripheral stay.     *)
LEMMA KeepStep ==
  ASSUME TypeOK, OneDelegate, Alive' \subseteq Alive, Keep(delegate)
  PROVE  /\ OneDelegate'
         /\ delegate' \in [Peripherals -> Bridges \union {None}]
<1>1. Alive \subseteq Peripherals \X Bridges
  BY AliveType
<1>2. delegate' \in [Peripherals -> Bridges \union {None}]
  BY DEF Keep, TypeOK
<1>3. ASSUME NEW w \in Alive'
      PROVE  delegate'[w[1]] = w[2]
  <2>1. w \in Peripherals \X Bridges /\ delegate[w[1]] = w[2]
    BY <1>1, <1>3 DEF OneDelegate
  <2>2. w = <<w[1], delegate[w[1]]>> /\ w[1] \in Peripherals
    BY <2>1
  <2> QED
    BY <1>3, <2>1, <2>2 DEF Keep
<1> QED
  BY <1>2, <1>3 DEF OneDelegate

(* A Peripheral made by init shares the delegate of those made before it.  *)
LEMMA KeepInitStep ==
  ASSUME TypeOK, OneDelegate, NEW p \in Peripherals, NEW w, w = InitPeripheral(p),
         Alive' \subseteq Alive \union {w}, Keep(Delegating(w))
  PROVE  /\ OneDelegate'
         /\ delegate' \in [Peripherals -> Bridges \union {None}]
<1>1. Alive \subseteq Peripherals \X Bridges
  BY AliveType
<1>2. /\ w \in Peripherals \X Bridges
      /\ w[1] = p
      /\ delegate[p] # None => w[2] = delegate[p]
  BY InitPeripheralType
<1>3. PICK d : d = Delegating(w)
  OBVIOUS
<1>4. d \in [Peripherals -> Bridges \union {None}]
  BY <1>2, <1>3 DEF Delegating, TypeOK
<1>5. delegate' = [q \in Peripherals |-> IF <<q, d[q]>> \in Alive' THEN d[q] ELSE None]
  BY <1>3 DEF Keep
<1>6. ASSUME NEW v \in Alive'
      PROVE  delegate'[v[1]] = v[2]
  <2>1. v \in Peripherals \X Bridges
    BY <1>1, <1>2, <1>6
  <2>2. d[v[1]] = v[2]
    <3>1. CASE v = w
      BY <1>2, <1>3, <3>1 DEF Delegating, TypeOK
    <3>2. CASE v \in Alive
      <4>1. delegate[v[1]] = v[2] /\ v[2] # None
        BY <2>1, <3>2, DiscoveryAssumption DEF OneDelegate
      <4> QED
        BY <1>2, <1>3, <2>1, <4>1 DEF Delegating, TypeOK
    <3> QED
      BY <1>6, <3>1, <3>2
  <2>3. v = <<v[1], d[v[1]]>> /\ v[1] \in Peripherals
    BY <2>1, <2>2
  <2> QED
    BY <1>5, <1>6, <2>2, <2>3
<1> QED
  BY <1>4, <1>5, <1>6 DEF OneDelegate

-----------------------------------------------------------------------------
(* Steps in general.                                                       *)

(* A step that neither moves the power nor makes anybody wait keeps what   *)
(* those who wait rely on.                                                 *)
LEMMA PowerKept ==
  ASSUME IndInv, UNCHANGED <<power, due>>,
         \A s \in Streams :
           stream'[s] = "waiting" => stream[s] = "waiting" /\ updates'[s] = updates[s]
  PROVE  NoLostPowerOn' /\ FreshState'
<1>1. ASSUME NEW s \in Streams, stream'[s] = "waiting", ~HasNews(updates'[s])
      PROVE  power' # "PoweredOn" \/ due' > 0
  BY <1>1 DEF IndInv, NoLostPowerOn
<1>2. ASSUME NEW s \in Streams, stream'[s] = "waiting", HasNews(updates'[s])
      PROVE  /\ Len(updates'[s].queue) = 1
             /\ Head(updates'[s].queue) = power' \/ due' > 0
  BY <1>2 DEF IndInv, FreshState
<1> QED
  BY <1>1, <1>2 DEF NoLostPowerOn, FreshState

(* scan(), where it does not panic, ends the stream of the scan before it. *)
LEMMA StartScanStep ==
  ASSUME IndInv, NEW s \in Streams, StartScan(s)
  PROVE  /\ stream' \in [Streams -> {"idle", "waiting", "panicked", "open", "ended", "dropped"}]
         /\ sender' \in Streams \union {None}
         /\ scanning' \in BOOLEAN
         /\ OpenIsFed' /\ ScanAttended'
         /\ \A r \in Streams : stream'[r] = "waiting" => stream[r] = "waiting" /\ r # s
<1> USE DiscoveryAssumption DEF IndInv, StartScan
<1>1. CASE scanning
  <2>1. sender' = sender /\ stream' = [stream EXCEPT ![s] = "panicked"] /\ scanning'
    BY <1>1
  <2> QED
    BY <1>1, <2>1 DEF TypeOK, OpenIsFed, ScanAttended
<1>2. CASE ~scanning
  <2>1. SetSender(s)
    BY <1>2
  <2>2. scanning' \in BOOLEAN
    BY DEF TypeOK
  <2> QED
    BY <2>1, <2>2 DEF SetSender, TypeOK, OpenIsFed, ScanAttended
<1> QED
  BY <1>1, <1>2

-----------------------------------------------------------------------------
(* Nothing was scanned for yet. *)
LEMMA InitInv == Init => IndInv
<1> SUFFICES ASSUME Init PROVE IndInv
  OBVIOUS
<1> USE DiscoveryAssumption DEF Init
<1>1. Alive = {}
  BY DEF Alive
<1>2. TypeOK
  <2>1. <<>> \in Seq(Peripherals \X Bridges)
    OBVIOUS
  <2>2. buffer \in [Streams -> Seq(Peripherals \X Bridges)]
    BY <2>1
  <2>3. /\ stream \in [Streams -> {"idle", "waiting", "panicked", "open", "ended", "dropped"}]
        /\ delegate \in [Peripherals -> Bridges \union {None}]
    OBVIOUS
  <2>4. {scanning, registered} \subseteq BOOLEAN
    OBVIOUS
  <2>5. updates \in [Streams -> Inboxes(ManagerStates)]
    <3>1. EmptyInbox \in Inboxes(ManagerStates)
      BY DEF EmptyInbox, Inboxes
    <3> QED
      BY <3>1
  <2> QED
    BY <2>2, <2>3, <2>4, <2>5 DEF TypeOK, ManagerStates
<1>3. OneDelegate /\ OpenIsFed
  BY <1>1 DEF OneDelegate, OpenIsFed
<1>4. ScanAttended /\ NoLostPowerOn /\ FreshState
  BY DEF ScanAttended, NoLostPowerOn, FreshState
<1> QED
  BY <1>2, <1>3, <1>4 DEF IndInv

-----------------------------------------------------------------------------
(* Steps that concern peripherals.                                         *)

(* A peripheral retrieved is alive, with the delegate it had. *)
LEMMA RetrieveStep ==
  ASSUME IndInv, NEW p \in Peripherals, Retrieve(p)
  PROVE  IndInv'
<1> USE DEF IndInv, Retrieve, states, scans, uses
<1>1. PICK w : w = InitPeripheral(p)
  OBVIOUS
<1>2. w \in Peripherals \X Bridges
  BY <1>1, InitPeripheralType
<1>3. Alive' \subseteq Alive \union {w}
  BY <1>1 DEF Alive
<1>4. OneDelegate' /\ delegate' \in [Peripherals -> Bridges \union {None}]
  BY <1>1, <1>3, KeepInitStep
<1>5. TypeOK'
  BY <1>1, <1>2, <1>4 DEF TypeOK
<1>6. NoLostPowerOn' /\ FreshState'
  BY PowerKept
<1> QED
  BY <1>4, <1>5, <1>6 DEF OpenIsFed, ScanAttended

(* A clone dropped leaves fewer alive. *)
LEMMA DropPeripheralStep ==
  ASSUME IndInv, DropPeripheral
  PROVE  IndInv'
<1> USE DEF IndInv, DropPeripheral, states, scans, uses
<1>1. Alive' \subseteq Alive
  BY DEF Alive
<1>2. OneDelegate' /\ delegate' \in [Peripherals -> Bridges \union {None}]
  BY <1>1, KeepStep
<1>3. TypeOK'
  BY <1>2 DEF TypeOK
<1>4. NoLostPowerOn' /\ FreshState'
  BY PowerKept
<1> QED
  BY <1>2, <1>3, <1>4 DEF OpenIsFed, ScanAttended

(* A service kept changes nothing alive. *)
LEMMA KeepServiceStep ==
  ASSUME IndInv, NEW p \in Peripherals, KeepService(p)
  PROVE  IndInv'
<1> USE DEF IndInv, KeepService, states, scans
<1>1. Alive' = Alive
  BY DEF Alive
<1>2. NoLostPowerOn' /\ FreshState'
  BY PowerKept
<1> QED
  BY <1>1, <1>2 DEF TypeOK, OneDelegate, OpenIsFed, ScanAttended

(* Peripheral::new makes a Peripheral only with the delegate there is. *)
LEMMA NewPeripheralStep ==
  ASSUME IndInv, NEW p \in Peripherals, ConnectionEvent(p) \/ ServicePeripheral(p)
  PROVE  IndInv'
<1> USE DEF IndInv, ConnectionEvent, ServicePeripheral, NewPeripheral, states, scans
<1>0. NoLostPowerOn' /\ FreshState'
  BY PowerKept
<1>1. CASE held' = held
  <2>1. Alive' = Alive
    BY <1>1 DEF Alive
  <2> QED
    BY <1>0, <1>1, <2>1 DEF TypeOK, OneDelegate, OpenIsFed, ScanAttended
<1>2. CASE delegate[p] # None /\ held' = held \union {<<p, delegate[p]>>}
  <2>1. Alive' = Alive \union {<<p, delegate[p]>>}
    BY <1>2 DEF Alive
  <2>2. OneDelegate'
    BY <2>1 DEF OneDelegate
  <2>3. TypeOK'
    BY <1>2 DEF TypeOK
  <2> QED
    BY <1>0, <2>2, <2>3 DEF OpenIsFed, ScanAttended
<1> QED
  BY <1>1, <1>2

-----------------------------------------------------------------------------
(* Steps that concern scans.                                               *)

(* A scan, with or without a look at the power first. *)
LEMMA ScanStep ==
  ASSUME IndInv, NEW s \in Streams, Scan(s)
  PROVE  IndInv'
<1> USE DEF IndInv, Scan, states, uses
<1>1. Alive' = Alive
  BY DEF Alive
<1>2. /\ stream' \in [Streams -> {"idle", "waiting", "panicked", "open", "ended", "dropped"}]
      /\ sender' \in Streams \union {None}
      /\ scanning' \in BOOLEAN
      /\ OpenIsFed' /\ ScanAttended'
      /\ \A r \in Streams : stream'[r] = "waiting" => stream[r] = "waiting" /\ r # s
  BY StartScanStep
<1>3. NoLostPowerOn' /\ FreshState'
  BY <1>2, PowerKept
<1>4. TypeOK'
  BY <1>2 DEF TypeOK
<1> QED
  BY <1>1, <1>2, <1>3, <1>4 DEF OneDelegate

(* Stopping it leaves its stream where it is. *)
LEMMA StopScanStep ==
  ASSUME IndInv, StopScan
  PROVE  IndInv'
<1>1. Alive' = Alive
  BY DEF StopScan, Alive
<1>2. NoLostPowerOn' /\ FreshState'
  BY PowerKept DEF StopScan, states
<1> QED
  BY <1>1, <1>2 DEF IndInv, StopScan, states, uses, TypeOK, OneDelegate, OpenIsFed, ScanAttended

(* A discovery read is kept, or not. *)
LEMMA ReadStreamStep ==
  ASSUME IndInv, NEW s \in Streams, ReadStream(s)
  PROVE  IndInv'
<1> USE DEF IndInv, ReadStream, states, scans, uses
<1>1. buffer[s] \in Seq(Peripherals \X Bridges) /\ buffer[s] # <<>>
  BY DEF TypeOK
<1>2. /\ Tail(buffer[s]) \in Seq(Peripherals \X Bridges)
      /\ \A i \in DOMAIN Tail(buffer[s]) :
           i + 1 \in DOMAIN buffer[s] /\ Tail(buffer[s])[i] = buffer[s][i + 1]
  BY <1>1
<1>3. 1 \in DOMAIN buffer[s] /\ Head(buffer[s]) = buffer[s][1]
  BY <1>1
<1>4. Alive' \subseteq Alive
  <2> SUFFICES ASSUME NEW w \in Alive'
               PROVE  w \in Alive
    OBVIOUS
  <2>1. CASE w \in held'
    BY <1>3, <2>1 DEF Alive
  <2>2. ASSUME NEW r \in Streams, NEW i \in DOMAIN buffer'[r], w = buffer'[r][i]
        PROVE  w \in Alive
    <3>1. CASE r = s
      <4>1. buffer'[r] = Tail(buffer[s])
        BY <3>1 DEF TypeOK
      <4> QED
        BY <1>2, <2>2, <4>1 DEF Alive
    <3>2. CASE r # s
      BY <2>2, <3>2 DEF Alive, TypeOK
    <3> QED
      BY <3>1, <3>2
  <2> QED
    BY <2>1, <2>2 DEF Alive
<1>5. OneDelegate' /\ delegate' \in [Peripherals -> Bridges \union {None}]
  BY <1>4, KeepStep
<1>6. TypeOK'
  <2>1. buffer' \in [Streams -> Seq(Peripherals \X Bridges)]
    BY <1>2 DEF TypeOK
  <2>2. held' \subseteq Peripherals \X Bridges
    BY <1>1, <1>3 DEF TypeOK
  <2> QED
    BY <1>5, <2>1, <2>2 DEF TypeOK
<1>7. NoLostPowerOn' /\ FreshState'
  BY PowerKept
<1> QED
  BY <1>5, <1>6, <1>7 DEF OpenIsFed, ScanAttended

(* A stream dropped takes its unread discoveries with it. *)
LEMMA DropStreamStep ==
  ASSUME IndInv, NEW s \in Streams, DropStream(s)
  PROVE  IndInv'
<1> USE DEF IndInv, DropStream, uses
<1>1. \A r \in Streams : buffer'[r] = IF r = s THEN <<>> ELSE buffer[r]
  BY DEF TypeOK
<1>2. Alive' \subseteq Alive
  BY <1>1 DEF Alive
<1>3. OneDelegate' /\ delegate' \in [Peripherals -> Bridges \union {None}]
  BY <1>2, KeepStep
<1>4. TypeOK'
  <2>1. EmptyInbox \in Inboxes(ManagerStates)
    BY DEF EmptyInbox, Inboxes
  <2> QED
    BY <1>3, <2>1 DEF TypeOK
<1>5. OpenIsFed' /\ ScanAttended'
  BY DEF TypeOK, OpenIsFed, ScanAttended
<1>6. NoLostPowerOn' /\ FreshState'
  <2>1. \A r \in Streams :
          stream'[r] = "waiting" => stream[r] = "waiting" /\ updates'[r] = updates[r]
    BY DEF TypeOK
  <2> QED
    BY <2>1, PowerKept
<1> QED
  BY <1>3, <1>4, <1>5, <1>6

(* A discovery on its way changes nothing in the program. *)
LEMMA AdvertiseStep ==
  ASSUME IndInv, NEW p \in Peripherals, Advertise(p)
  PROVE  IndInv'
<1>1. Alive' = Alive
  BY DEF Advertise, Alive
<1>2. NoLostPowerOn' /\ FreshState'
  BY PowerKept DEF Advertise, states
<1> QED
  BY <1>1, <1>2 DEF IndInv, Advertise, states, uses, TypeOK, OneDelegate, OpenIsFed, ScanAttended

(* One that arrives makes a Peripheral, and either sends it to the open    *)
(* stream of the sender, or drops it.                                      *)
LEMMA DidDiscoverStep ==
  ASSUME IndInv, NEW p \in Peripherals, DidDiscover(p)
  PROVE  IndInv'
<1> USE DiscoveryAssumption DEF IndInv, DidDiscover, states, uses
<1>1. PICK w : w = InitPeripheral(p)
  OBVIOUS
<1>2. w \in Peripherals \X Bridges
  BY <1>1, InitPeripheralType
<1>3. /\ buffer' \in [Streams -> Seq(Peripherals \X Bridges)]
      /\ Alive' \subseteq Alive \union {w}
  <2>1. CASE buffer' = buffer
    BY <2>1 DEF TypeOK, Alive
  <2>2. CASE sender # None /\ buffer' = [buffer EXCEPT ![sender] = Append(@, w)]
    <3>1. sender \in Streams /\ buffer[sender] \in Seq(Peripherals \X Bridges)
      BY <2>2 DEF TypeOK
    <3>2. /\ Append(buffer[sender], w) \in Seq(Peripherals \X Bridges)
          /\ \A i \in DOMAIN Append(buffer[sender], w) :
               \/ Append(buffer[sender], w)[i] = w
               \/ i \in DOMAIN buffer[sender] /\ Append(buffer[sender], w)[i] = buffer[sender][i]
      BY <1>2, <3>1
    <3>3. buffer' \in [Streams -> Seq(Peripherals \X Bridges)]
      BY <2>2, <3>2 DEF TypeOK
    <3>4. ASSUME NEW r \in Streams, NEW i \in DOMAIN buffer'[r]
          PROVE  buffer'[r][i] \in Alive \union {w}
      <4>1. CASE r = sender
        <5>1. buffer'[r] = Append(buffer[sender], w)
          BY <2>2, <4>1 DEF TypeOK
        <5> QED
          BY <3>1, <3>2, <3>4, <5>1 DEF Alive
      <4>2. CASE r # sender
        <5>1. buffer'[r] = buffer[r]
          BY <2>2, <4>2 DEF TypeOK
        <5> QED
          BY <3>4, <5>1 DEF Alive
      <4> QED
        BY <4>1, <4>2
    <3>5. Alive' \subseteq Alive \union {w}
      BY <3>4 DEF Alive
    <3> QED
      BY <3>3, <3>5
  <2> QED
    BY <1>1, <2>1, <2>2 DEF Publish
<1>4. OneDelegate' /\ delegate' \in [Peripherals -> Bridges \union {None}]
  BY <1>1, <1>3, KeepInitStep
<1>5. /\ sender' \in {sender, None} /\ scanning' \in {scanning, FALSE}
      /\ sender' # sender => stream[sender] = "dropped" /\ scanning' = FALSE
  BY DEF Publish
<1>6. TypeOK'
  BY <1>3, <1>4, <1>5 DEF TypeOK
<1>7. OpenIsFed'
  <2>1. stream' = stream
    OBVIOUS
  <2> QED
    BY <1>5, <2>1 DEF OpenIsFed
<1>8. ScanAttended'
  <2>1. CASE sender' = sender
    BY <1>5, <2>1 DEF ScanAttended
  <2>2. CASE scanning' = FALSE
    BY <2>2 DEF ScanAttended
  <2> QED
    BY <1>5, <2>1, <2>2
<1>9. NoLostPowerOn' /\ FreshState'
  BY PowerKept
<1> QED
  BY <1>4, <1>6, <1>7, <1>8, <1>9

-----------------------------------------------------------------------------
(* Steps that concern the manager and its state.                           *)

(* Before there is a manager it is not on, and nobody has been told a      *)
(* state. *)
Unmade ==
  manager = "none" => power = "PoweredOff" /\ updates = [s \in Streams |-> EmptyInbox]

LEMMA UnmadeStep ==
  ASSUME Unmade, [Next]_vars
  PROVE  Unmade'
<1>1. CASE Construct \/ WithManager
  <2>1. manager' # "none"
    BY <1>1 DEF Construct, WithManager, Retrieve, ConnectionEvent, Advertise, DidDiscover,
             Scan, ScanPowered, ReadState, Register, StopScan, ChangePower, DidUpdateState,
             DropManager, states
  <2> QED
    BY <2>1 DEF Unmade
<1>2. ASSUME NEW s \in Streams, DropStream(s)
      PROVE  Unmade'
  BY <1>2 DEF DropStream, Unmade
<1>3. CASE UNCHANGED states
  BY <1>3 DEF states, Unmade
<1>4. ASSUME NEW p \in Peripherals, KeepService(p) \/ ServicePeripheral(p)
      PROVE  UNCHANGED states
  BY <1>4 DEF KeepService, ServicePeripheral
<1>5. ASSUME NEW s \in Streams, ReadStream(s)
      PROVE  UNCHANGED states
  BY <1>5 DEF ReadStream
<1>6. DropPeripheral => UNCHANGED states
  BY DEF DropPeripheral
<1>7. UNCHANGED vars => UNCHANGED states
  BY DEF vars, states
<1> QED
  BY <1>1, <1>2, <1>3, <1>4, <1>5, <1>6, <1>7 DEF Next

(* A manager just made is not on: those who subscribe where it is made     *)
(* have yet to be told that it is.                                         *)
LEMMA ConstructStep ==
  ASSUME IndInv, Unmade, Construct
  PROVE  IndInv'
<1>1. PICK early \in SUBSET Streams :
        /\ manager = "none" /\ manager' = "alive"
        /\ stream' = [s \in Streams |-> IF s \in early THEN "waiting" ELSE stream[s]]
        /\ UNCHANGED <<power, due, updates, scanning, sender, found, buffer, held, delegate, uses>>
  BY DEF Construct
<1> USE <1>1 DEF IndInv, uses
<1>2. Alive' = Alive
  BY DEF Alive
<1>3. TypeOK'
  BY DEF TypeOK
<1>4. OpenIsFed' /\ ScanAttended'
  BY DEF OpenIsFed, ScanAttended
<1>5. power' # "PoweredOn"
  BY DEF Unmade
<1>6. \A s \in Streams : ~HasNews(updates'[s])
  BY DEF Unmade, HasNews, EmptyInbox
<1> QED
  BY <1>2, <1>3, <1>4, <1>5, <1>6 DEF OneDelegate, NoLostPowerOn, FreshState

(* One who looks at the state first waits only for a manager that is off.  *)
LEMMA ScanPoweredStep ==
  ASSUME IndInv, NEW s \in Streams, ScanPowered(s)
  PROVE  IndInv'
<1> USE DEF IndInv, ScanPowered, uses
<1>1. Alive' = Alive
  BY DEF Alive
<1>2. CASE power = "PoweredOn"
  <2>1. StartScan(s) /\ UNCHANGED updates
    BY <1>2
  <2>2. /\ stream' \in [Streams -> {"idle", "waiting", "panicked", "open", "ended", "dropped"}]
        /\ sender' \in Streams \union {None}
        /\ scanning' \in BOOLEAN
        /\ OpenIsFed' /\ ScanAttended'
        /\ \A r \in Streams : stream'[r] = "waiting" => stream[r] = "waiting" /\ r # s
    BY <2>1, StartScanStep
  <2>3. NoLostPowerOn' /\ FreshState'
    BY <2>1, <2>2, PowerKept
  <2>4. TypeOK'
    BY <2>1, <2>2 DEF TypeOK
  <2> QED
    BY <1>1, <2>2, <2>3, <2>4 DEF OneDelegate
<1>3. CASE power # "PoweredOn"
  <2>1. /\ stream' = [stream EXCEPT ![s] = "waiting"]
        /\ updates' = [updates EXCEPT ![s] = EmptyInbox]
        /\ UNCHANGED <<scanning, sender>>
    BY <1>3
  <2>2. TypeOK'
    <3>1. EmptyInbox \in Inboxes(ManagerStates)
      BY DEF EmptyInbox, Inboxes
    <3> QED
      BY <2>1, <3>1 DEF TypeOK
  <2>3. OpenIsFed' /\ ScanAttended'
    BY <2>1 DEF TypeOK, OpenIsFed, ScanAttended
  <2>4. NoLostPowerOn'
    BY <1>3 DEF NoLostPowerOn
  <2>5. ASSUME NEW r \in Streams, stream'[r] = "waiting", HasNews(updates'[r])
        PROVE  /\ Len(updates'[r].queue) = 1
               /\ Head(updates'[r].queue) = power' \/ due' > 0
    <3>1. r # s
      BY <2>1, <2>5 DEF HasNews, EmptyInbox, TypeOK
    <3>2. stream[r] = "waiting" /\ updates'[r] = updates[r]
      BY <2>1, <2>5, <3>1 DEF TypeOK
    <3> QED
      BY <2>5, <3>2 DEF FreshState
  <2> QED
    BY <1>1, <2>2, <2>3, <2>4, <2>5 DEF OneDelegate, FreshState
<1> QED
  BY <1>2, <1>3

(* One who reads that it is off has read all there is: it is off still, or *)
(* a change is on its way.                                                 *)
LEMMA ReadStateStep ==
  ASSUME IndInv, NEW s \in Streams, ReadState(s)
  PROVE  IndInv'
<1> USE DEF IndInv, ReadState, uses
<1>1. Alive' = Alive
  BY DEF Alive
<1>2. /\ updates[s] \in Inboxes(ManagerStates)
      /\ Len(updates[s].queue) = 1
      /\ Head(updates[s].queue) = power \/ due > 0
  BY DEF TypeOK, FreshState
<1>3. CASE Head(updates[s].queue) = "PoweredOn"
  <2>1. StartScan(s) /\ updates' = [updates EXCEPT ![s] = EmptyInbox]
    BY <1>3
  <2>2. /\ stream' \in [Streams -> {"idle", "waiting", "panicked", "open", "ended", "dropped"}]
        /\ sender' \in Streams \union {None}
        /\ scanning' \in BOOLEAN
        /\ OpenIsFed' /\ ScanAttended'
        /\ \A r \in Streams : stream'[r] = "waiting" => stream[r] = "waiting" /\ r # s
    BY <2>1, StartScanStep
  <2>3. \A r \in Streams : r # s => updates'[r] = updates[r]
    BY <2>1 DEF TypeOK
  <2>4. NoLostPowerOn' /\ FreshState'
    BY <2>2, <2>3, PowerKept
  <2>5. TypeOK'
    <3>1. EmptyInbox \in Inboxes(ManagerStates)
      BY DEF EmptyInbox, Inboxes
    <3> QED
      BY <2>1, <2>2, <3>1 DEF TypeOK
  <2> QED
    BY <1>1, <2>2, <2>4, <2>5 DEF OneDelegate
<1>4. CASE Head(updates[s].queue) # "PoweredOn"
  <2>1. /\ updates' = [updates EXCEPT ![s] = Taken(@)]
        /\ UNCHANGED <<manager, power, due, scanning, sender, stream>>
    BY <1>4
  <2>2. updates'[s] = Taken(updates[s])
    BY <2>1 DEF TypeOK
  <2>3. /\ Taken(updates[s]) \in Inboxes(ManagerStates)
        /\ Len(Taken(updates[s]).queue) = 0
    BY <1>2, TakenInbox
  <2>4. TypeOK'
    BY <2>1, <2>3 DEF TypeOK
  <2>5. ~HasNews(updates'[s])
    <3>1. PICK q : q = Taken(updates[s]).queue
      OBVIOUS
    <3>2. q \in Seq(ManagerStates) /\ Len(q) = 0
      BY <2>3, <3>1 DEF Inboxes
    <3>3. q = <<>>
      BY <3>2
    <3> QED
      BY <2>2, <3>1, <3>3 DEF HasNews
  <2>7. power # "PoweredOn" \/ due > 0
    BY <1>2, <1>4
  <2>8. \A r \in Streams : r # s => updates'[r] = updates[r]
    BY <2>1 DEF TypeOK
  <2>9. NoLostPowerOn'
    BY <2>1, <2>7, <2>8 DEF NoLostPowerOn
  <2>10. FreshState'
    BY <2>1, <2>5, <2>8 DEF FreshState
  <2> QED
    BY <1>1, <2>1, <2>4, <2>9, <2>10 DEF OneDelegate, OpenIsFed, ScanAttended
<1> QED
  BY <1>3, <1>4

(* A change of power is owed to everyone. *)
LEMMA ChangePowerStep ==
  ASSUME IndInv, ChangePower
  PROVE  IndInv'
<1>1. PICK v \in ManagerStates \ {power} :
        /\ due' = due + 1
        /\ power' = v
        /\ scanning' = (scanning /\ v = "PoweredOn")
        /\ UNCHANGED <<manager, updates, sender, stream, found, buffer, held, delegate, uses>>
  BY DEF ChangePower
<1> USE <1>1 DEF IndInv, uses
<1>2. Alive' = Alive
  BY DEF Alive
<1>3. TypeOK'
  BY DEF TypeOK
<1>4. due' > 0
  BY DEF TypeOK
<1>5. NoLostPowerOn' /\ FreshState'
  BY <1>4 DEF NoLostPowerOn, FreshState
<1> QED
  BY <1>2, <1>3, <1>5 DEF OneDelegate, OpenIsFed, ScanAttended

(* A watch() holds the state told last, and nothing else. *)
LEMMA WatchHolds ==
  ASSUME NEW E, NEW b \in Inboxes(E), NEW e \in E, HasNews(b) => Len(b.queue) = 1
  PROVE  /\ Offer(b, e, StateCap) \in Inboxes(E)
         /\ HasNews(Offer(b, e, StateCap))
         /\ Len(Offer(b, e, StateCap).queue) = 1
         /\ Head(Offer(b, e, StateCap).queue) = e
<1>1. PICK q : q = b.queue
  OBVIOUS
<1>2. PICK n : n = Offer(b, e, 1).queue
  OBVIOUS
<1>3. q \in Seq(E) /\ (q # <<>> => Len(q) = 1)
  BY <1>1 DEF Inboxes, HasNews
<1>4. Offer(b, e, 1) \in Inboxes(E) /\ n \in Seq(E)
  BY <1>2, OfferAdds DEF Inboxes
<1>5. Len(n) = 1 /\ n[1] = e
  <2>1. CASE Len(q) = 1
    <3>1. /\ Offer(b, e, 1) = [queue |-> Append(Tail(b.queue), e), lagged |-> TRUE]
          /\ Len(Append(Tail(b.queue), e)) = 1
          /\ Append(Tail(b.queue), e)[1] = e
      BY <1>1, <2>1, OfferWhenFull
    <3>2. n = Append(Tail(b.queue), e)
      BY <1>2, <3>1
    <3> QED
      BY <3>1, <3>2
  <2>2. CASE q = <<>>
    <3>1. Len(b.queue) = 0
      BY <1>1, <2>2
    <3>2. /\ Offer(b, e, 1) = [queue |-> Append(b.queue, e), lagged |-> b.lagged]
          /\ Len(Append(b.queue, e)) = 0 + 1
          /\ Append(b.queue, e)[0 + 1] = e
      BY <3>1, OfferWithRoom
    <3>3. n = Append(b.queue, e)
      BY <1>2, <3>2
    <3>4. 0 + 1 = 1
      OBVIOUS
    <3> QED
      BY <3>2, <3>3, <3>4
  <2> QED
    BY <1>3, <2>1, <2>2
<1>6. n # <<>> /\ Head(n) = e
  <2>1. n \in Seq(E) /\ Len(n) = 1
    BY <1>4, <1>5
  <2>2. n # <<>>
    BY <1>2, OfferIsNews DEF HasNews
  <2>3. Head(n) = n[1]
    BY <2>1, <2>2
  <2> QED
    BY <1>5, <2>2, <2>3
<1> QED
  BY <1>2, <1>4, <1>5, <1>6 DEF HasNews, StateCap

(* The state reported takes the place of one not read. *)
LEMMA DidUpdateStateStep ==
  ASSUME IndInv, DidUpdateState
  PROVE  IndInv'
<1> USE DEF IndInv, DidUpdateState, scans, uses
<1>1. Alive' = Alive
  BY DEF Alive
<1>2. ASSUME NEW s \in Streams, stream[s] = "waiting"
      PROVE  /\ updates'[s] \in Inboxes(ManagerStates)
             /\ HasNews(updates'[s])
             /\ Len(updates'[s].queue) = 1
             /\ Head(updates'[s].queue) = power'
  <2>1. updates[s] \in Inboxes(ManagerStates) /\ power \in ManagerStates
    BY DEF TypeOK
  <2>2. HasNews(updates[s]) => Len(updates[s].queue) = 1
    BY <1>2 DEF FreshState
  <2>3. updates'[s] = Offer(updates[s], power, StateCap) /\ power' = power
    BY <1>2
  <2> QED
    BY <2>1, <2>2, <2>3, WatchHolds
<1>3. TypeOK'
  <2>1. \A s \in Streams : updates'[s] \in Inboxes(ManagerStates)
    BY <1>2 DEF TypeOK
  <2>2. updates' \in [Streams -> Inboxes(ManagerStates)]
    BY <2>1
  <2> QED
    BY <2>2 DEF TypeOK
<1>4. NoLostPowerOn'
  BY <1>2 DEF NoLostPowerOn
<1>5. FreshState'
  BY <1>2 DEF FreshState
<1> QED
  BY <1>1, <1>3, <1>4, <1>5 DEF OneDelegate, OpenIsFed, ScanAttended

(* The senders go with the manager, and so nobody is left open. *)
LEMMA DropManagerStep ==
  ASSUME IndInv, DropManager
  PROVE  IndInv'
<1> USE DEF IndInv, DropManager
<1>1. Alive' = Alive
  BY DEF Alive
<1>2. TypeOK'
  BY DEF TypeOK, ManagerStates
<1>3. OpenIsFed' /\ ScanAttended'
  BY DEF OpenIsFed, ScanAttended, TypeOK
<1>4. \A s \in Streams : stream'[s] # "waiting"
  BY DEF TypeOK
<1> QED
  BY <1>1, <1>2, <1>3, <1>4 DEF OneDelegate, NoLostPowerOn, FreshState

(* Registering for connection events concerns nothing else. *)
LEMMA RegisterStep ==
  ASSUME IndInv, Register
  PROVE  IndInv'
<1> USE DEF IndInv, Register, states, scans
<1>1. Alive' = Alive
  BY DEF Alive
<1>2. NoLostPowerOn' /\ FreshState'
  BY PowerKept
<1> QED
  BY <1>1, <1>2 DEF TypeOK, OneDelegate, OpenIsFed, ScanAttended

-----------------------------------------------------------------------------
(* The invariant is kept by every step. *)
LEMMA NextStep ==
  ASSUME IndInv, Unmade, [Next]_vars
  PROVE  IndInv'
<1>1. CASE WithManager
  <2>1. ASSUME NEW p \in Peripherals,
               Retrieve(p) \/ ConnectionEvent(p) \/ Advertise(p) \/ DidDiscover(p)
        PROVE  IndInv'
    BY <2>1, RetrieveStep, NewPeripheralStep, AdvertiseStep, DidDiscoverStep
  <2>2. ASSUME NEW s \in Streams, Scan(s) \/ ScanPowered(s) \/ ReadState(s)
        PROVE  IndInv'
    BY <2>2, ScanStep, ScanPoweredStep, ReadStateStep
  <2> QED
    BY <1>1, <2>1, <2>2, RegisterStep, StopScanStep, ChangePowerStep, DidUpdateStateStep,
       DropManagerStep DEF WithManager
<1>2. ASSUME NEW p \in Peripherals, KeepService(p) \/ ServicePeripheral(p)
      PROVE  IndInv'
  BY <1>2, KeepServiceStep, NewPeripheralStep
<1>3. ASSUME NEW s \in Streams, ReadStream(s) \/ DropStream(s)
      PROVE  IndInv'
  BY <1>3, ReadStreamStep, DropStreamStep
<1>4. CASE UNCHANGED vars
  <2>1. Alive' = Alive
    BY <1>4 DEF vars, Alive
  <2>2. NoLostPowerOn' /\ FreshState'
    BY <1>4, PowerKept DEF vars
  <2> QED
    BY <1>4, <2>1, <2>2 DEF vars, IndInv, TypeOK, OneDelegate, OpenIsFed, ScanAttended
<1> QED
  BY <1>1, <1>2, <1>3, <1>4, ConstructStep, DropPeripheralStep DEF Next

(* The invariant holds in every behaviour. *)
THEOREM Invariance == Spec => [](IndInv /\ Unmade)
<1>1. Init => Unmade
  BY DEF Init, Unmade
<1>2. IndInv /\ Unmade /\ [Next]_vars => (IndInv /\ Unmade)'
  BY NextStep, UnmadeStep
<1> QED
  BY <1>1, <1>2, InitInv, PTL DEF Spec

(* The variables keep their types, however many delegates there may be. *)
THEOREM TypeCorrect == Spec => []TypeOK
BY Invariance, PTL DEF IndInv

(* However a CBPeripheral was come by, its Peripherals share the delegate  *)
(* that CoreBluetooth calls.                                               *)
THEOREM DelegateShared == Spec => []OneDelegate
BY Invariance, PTL DEF IndInv

(* The sender of an open stream is in the cell: no stream is starved by    *)
(* another, or outlives the manager unended.                               *)
THEOREM OpenStreamsFed == Spec => []OpenIsFed
BY Invariance, PTL DEF IndInv

(* A scan that is on has a sender: none runs unattended. *)
THEOREM ScansAttended == Spec => []ScanAttended
BY Invariance, PTL DEF IndInv

(* No caller that waits for the manager to power on misses that it did.    *)
THEOREM PowerOnNotLost == Spec => []NoLostPowerOn
BY Invariance, PTL DEF IndInv

(* One that waited scans on a state that is current, or whose end is still *)
(* to be reported: the state it reads is never older than the last told.   *)
THEOREM WaitersScanPowered == Spec => ScansWhenPowered
<1>1. ASSUME IndInv, Unmade, [Next]_vars,
             NEW s \in Streams, stream[s] = "waiting", stream'[s] \in {"open", "panicked"}
      PROVE  power = "PoweredOn" \/ due > 0
  <2>1. stream # stream'
    BY <1>1
  <2>2. ReadState(s) => power = "PoweredOn" \/ due > 0
    BY <1>1 DEF ReadState, IndInv, FreshState
  <2>3. ASSUME NEW r \in Streams, ReadState(r) \/ Scan(r) \/ ScanPowered(r), r # s
        PROVE  FALSE
    <3>1. StartScan(r) \/ stream' = stream \/ stream' = [stream EXCEPT ![r] = "waiting"]
      BY <2>3 DEF ReadState, Scan, ScanPowered
    <3>2. StartScan(r) => stream'[s] \in {stream[s], "ended"}
      <4> SUFFICES ASSUME StartScan(r)
                   PROVE  stream'[s] \in {stream[s], "ended"}
        OBVIOUS
      <4>1. \/ stream' = [stream EXCEPT ![r] = "panicked"]
            \/ SetSender(r)
        BY DEF StartScan
      <4> QED
        BY <1>1, <2>3, <4>1 DEF SetSender, IndInv, TypeOK
    <3> QED
      BY <1>1, <2>3, <3>1, <3>2 DEF IndInv, TypeOK
  <2>4. ~(Scan(s) \/ ScanPowered(s))
    BY <1>1 DEF Scan, ScanPowered
  <2>5. ASSUME NEW r \in Streams, DropStream(r) \/ ReadStream(r)
        PROVE  FALSE
    BY <1>1, <2>5 DEF DropStream, ReadStream, scans, IndInv, TypeOK
  <2>6. ~Construct /\ ~DropManager
    BY <1>1 DEF Construct, DropManager, IndInv, TypeOK
  <2>7. ~(UNCHANGED vars \/ Register \/ StopScan \/ ChangePower \/ DidUpdateState \/ DropPeripheral)
    BY <2>1 DEF vars, Register, StopScan, ChangePower, DidUpdateState, DropPeripheral, scans
  <2>8. ASSUME NEW p \in Peripherals,
               Retrieve(p) \/ ConnectionEvent(p) \/ Advertise(p) \/ DidDiscover(p)
                 \/ KeepService(p) \/ ServicePeripheral(p)
        PROVE  FALSE
    BY <2>1, <2>8 DEF Retrieve, ConnectionEvent, Advertise, DidDiscover, KeepService,
                      ServicePeripheral, scans
  <2> QED
    BY <1>1, <2>2, <2>3, <2>4, <2>5, <2>6, <2>7, <2>8 DEF Next, WithManager
<1>2. IndInv /\ Unmade /\ [Next]_vars =>
        [\A s \in Streams :
           stream[s] = "waiting" /\ stream'[s] \in {"open", "panicked"} =>
             power = "PoweredOn" \/ due > 0]_vars
  BY <1>1
<1> QED
  BY <1>2, Invariance, PTL DEF Spec, ScansWhenPowered

-----------------------------------------------------------------------------
(* Nothing alive is a Peripheral of p. *)
Unheld(p) == \A w \in Alive : w[1] # p

(* The caller holds a Peripheral of every peripheral that events may come  *)
(* of.                                                                     *)
EventsExpected == registered => \A p \in Peripherals : ~Unheld(p)

(* Then no connection event aborts: by whichever way a Peripheral was come *)
(* by, the event finds its delegate.  Other callbacks that unwrap it are   *)
(* in CentralConnections.                                                  *)
THEOREM EventsSafeIfHeld == Spec /\ []EventsExpected => []EventNeverAborts
<1>1. Init => EventNeverAborts
  BY DEF Init, EventNeverAborts
<1>2. IndInv /\ EventsExpected /\ EventNeverAborts /\ [Next]_vars => EventNeverAborts'
  <2> SUFFICES ASSUME IndInv, EventsExpected, panic # "event", [Next]_vars
               PROVE  panic' # "event"
    BY DEF EventNeverAborts
  <2>1. ASSUME NEW p \in Peripherals, ConnectionEvent(p)
        PROVE  UNCHANGED panic
    <3>1. PICK w \in Alive : w[1] = p
      BY <2>1 DEF EventsExpected, Unheld, ConnectionEvent
    <3>2. w[2] \in Bridges /\ delegate[p] = w[2]
      BY <3>1, AliveType DEF IndInv, OneDelegate
    <3>3. delegate[p] # None
      BY <3>2, DiscoveryAssumption
    <3> QED
      BY <2>1, <3>3 DEF ConnectionEvent, NewPeripheral
  <2>2. ASSUME NEW p \in Peripherals, ServicePeripheral(p)
        PROVE  panic' \in {panic, "service"}
    BY <2>2 DEF ServicePeripheral, NewPeripheral
  <2>3. CASE UNCHANGED panic
    BY <2>3
  <2> QED
    BY <2>1, <2>2, <2>3 DEF Next, WithManager, Construct, Retrieve, Advertise, DidDiscover, KeepService,
       Scan, ScanPowered, ReadState, StartScan, ReadStream, DropStream, Register, StopScan,
       ChangePower, DidUpdateState, DropManager, DropPeripheral, uses, vars
<1> QED
  BY <1>1, <1>2, Invariance, PTL DEF Spec
=============================================================================
