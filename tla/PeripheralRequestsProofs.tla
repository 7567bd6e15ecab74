---------------------- MODULE PeripheralRequestsProofs ----------------------
(***************************************************************************)
(* The safety properties of PeripheralRequests, for any calls, attributes  *)
(* and operations.  They are proved together, from one inductive invariant *)
(* that says which calls the senders in the map and the requests held by   *)
(* CoreBluetooth may belong to.                                            *)
(***************************************************************************)
EXTENDS PeripheralRequests, TLAPS

(* A sender in the map belongs to a call registered under that slot whose  *)
(* channel is still empty; its receiver waits, or has been dropped.        *)
SendersUnused ==
  \A s \in Slots :
    pending[s] # NoCall =>
      /\ slot[pending[s]] = s
      /\ answer[pending[s]] = NoCall
      /\ phase[pending[s]] \in {"awaiting", "dropped"}

(* A request CoreBluetooth holds was made under the slot it is held for,   *)
(* has reached no one, and its maker either waits in the map or has        *)
(* stopped waiting for it.                                                 *)
RequestsUnanswered ==
  \A s \in Slots : \A i \in 1..Len(inFlight[s]) :
    LET r == inFlight[s][i]
    IN  /\ slot[r] = s
        /\ phase[r] # "idle"
        /\ pending[s] = r \/ Abandoned(r)
        /\ \A c \in Calls : answer[c] # r

(* CoreBluetooth holds a request once. *)
RequestsDistinct ==
  \A s \in Slots : \A i, j \in 1..Len(inFlight[s]) :
    inFlight[s][i] = inFlight[s][j] => i = j

(* Nothing is known of a call before it is made. *)
IdleUntouched ==
  \A c \in Calls :
    phase[c] = "idle" => answer[c] = NoCall /\ \A d \in Calls : answer[d] # c

(* An outcome that a call is given is its own, or that of a call on the    *)
(* same key that was abandoned.                                            *)
AnswerAttributed ==
  \A c, g \in Calls :
    answer[c] = g /\ g # c => slot[g] = slot[c] /\ Abandoned(g)

(* No two calls are given the same. *)
AnswerSpentOnce ==
  \A c, d \in Calls : answer[c] \in Calls /\ answer[c] = answer[d] => c = d

IndInv ==
  /\ TypeOK
  /\ SendersUnused
  /\ RequestsUnanswered
  /\ RequestsDistinct
  /\ IdleUntouched
  /\ NoOrphanWaiter
  /\ WaiterBacked
  /\ AnswerAttributed
  /\ AnswerSpentOnce

-----------------------------------------------------------------------------
(* The state is well typed before the first call. *)
LEMMA InitInv == Init => IndInv
<1> SUFFICES ASSUME Init PROVE IndInv
  OBVIOUS
<1> USE RequestsAssumption DEF Init
<1>1. TypeOK
  BY DEF TypeOK, Phases
<1>2. SendersUnused /\ RequestsUnanswered /\ RequestsDistinct /\ IdleUntouched
  BY DEF SendersUnused, RequestsUnanswered, RequestsDistinct, IdleUntouched
<1>3. NoOrphanWaiter /\ WaiterBacked
  BY DEF NoOrphanWaiter, WaiterBacked
<1>4. AnswerAttributed /\ AnswerSpentOnce
  BY DEF AnswerAttributed, AnswerSpentOnce
<1> QED
  BY <1>1, <1>2, <1>3, <1>4 DEF IndInv

-----------------------------------------------------------------------------
(* The first poll of a method on slot s keeps the invariant, whether or not *)
(* CoreBluetooth will answer the request.                                  *)
LEMMA RequestStep ==
  ASSUME IndInv, NEW c \in Calls, NEW op \in Ops, NEW a \in Attributes,
         Request(c, op, a)
  PROVE  IndInv'
<1> DEFINE s == Slot(op, a)
           w == pending[s]
<1> s \in Slots
  BY DEF Slots
<1> USE RequestsAssumption
<1>1. /\ phase[c] = "idle"
      /\ phase' = [phase EXCEPT ![c] = "awaiting"]
      /\ slot' = [slot EXCEPT ![c] = s]
      /\ pending' = [pending EXCEPT ![s] = c]
      /\ connected' = connected
      /\ answer' = [d \in Calls |->
                     IF d = w /\ phase[d] = "awaiting" THEN Canceled ELSE answer[d]]
      /\ \/ inFlight' = [inFlight EXCEPT ![s] = Append(@, c)] /\ lost' = lost
         \/ inFlight' = inFlight /\ lost' = lost \union {c}
  BY DEF Request, Register, Settle, Issue
<1> HIDE DEF s
<1>2. TypeOK'
  <2>1. phase' \in [Calls -> Phases] /\ slot' \in [Calls -> Slots \union {NoSlot}]
    BY <1>1 DEF IndInv, TypeOK, Phases
  <2>2. answer' \in [Calls -> Calls \union {NoCall, Canceled}]
    BY <1>1 DEF IndInv, TypeOK
  <2>3. pending' \in [Slots -> Calls \union {NoCall}]
    BY <1>1 DEF IndInv, TypeOK
  <2>4. inFlight' \in [Slots -> Seq(Calls)]
    <3>1. inFlight \in [Slots -> Seq(Calls)] /\ Append(inFlight[s], c) \in Seq(Calls)
      BY DEF IndInv, TypeOK
    <3> QED
      BY <3>1, <1>1
  <2>5. lost' \subseteq Calls /\ connected' \in BOOLEAN
    BY <1>1 DEF IndInv, TypeOK
  <2> QED
    BY <2>1, <2>2, <2>3, <2>4, <2>5 DEF TypeOK
<1>3. /\ w # c
      /\ answer[c] = NoCall
      /\ \A d \in Calls : answer[d] # c
  BY <1>1 DEF IndInv, TypeOK, SendersUnused, IdleUntouched
<1>4. /\ answer'[c] = NoCall
      /\ \A d \in Calls : answer'[d] # c
      /\ \A d \in Calls : answer'[d] = answer[d] \/ answer'[d] = Canceled
  BY <1>1, <1>3 DEF IndInv, TypeOK
<1>5. \A d \in Calls \ {c} : slot'[d] = slot[d] /\ phase'[d] = phase[d]
  BY <1>1 DEF IndInv, TypeOK
<1>6. \A d \in Calls : Abandoned(d) => Abandoned(d)'
  BY <1>1, <1>3, <1>4 DEF IndInv, TypeOK, Abandoned
<1>7. \A d \in Calls : d = w => Abandoned(d)'
  BY <1>1, <1>3, <1>4 DEF IndInv, TypeOK, Abandoned, SendersUnused
<1>8. SendersUnused'
  <2> SUFFICES ASSUME NEW t \in Slots, pending'[t] # NoCall
               PROVE  /\ slot'[pending'[t]] = t
                      /\ answer'[pending'[t]] = NoCall
                      /\ phase'[pending'[t]] \in {"awaiting", "dropped"}
    BY DEF SendersUnused
  <2>1. CASE t = s
    BY <2>1, <1>1, <1>4 DEF IndInv, TypeOK
  <2>2. CASE t # s
    <3>1. pending'[t] = pending[t] /\ pending[t] \in Calls /\ slot[pending[t]] = t
      BY <2>2, <1>1 DEF IndInv, TypeOK, SendersUnused
    <3>2. pending[t] # w
      BY <3>1, <2>2 DEF IndInv, TypeOK, SendersUnused
    <3>3. pending[t] # c
      BY <3>1, <1>1 DEF IndInv, TypeOK, SendersUnused
    <3> QED
      BY <3>1, <3>2, <3>3, <1>1 DEF IndInv, TypeOK, SendersUnused
  <2> QED
    BY <2>1, <2>2
<1>9. \A t \in Slots : \A i \in 1..Len(inFlight[t]) :
        /\ inFlight[t][i] \in Calls \ {c}
        /\ slot[inFlight[t][i]] = t
  BY <1>1 DEF IndInv, TypeOK, RequestsUnanswered
<1>10. ASSUME NEW t \in Slots, NEW i \in 1..Len(inFlight'[t])
       PROVE  \/ /\ i \in 1..Len(inFlight[t])
                 /\ inFlight'[t][i] = inFlight[t][i]
              \/ /\ t = s
                 /\ i = Len(inFlight[t]) + 1
                 /\ inFlight'[t][i] = c
  <2>1. inFlight[t] \in Seq(Calls)
    BY DEF IndInv, TypeOK
  <2>2. CASE inFlight'[t] = inFlight[t]
    BY <2>2
  <2>3. CASE t = s /\ inFlight'[t] = Append(inFlight[t], c)
    BY <2>1, <2>3
  <2> QED
    BY <2>2, <2>3, <1>1 DEF IndInv, TypeOK
<1>11. RequestsUnanswered'
  <2> SUFFICES ASSUME NEW t \in Slots, NEW i \in 1..Len(inFlight'[t]),
                      NEW r, r = inFlight'[t][i]
               PROVE  /\ slot'[r] = t
                      /\ phase'[r] # "idle"
                      /\ pending'[t] = r \/ Abandoned(r)'
                      /\ \A d \in Calls : answer'[d] # r
    BY DEF RequestsUnanswered
  <2>1. CASE r = c /\ t = s
    BY <2>1, <1>1, <1>4 DEF IndInv, TypeOK
  <2>2. CASE i \in 1..Len(inFlight[t]) /\ r = inFlight[t][i]
    <3>1. /\ r \in Calls \ {c}
          /\ slot[r] = t
          /\ phase[r] # "idle"
          /\ pending[t] = r \/ Abandoned(r)
          /\ \A d \in Calls : answer[d] # r
      BY <2>2, <1>9 DEF IndInv, RequestsUnanswered
    <3>2. pending'[t] = r \/ Abandoned(r)'
      BY <3>1, <1>1, <1>6, <1>7 DEF IndInv, TypeOK
    <3>3. \A d \in Calls : answer'[d] # r
      BY <3>1, <1>4
    <3> QED
      BY <3>1, <3>2, <3>3, <1>5
  <2> QED
    BY <2>1, <2>2, <1>10
<1>12. RequestsDistinct'
  BY <1>9, <1>10 DEF IndInv, RequestsDistinct
<1>13. IdleUntouched'
  BY <1>1, <1>4, <1>5, <1>3 DEF IndInv, TypeOK, IdleUntouched, SendersUnused
<1>14. NoOrphanWaiter'
  <2> SUFFICES ASSUME NEW d \in Calls, phase'[d] = "awaiting", answer'[d] = NoCall
               PROVE  pending'[slot'[d]] = d
    BY DEF NoOrphanWaiter
  <2>1. CASE d = c
    BY <2>1, <1>1 DEF IndInv, TypeOK
  <2>2. CASE d # c
    <3>1. phase[d] = "awaiting" /\ answer[d] = NoCall
      BY <2>2, <1>4, <1>5
    <3>2. pending[slot[d]] = d /\ slot'[d] = slot[d]
      BY <3>1, <2>2, <1>5 DEF IndInv, NoOrphanWaiter
    <3>3. d # w
      BY <3>1, <1>1
    <3> QED
      BY <3>2, <3>3, <1>1 DEF IndInv, TypeOK
  <2> QED
    BY <2>1, <2>2
<1>15. WaiterBacked'
  <2> SUFFICES ASSUME NEW t \in Slots, pending'[t] # NoCall, pending'[t] \notin lost'
               PROVE  /\ inFlight'[t] # <<>>
                      /\ inFlight'[t][Len(inFlight'[t])] = pending'[t]
    BY DEF WaiterBacked
  <2>1. CASE t = s
    BY <2>1, <1>1 DEF IndInv, TypeOK
  <2>2. CASE t # s
    BY <2>2, <1>1 DEF IndInv, TypeOK, WaiterBacked
  <2> QED
    BY <2>1, <2>2
<1>16. AnswerAttributed'
  <2> SUFFICES ASSUME NEW d \in Calls, NEW g \in Calls, answer'[d] = g, g # d
               PROVE  slot'[g] = slot'[d] /\ Abandoned(g)'
    BY DEF AnswerAttributed
  <2>1. answer[d] = g /\ g # c /\ d # c
    BY <1>4
  <2> QED
    BY <2>1, <1>5, <1>6 DEF IndInv, AnswerAttributed
<1>17. AnswerSpentOnce'
  BY <1>4 DEF IndInv, AnswerSpentOnce
<1> QED
  BY <1>2, <1>8, <1>11, <1>12, <1>13, <1>14, <1>15, <1>16, <1>17 DEF IndInv

-----------------------------------------------------------------------------
(* What is left of a queue after its oldest element is taken. *)
LEMMA TailOfQueue ==
  ASSUME NEW S, NEW q \in Seq(S), q # <<>>
  PROVE  /\ Tail(q) \in Seq(S)
         /\ Head(q) = q[1] /\ 1 \in 1..Len(q) /\ q[1] \in S
         /\ Len(Tail(q)) = Len(q) - 1
         /\ \A i \in 1..Len(Tail(q)) : i + 1 \in 1..Len(q) /\ Tail(q)[i] = q[i + 1]
         /\ Tail(q) # <<>> => Tail(q)[Len(Tail(q))] = q[Len(q)]
         /\ Tail(q) = <<>> => q[Len(q)] = Head(q)
<1>1. Len(q) \in Nat \ {0} /\ Head(q) = q[1] /\ 1 \in 1..Len(q) /\ q[1] \in S
  OBVIOUS
<1>2. Tail(q) \in Seq(S) /\ Len(Tail(q)) = Len(q) - 1
  OBVIOUS
<1>3. \A i \in 1..Len(Tail(q)) : i + 1 \in 1..Len(q) /\ Tail(q)[i] = q[i + 1]
  BY <1>1, <1>2
<1>4. Tail(q) # <<>> => Len(Tail(q)) \in 1..Len(Tail(q))
  BY <1>2
<1>5. Tail(q) # <<>> => Tail(q)[Len(Tail(q))] = q[Len(q)]
  BY <1>1, <1>2, <1>3, <1>4
<1>6. Tail(q) = <<>> => Len(q) = 1
  BY <1>1, <1>2
<1> QED
  BY <1>1, <1>2, <1>3, <1>5, <1>6

(* A callback with the outcome of the oldest request of slot s keeps the   *)
(* invariant, whoever's sender it finds there.                             *)
LEMMA RespondStep ==
  ASSUME IndInv, NEW s \in Slots, Respond(s)
  PROVE  IndInv'
<1> DEFINE q == inFlight[s]
<1> USE RequestsAssumption
<1>1. /\ q # <<>>
      /\ q \in Seq(Calls)
      /\ inFlight' = [inFlight EXCEPT ![s] = Tail(q)]
      /\ pending' = [pending EXCEPT ![s] = NoCall]
      /\ answer' = [d \in Calls |->
                     IF d = pending[s] /\ phase[d] = "awaiting" THEN Head(q) ELSE answer[d]]
      /\ phase' = phase /\ slot' = slot /\ lost' = lost /\ connected' = connected
  BY DEF Respond, Complete, Settle, IndInv, TypeOK
<1>2. /\ Tail(q) \in Seq(Calls)
      /\ Head(q) = q[1] /\ 1 \in 1..Len(q) /\ q[1] \in Calls
      /\ \A i \in 1..Len(Tail(q)) : i + 1 \in 1..Len(q) /\ Tail(q)[i] = q[i + 1]
  BY <1>1, TailOfQueue
<1>3. PICK h \in Calls :
        /\ h = Head(q)
        /\ slot[h] = s
        /\ phase[h] # "idle"
        /\ pending[s] = h \/ Abandoned(h)
        /\ \A c \in Calls : answer[c] # h
  BY <1>2 DEF IndInv, RequestsUnanswered
<1>4. answer' = [d \in Calls |->
                  IF d = pending[s] /\ phase[d] = "awaiting" THEN h ELSE answer[d]]
  BY <1>1, <1>3
<1>5. TypeOK'
  BY <1>1, <1>2, <1>4 DEF IndInv, TypeOK
<1>6. \A d \in Calls : answer'[d] # answer[d] =>
        /\ d = pending[s] /\ slot[d] = s /\ answer[d] = NoCall
        /\ phase[d] = "awaiting" /\ answer'[d] = h
  BY <1>4 DEF IndInv, TypeOK, SendersUnused
<1>7. \A d \in Calls : Abandoned(d) => Abandoned(d)'
  BY <1>1, <1>6 DEF Abandoned
<1>8. SendersUnused'
  <2> SUFFICES ASSUME NEW t \in Slots, pending'[t] # NoCall
               PROVE  /\ slot'[pending'[t]] = t
                      /\ answer'[pending'[t]] = NoCall
                      /\ phase'[pending'[t]] \in {"awaiting", "dropped"}
    BY DEF SendersUnused
  <2>1. t # s /\ pending'[t] = pending[t] /\ pending[t] \in Calls
    BY <1>1 DEF IndInv, TypeOK
  <2>2. slot[pending[t]] = t /\ answer[pending[t]] = NoCall
    BY <2>1 DEF IndInv, SendersUnused
  <2>3. answer'[pending[t]] = answer[pending[t]]
    BY <2>1, <2>2, <1>6
  <2> QED
    BY <2>1, <2>2, <2>3, <1>1 DEF IndInv, SendersUnused
<1>9. ASSUME NEW t \in Slots, NEW i \in 1..Len(inFlight'[t]),
             NEW r, r = inFlight'[t][i]
      PROVE  /\ r \in Calls /\ r # h
             /\ slot[r] = t /\ phase[r] # "idle"
             /\ pending[t] = r \/ Abandoned(r)
             /\ \A c \in Calls : answer[c] # r
  <2>1. CASE t = s
    <3>1. inFlight'[t] = Tail(q)
      BY <2>1, <1>1 DEF IndInv, TypeOK
    <3>2. i \in 1..Len(Tail(q)) /\ r = Tail(q)[i] /\ Len(Tail(q)) \in Nat
      BY <3>1, <1>2, <1>9
    <3>3. i + 1 \in 1..Len(q) /\ i + 1 # 1 /\ r = q[i + 1]
      BY <3>2, <1>2
    <3>4. r # h
      BY <3>3, <1>2, <1>3 DEF IndInv, RequestsDistinct
    <3>5. r \in Calls
      BY <3>3, <1>1
    <3> QED
      BY <3>3, <3>4, <3>5, <2>1 DEF IndInv, RequestsUnanswered
  <2>2. CASE t # s
    <3>1. inFlight'[t] = inFlight[t]
      BY <2>2, <1>1 DEF IndInv, TypeOK
    <3>2. inFlight[t] \in Seq(Calls)
      BY DEF IndInv, TypeOK
    <3> QED
      BY <3>1, <3>2, <2>2, <1>3, <1>9 DEF IndInv, RequestsUnanswered
  <2> QED
    BY <2>1, <2>2
<1>10. RequestsUnanswered'
  <2> SUFFICES ASSUME NEW t \in Slots, NEW i \in 1..Len(inFlight'[t]),
                      NEW r, r = inFlight'[t][i]
               PROVE  /\ slot'[r] = t
                      /\ phase'[r] # "idle"
                      /\ pending'[t] = r \/ Abandoned(r)'
                      /\ \A d \in Calls : answer'[d] # r
    BY DEF RequestsUnanswered
  <2>0. /\ r \in Calls /\ r # h
        /\ slot[r] = t /\ phase[r] # "idle"
        /\ pending[t] = r \/ Abandoned(r)
        /\ \A c \in Calls : answer[c] # r
    BY <1>9
  <2>1. pending'[t] = r \/ Abandoned(r)'
    <3>1. CASE Abandoned(r)
      BY <3>1, <1>7, <2>0
    <3>2. CASE t # s /\ pending[t] = r
      BY <3>2, <1>1 DEF IndInv, TypeOK
    <3>3. CASE t = s /\ pending[t] = r
      <4>1. phase[r] \in {"awaiting", "dropped"}
        BY <3>3, <2>0 DEF IndInv, SendersUnused
      <4>2. phase[r] = "awaiting" => answer'[r] = h
        BY <3>3, <1>4, <2>0
      <4> QED
        BY <4>1, <4>2, <1>1, <1>3, <2>0, h # NoCall DEF Abandoned
    <3> QED
      BY <3>1, <3>2, <3>3, <2>0
  <2>2. \A d \in Calls : answer'[d] # r
    BY <1>6, <2>0
  <2> QED
    BY <2>1, <2>2, <1>1, <2>0
<1>11. RequestsDistinct'
  <2> SUFFICES ASSUME NEW t \in Slots,
                      NEW i \in 1..Len(inFlight'[t]), NEW j \in 1..Len(inFlight'[t]),
                      inFlight'[t][i] = inFlight'[t][j]
               PROVE  i = j
    BY DEF RequestsDistinct
  <2>1. CASE t = s
    <3>1. inFlight'[t] = Tail(q)
      BY <2>1, <1>1 DEF IndInv, TypeOK
    <3>2. q[i + 1] = q[j + 1] /\ i + 1 \in 1..Len(q) /\ j + 1 \in 1..Len(q)
      BY <3>1, <1>2
    <3>3. i + 1 = j + 1
      BY <3>2 DEF IndInv, RequestsDistinct
    <3> QED
      BY <3>3
  <2>2. CASE t # s
    BY <2>2, <1>1 DEF IndInv, TypeOK, RequestsDistinct
  <2> QED
    BY <2>1, <2>2
<1>12. IdleUntouched'
  BY <1>1, <1>3, <1>6 DEF IndInv, IdleUntouched
<1>13. NoOrphanWaiter'
  <2> SUFFICES ASSUME NEW d \in Calls, phase'[d] = "awaiting", answer'[d] = NoCall
               PROVE  pending'[slot'[d]] = d
    BY DEF NoOrphanWaiter
  <2>1. answer[d] = NoCall /\ phase[d] = "awaiting" /\ slot'[d] = slot[d]
    BY <1>1, <1>6
  <2>2. pending[slot[d]] = d
    BY <2>1 DEF IndInv, NoOrphanWaiter
  <2>3. d # pending[s]
    BY <2>1, <1>4
  <2>4. slot[d] # s
    BY <2>2, <2>3
  <2> QED
    BY <2>1, <2>2, <2>4, <1>1 DEF IndInv, TypeOK
<1>14. WaiterBacked'
  BY <1>1 DEF IndInv, TypeOK, WaiterBacked
<1>15. AnswerAttributed'
  <2> SUFFICES ASSUME NEW d \in Calls, NEW g \in Calls, answer'[d] = g, g # d
               PROVE  slot'[g] = slot'[d] /\ Abandoned(g)'
    BY DEF AnswerAttributed
  <2>1. CASE answer[d] = g
    BY <2>1, <1>1, <1>7 DEF IndInv, AnswerAttributed
  <2>2. CASE answer[d] # g
    BY <2>2, <1>1, <1>3, <1>6, <1>7
  <2> QED
    BY <2>1, <2>2
<1>16. AnswerSpentOnce'
  BY <1>3, <1>6 DEF IndInv, AnswerSpentOnce
<1> QED
  BY <1>5, <1>8, <1>10, <1>11, <1>12, <1>13, <1>14, <1>15, <1>16 DEF IndInv

-----------------------------------------------------------------------------
(* A request lost with the connection keeps the invariant. *)
LEMMA LoseStep ==
  ASSUME IndInv, NEW s \in Slots, LoseRequest(s)
  PROVE  IndInv'
<1> DEFINE q == inFlight[s]
<1>1. /\ q # <<>>
      /\ q \in Seq(Calls)
      /\ inFlight' = [inFlight EXCEPT ![s] = Tail(q)]
      /\ lost' = lost \union {Head(q)}
      /\ UNCHANGED <<phase, slot, answer, pending, connected>>
  BY DEF LoseRequest, IndInv, TypeOK
<1>2. /\ Tail(q) \in Seq(Calls)
      /\ Head(q) \in Calls
      /\ \A i \in 1..Len(Tail(q)) : i + 1 \in 1..Len(q) /\ Tail(q)[i] = q[i + 1]
      /\ Tail(q) # <<>> => Tail(q)[Len(Tail(q))] = q[Len(q)]
      /\ Tail(q) = <<>> => q[Len(q)] = Head(q)
  BY <1>1, TailOfQueue
<1>3. TypeOK'
  BY <1>1, <1>2 DEF IndInv, TypeOK
<1>4. \A d \in Calls : Abandoned(d) => Abandoned(d)'
  BY <1>1 DEF Abandoned
<1>5. ASSUME NEW t \in Slots, NEW i \in 1..Len(inFlight'[t])
      PROVE  \/ i \in 1..Len(inFlight[t]) /\ inFlight'[t][i] = inFlight[t][i] /\ t # s
             \/ i + 1 \in 1..Len(inFlight[t]) /\ inFlight'[t][i] = inFlight[t][i + 1] /\ t = s
  BY <1>1, <1>2 DEF IndInv, TypeOK
<1>6. RequestsUnanswered'
  <2> SUFFICES ASSUME NEW t \in Slots, NEW i \in 1..Len(inFlight'[t]),
                      NEW r, r = inFlight'[t][i]
               PROVE  /\ slot'[r] = t
                      /\ phase'[r] # "idle"
                      /\ pending'[t] = r \/ Abandoned(r)'
                      /\ \A d \in Calls : answer'[d] # r
    BY DEF RequestsUnanswered
  <2>1. PICK k \in 1..Len(inFlight[t]) : r = inFlight[t][k]
    BY <1>5
  <2>2. /\ r \in Calls /\ slot[r] = t /\ phase[r] # "idle"
        /\ pending[t] = r \/ Abandoned(r)
        /\ \A d \in Calls : answer[d] # r
    BY <2>1 DEF IndInv, TypeOK, RequestsUnanswered
  <2> QED
    BY <2>2, <1>1, <1>4
<1>7. RequestsDistinct'
  BY <1>5 DEF IndInv, RequestsDistinct
<1>8. WaiterBacked'
  <2> SUFFICES ASSUME NEW t \in Slots, pending'[t] # NoCall, pending'[t] \notin lost'
               PROVE  /\ inFlight'[t] # <<>>
                      /\ inFlight'[t][Len(inFlight'[t])] = pending'[t]
    BY DEF WaiterBacked
  <2>1. inFlight[t] # <<>> /\ inFlight[t][Len(inFlight[t])] = pending[t]
    BY <1>1 DEF IndInv, WaiterBacked
  <2>2. CASE t = s
    BY <2>1, <2>2, <1>1, <1>2 DEF IndInv, TypeOK
  <2>3. CASE t # s
    BY <2>1, <2>3, <1>1 DEF IndInv, TypeOK
  <2> QED
    BY <2>2, <2>3
<1>9. SendersUnused' /\ IdleUntouched' /\ NoOrphanWaiter'
  BY <1>1 DEF IndInv, SendersUnused, IdleUntouched, NoOrphanWaiter
<1>10. AnswerAttributed' /\ AnswerSpentOnce'
  BY <1>1, <1>4 DEF IndInv, AnswerAttributed, AnswerSpentOnce
<1> QED
  BY <1>3, <1>6, <1>7, <1>8, <1>9, <1>10 DEF IndInv

-----------------------------------------------------------------------------
(* A future that returns, or is dropped, keeps the invariant. *)
LEMMA FutureStep ==
  ASSUME IndInv, NEW c \in Calls, Poll(c) \/ DropCall(c)
  PROVE  IndInv'
<1>1. /\ phase[c] = "awaiting"
      /\ \/ answer[c] # NoCall /\ phase' = [phase EXCEPT ![c] = "returned"]
         \/ phase' = [phase EXCEPT ![c] = "dropped"]
      /\ UNCHANGED <<slot, answer, pending, inFlight, lost, connected>>
  BY DEF Poll, DropCall
<1>2. TypeOK'
  BY <1>1 DEF IndInv, TypeOK, Phases
<1>3. \A d \in Calls \ {c} : phase'[d] = phase[d]
  BY <1>1 DEF IndInv, TypeOK
<1>4. phase'[c] = "dropped" \/ (phase'[c] = "returned" /\ answer[c] # NoCall)
  <2> phase \in [Calls -> Phases]
    BY DEF IndInv, TypeOK
  <2> QED
    BY <1>1
<1>5. \A d \in Calls : Abandoned(d) => Abandoned(d)'
  BY <1>1, <1>3 DEF Abandoned
<1>6. SendersUnused'
  BY <1>1, <1>3, <1>4 DEF IndInv, TypeOK, SendersUnused
<1>7. RequestsUnanswered'
  <2> SUFFICES ASSUME NEW t \in Slots, NEW i \in 1..Len(inFlight[t]),
                      NEW r, r = inFlight[t][i]
               PROVE  /\ slot[r] = t
                      /\ phase'[r] # "idle"
                      /\ pending[t] = r \/ Abandoned(r)'
                      /\ \A d \in Calls : answer[d] # r
    BY <1>1 DEF RequestsUnanswered
  <2>1. r \in Calls
    BY DEF IndInv, TypeOK
  <2> QED
    BY <2>1, <1>3, <1>4, <1>5 DEF IndInv, RequestsUnanswered
<1>8. RequestsDistinct' /\ WaiterBacked' /\ AnswerSpentOnce'
  BY <1>1 DEF IndInv, RequestsDistinct, WaiterBacked, AnswerSpentOnce
<1>9. IdleUntouched' /\ NoOrphanWaiter'
  BY <1>1, <1>3, <1>4 DEF IndInv, IdleUntouched, NoOrphanWaiter
<1>10. AnswerAttributed'
  BY <1>1, <1>5 DEF IndInv, AnswerAttributed
<1> QED
  BY <1>2, <1>6, <1>7, <1>8, <1>9, <1>10 DEF IndInv

(* The link, and stuttering, touch nothing the properties read. *)
LEMMA LinkStep ==
  ASSUME IndInv, Disconnect \/ Reconnect \/ UNCHANGED vars
  PROVE  IndInv'
<1>1. /\ UNCHANGED <<phase, slot, answer, pending, inFlight, lost>>
      /\ connected' \in BOOLEAN
  BY DEF Disconnect, Reconnect, vars, IndInv, TypeOK
<1>2. TypeOK' /\ SendersUnused' /\ RequestsDistinct' /\ IdleUntouched'
  BY <1>1 DEF IndInv, TypeOK, SendersUnused, RequestsDistinct, IdleUntouched
<1>3. RequestsUnanswered' /\ AnswerAttributed'
  BY <1>1 DEF IndInv, RequestsUnanswered, AnswerAttributed, Abandoned
<1>4. NoOrphanWaiter' /\ WaiterBacked' /\ AnswerSpentOnce'
  BY <1>1 DEF IndInv, NoOrphanWaiter, WaiterBacked, AnswerSpentOnce
<1> QED
  BY <1>2, <1>3, <1>4 DEF IndInv

-----------------------------------------------------------------------------
(* The invariant holds in every state of every execution. *)
THEOREM Invariance == Spec => []IndInv
<1>1. IndInv /\ [Next]_vars => IndInv'
  <2> SUFFICES ASSUME IndInv, [Next]_vars
               PROVE  IndInv'
    OBVIOUS
  <2>1. ASSUME NEW c \in Calls, Discover(c) \/ Access(c) \/ OpenL2cap(c)
        PROVE  IndInv'
    <3>1. PICK op \in Ops, a \in Attributes : Request(c, op, a)
      BY <2>1 DEF Discover, Access, OpenL2cap
    <3> QED
      BY <3>1, RequestStep
  <2>2. ASSUME NEW c \in Calls, Poll(c) \/ DropCall(c)
        PROVE  IndInv'
    BY <2>2, FutureStep
  <2>3. ASSUME NEW s \in Slots, Respond(s)
        PROVE  IndInv'
    BY <2>3, RespondStep
  <2>4. ASSUME NEW s \in Slots, LoseRequest(s)
        PROVE  IndInv'
    BY <2>4, LoseStep
  <2>5. CASE Disconnect \/ Reconnect \/ UNCHANGED vars
    BY <2>5, LinkStep
  <2> QED
    BY <2>1, <2>2, <2>3, <2>4, <2>5 DEF Next
<1> QED
  BY <1>1, InitInv, PTL DEF Spec

(* Every variable keeps its type. *)
THEOREM TypeCorrect == Spec => []TypeOK
BY Invariance, PTL DEF IndInv

(* However calls on a key overtake one another, are dropped or lose their  *)
(* connection, a future that waits can be reached by a callback.           *)
THEOREM WaitersServed == Spec => []NoOrphanWaiter
BY Invariance, PTL DEF IndInv

(* The sender a waiting call left is backed by a request still held, or    *)
(* lost.                                                                   *)
THEOREM WaitersBacked == Spec => []WaiterBacked
BY Invariance, PTL DEF IndInv

(* A call reads another call's outcome only on its own key, once that call *)
(* was abandoned, and alone.                                               *)
THEOREM AnswersAttributed == Spec => []ForeignAnswerHasCause
<1>1. IndInv => ForeignAnswerHasCause
  BY DEF IndInv, AnswerAttributed, AnswerSpentOnce, ForeignAnswerHasCause
<1> QED
  BY <1>1, Invariance, PTL

-----------------------------------------------------------------------------
(* The promise of OneShotCalls.                                            *)

(* What reaches the sender in a slot is what reaches those who wait on the *)
(* key: there is one of each, or none.                                     *)
LEMMA SettleGives ==
  ASSUME IndInv, NEW s \in Slots, NEW v, Settle(s, v)
  PROVE  OneShot!Give(s, v)
<1>1. \A d \in Calls : (d = pending[s] /\ phase[d] = "awaiting") <=> OneShot!Waits(d, s)
  BY RequestsAssumption DEF IndInv, NoOrphanWaiter, SendersUnused, OneShot!Waits
<1> QED
  BY <1>1 DEF Settle, OneShot!Give

(* Every step is one of OneShotCalls, or none of its concern. *)
LEMMA StepRefines ==
  ASSUME IndInv, [Next]_vars
  PROVE  [OneShot!Next]_(OneShot!vars)
<1> USE DEF OneShot!Next, OneShot!vars
<1>1. ASSUME NEW c \in Calls, Discover(c) \/ Access(c) \/ OpenL2cap(c)
      PROVE  OneShot!Next
  <2>1. PICK op \in Ops, a \in Attributes : Request(c, op, a)
    BY <1>1 DEF Discover, Access, OpenL2cap
  <2> DEFINE s == Slot(op, a)
  <2>2. s \in Slots
    BY DEF Slots
  <2>3. OneShot!Make(c, s)
    BY <2>1, <2>2, SettleGives DEF Request, Register, OneShot!Make
  <2> QED
    BY <2>2, <2>3
<1>2. ASSUME NEW c \in Calls, Poll(c) \/ DropCall(c)
      PROVE  OneShot!Next
  <2>1. OneShot!Return(c) \/ OneShot!Drop(c)
    BY <1>2 DEF Poll, DropCall, OneShot!Return, OneShot!Drop
  <2> QED
    BY <2>1
<1>3. ASSUME NEW s \in Slots, Respond(s)
      PROVE  OneShot!Next
  <2>1. Head(inFlight[s]) \in Calls
    BY <1>3, TailOfQueue DEF Respond, IndInv, TypeOK
  <2>2. OneShot!Arrive(s, Head(inFlight[s]))
    BY <1>3, SettleGives DEF Respond, Complete, OneShot!Arrive
  <2> QED
    BY <2>1, <2>2
<1>4. CASE (\E s \in Slots : LoseRequest(s)) \/ Disconnect \/ Reconnect \/ UNCHANGED vars
  BY <1>4 DEF LoseRequest, Disconnect, Reconnect, vars
<1> QED
  BY <1>1, <1>2, <1>3, <1>4 DEF Next

(* The maps of senders, with the requests that outlive their callers, keep *)
(* the promise of OneShotCalls to every caller.                            *)
THEOREM ImplementsOneShot == Spec => OneShotSpec
<1>1. Init => OneShot!Init
  BY DEF Init, OneShot!Init
<1> QED
  BY <1>1, StepRefines, Invariance, PTL DEF Spec, OneShotSpec, OneShot!Spec

(* The theorems about OneShotCalls, of the calls of this module. *)
CallFacts == INSTANCE OneShotCallsProofs WITH
               Keys <- Slots, Outcomes <- Calls, Unset <- NoCall, NoKey <- NoSlot,
               key <- slot, outcome <- answer

(* So are the methods an instance of what the theorems are about. *)
LEMMA ImplementsCalls == CallFacts!ValuesDistinct /\ (Spec => CallFacts!Spec)
<1>1. CallFacts!ValuesDistinct
  BY RequestsAssumption DEF CallFacts!ValuesDistinct
<1>2. OneShot!Init => CallFacts!Init
  BY DEF OneShot!Init, CallFacts!Init
<1>3. [OneShot!Next]_(OneShot!vars) => [CallFacts!Next]_(CallFacts!vars)
  BY DEF OneShot!Next, OneShot!vars, CallFacts!Next, CallFacts!vars,
     OneShot!Make, CallFacts!Make, OneShot!Arrive, CallFacts!Arrive,
     OneShot!Return, CallFacts!Return, OneShot!Drop, CallFacts!Drop,
     OneShot!Give, CallFacts!Give, OneShot!Waits, CallFacts!Waits
<1> QED
  BY <1>1, <1>2, <1>3, ImplementsOneShot, PTL DEF OneShotSpec, OneShot!Spec, CallFacts!Spec

(* A call fails with Canceled only if another call on its key was made.    *)
THEOREM CancellationCaused == Spec => []OneShot!CanceledHasCause
<1>1. CallFacts!CanceledHasCause => OneShot!CanceledHasCause
  BY DEF CallFacts!CanceledHasCause, OneShot!CanceledHasCause
<1> QED
  BY <1>1, ImplementsCalls, CallFacts!CancellationCaused, PTL

(* What a callback sends is what the method returns: no later callback,    *)
(* and no later call, takes it back.                                       *)
THEOREM AnswersStay == Spec => OneShot!OutcomeStays
<1>1. CallFacts!OutcomeStays => OneShot!OutcomeStays
  BY PTL DEF CallFacts!OutcomeStays, OneShot!OutcomeStays, CallFacts!vars, OneShot!vars
<1> QED
  BY <1>1, ImplementsCalls, CallFacts!OutcomesStay, PTL

-----------------------------------------------------------------------------
(* Callers that take turns.                                                *)

(* Callers await each call on a key before they make the next, and give up *)
(* none.                                                                   *)
TakeTurns ==
  /\ \A c \in Calls : phase[c] # "dropped"
  /\ \A c, d \in Calls :
       phase[c] = "awaiting" /\ phase[d] = "awaiting" /\ slot[c] = slot[d] => c = d

(* A call is answered with its own outcome, if at all. *)
OwnAnswers == \A c \in Calls : answer[c] \in {NoCall, c}

(* Such callers always read their own outcome, and never Canceled, whatever *)
(* connections are lost: a request still held when another answer comes    *)
(* would be one that somebody stopped waiting for.                         *)
THEOREM TurnsServed == Spec /\ []TakeTurns => []OwnAnswers
<1>1. Init => OwnAnswers
  BY DEF Init, OwnAnswers
<1>2. IndInv /\ TakeTurns /\ TakeTurns' /\ OwnAnswers /\ [Next]_vars => OwnAnswers'
  <2> SUFFICES ASSUME IndInv, TakeTurns, TakeTurns', OwnAnswers, [Next]_vars
               PROVE  OwnAnswers'
    OBVIOUS
  <2> USE RequestsAssumption
  <2>1. ASSUME NEW c \in Calls, NEW op \in Ops, NEW a \in Attributes, Request(c, op, a)
        PROVE  OwnAnswers'
    <3> DEFINE s == Slot(op, a)
    <3>1. /\ s \in Slots
          /\ phase[c] = "idle"
          /\ phase' = [phase EXCEPT ![c] = "awaiting"]
          /\ slot' = [slot EXCEPT ![c] = s]
          /\ answer' = [d \in Calls |->
                         IF d = pending[s] /\ phase[d] = "awaiting" THEN Canceled ELSE answer[d]]
      BY <2>1 DEF Request, Register, Settle, Slots
    <3> HIDE DEF s
    <3>2. ASSUME NEW d \in Calls, d = pending[s], phase[d] = "awaiting"
          PROVE  FALSE
      <4>1. d # c /\ slot[d] = s
        BY <3>1, <3>2 DEF IndInv, SendersUnused
      <4>2. phase'[d] = "awaiting" /\ phase'[c] = "awaiting" /\ slot'[d] = s /\ slot'[c] = s
        BY <4>1, <3>1, <3>2 DEF IndInv, TypeOK
      <4> QED
        BY <4>1, <4>2 DEF TakeTurns
    <3> QED
      BY <3>1, <3>2 DEF OwnAnswers
  <2>2. ASSUME NEW s \in Slots, Respond(s)
        PROVE  OwnAnswers'
    <3> DEFINE h == Head(inFlight[s])
    <3>1. /\ h \in Calls
          /\ pending[s] = h \/ Abandoned(h)
      <4>1. /\ inFlight[s] \in Seq(Calls) /\ inFlight[s] # <<>>
        BY <2>2 DEF Respond, IndInv, TypeOK
      <4> QED
        BY <4>1, TailOfQueue DEF IndInv, RequestsUnanswered
    <3>2. ~Abandoned(h)
      BY <3>1 DEF Abandoned, TakeTurns, OwnAnswers
    <3>3. answer' = [d \in Calls |->
                      IF d = pending[s] /\ phase[d] = "awaiting" THEN h ELSE answer[d]]
      BY <2>2 DEF Respond, Complete, Settle
    <3> QED
      BY <3>1, <3>2, <3>3 DEF OwnAnswers
  <2>3. CASE answer' = answer
    BY <2>3 DEF OwnAnswers
  <2> QED
    BY <2>1, <2>2, <2>3 DEF Next, Discover, Access, OpenL2cap, Poll, DropCall, LoseRequest,
       Disconnect, Reconnect, vars
<1> QED
  BY <1>1, <1>2, Invariance, PTL DEF Spec
=============================================================================
