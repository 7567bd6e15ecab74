------------------------- MODULE EventStreamsProofs -------------------------
(***************************************************************************)
(* The promise of the event streams, for any receivers, keys and           *)
(* capacities: what an inbox holds and when it may say that it lagged.     *)
(***************************************************************************)
EXTENDS EventStreams, EventInboxProofs

(* One more event published, one more in the inbox. *)
LEMMA ShiftedSum ==
  ASSUME NEW x \in Nat, NEW n \in Nat, NEW m \in Nat, NEW i \in Nat, x + n = m + i
  PROVE  x + (n + 1) = (m + 1) + i
OBVIOUS

-----------------------------------------------------------------------------
(* One receiver's part of the promise. *)
Kept(r) ==
  on[r] # NoKey =>
    /\ Len(inbox[r].queue) <= Cap[on[r]]
    /\ \A i \in 1..Len(inbox[r].queue) :
         inbox[r].queue[i] + Len(inbox[r].queue) = published[on[r]] + i
    /\ inbox[r].lagged =>
         /\ next[r] + Cap[on[r]] <= published[on[r]]
         /\ Len(inbox[r].queue) = Cap[on[r]]
    /\ ~inbox[r].lagged => next[r] + Len(inbox[r].queue) = published[on[r]] + 1

IndInv == TypeOK /\ \A r \in Receivers : Kept(r)

(* What the invariant says of an open receiver, one fact at a time. *)
LEMMA HeldEvents ==
  ASSUME IndInv, NEW r \in Receivers, on[r] # NoKey
  PROVE  /\ on[r] \in Keys /\ Cap[on[r]] \in Nat \ {0} /\ published[on[r]] \in Nat
         /\ inbox[r] \in Inboxes(Nat) /\ inbox[r].queue \in Seq(Nat)
         /\ Len(inbox[r].queue) <= Cap[on[r]]
         /\ \A i \in 1..Len(inbox[r].queue) :
              inbox[r].queue[i] + Len(inbox[r].queue) = published[on[r]] + i
         /\ inbox[r].lagged => Len(inbox[r].queue) = Cap[on[r]]
<1>1. on[r] \in Keys /\ inbox[r] \in Inboxes(Nat)
  BY DEF IndInv, TypeOK
<1>2. Cap[on[r]] \in Nat \ {0} /\ published[on[r]] \in Nat
  BY <1>1, StreamsAssumption DEF IndInv, TypeOK
<1>3. inbox[r].queue \in Seq(Nat)
  BY <1>1 DEF Inboxes
<1>4. Kept(r)
  BY DEF IndInv
<1> QED
  BY <1>1, <1>2, <1>3, <1>4 DEF Kept

(* A receiver the step does not concern keeps its part. *)
LEMMA Untouched ==
  ASSUME NEW r \in Receivers, Kept(r),
         on'[r] = on[r], inbox'[r] = inbox[r], next'[r] = next[r], published' = published
  PROVE  Kept(r)'
BY DEF Kept

(* A new receiver starts at the next event, with nothing to read. *)
LEMMA SubscribeStep ==
  ASSUME IndInv, NEW r \in Receivers, NEW k \in Keys, Subscribe(r, k)
  PROVE  IndInv'
<1> USE StreamsAssumption
<1>1. TypeOK'
  BY EmptyIsInbox DEF Subscribe, IndInv, TypeOK
<1>2. ASSUME NEW d \in Receivers
      PROVE  Kept(d)'
  <2>1. CASE d = r
    <3>1. /\ on'[d] = k /\ inbox'[d] = EmptyInbox
          /\ next'[d] = published[k] + 1 /\ published' = published
      BY <2>1 DEF Subscribe, IndInv, TypeOK
    <3>2. published[k] \in Nat /\ Cap[k] \in Nat
      BY DEF IndInv, TypeOK
    <3> QED
      BY <3>1, <3>2, EmptyIsInbox DEF Kept
  <2>2. CASE d # r
    <3>1. /\ on'[d] = on[d] /\ inbox'[d] = inbox[d] /\ next'[d] = next[d]
          /\ published' = published
      BY <2>2 DEF Subscribe, IndInv, TypeOK
    <3> QED
      BY <3>1, Untouched DEF IndInv
  <2> QED
    BY <2>1, <2>2
<1> QED
  BY <1>1, <1>2 DEF IndInv

(* An event published reaches every receiver of its key; one that holds    *)
(* Cap events loses its oldest and is marked as lagging.                   *)
LEMMA PublishStep ==
  ASSUME IndInv, NEW k \in Keys, Publish(k)
  PROVE  IndInv'
<1> DEFINE e == published[k] + 1
<1> USE StreamsAssumption
<1>1. /\ e \in Nat /\ published[k] \in Nat /\ Cap[k] \in Nat \ {0}
      /\ published' = [published EXCEPT ![k] = e]
      /\ on' = on /\ next' = next
      /\ inbox' = [d \in Receivers |->
                     IF on[d] = k THEN Offer(inbox[d], e, Cap[k]) ELSE inbox[d]]
  BY DEF Publish, IndInv, TypeOK
<1> HIDE DEF e
<1>2. ASSUME NEW d \in Receivers, on[d] = k
      PROVE  inbox[d] \in Inboxes(Nat) /\ Len(inbox[d].queue) <= Cap[k]
  BY <1>2 DEF IndInv, TypeOK, Kept
<1>3. TypeOK'
  <2>1. inbox' \in [Receivers -> Inboxes(Nat)]
    <3> SUFFICES ASSUME NEW d \in Receivers
                 PROVE  (IF on[d] = k THEN Offer(inbox[d], e, Cap[k]) ELSE inbox[d]) \in Inboxes(Nat)
      BY <1>1
    <3>1. CASE on[d] = k
      <4>1. inbox[d] \in Inboxes(Nat) /\ Len(inbox[d].queue) \in Nat
        BY <3>1, <1>2 DEF Inboxes
      <4>2. Len(inbox[d].queue) < Cap[k] \/ Len(inbox[d].queue) = Cap[k]
        BY <3>1, <4>1, <1>1, <1>2
      <4> QED
        BY <3>1, <4>1, <1>1, OfferAdds
    <3>2. CASE on[d] # k
      BY <3>2 DEF IndInv, TypeOK
    <3> QED
      BY <3>1, <3>2
  <2> QED
    BY <2>1, <1>1 DEF IndInv, TypeOK
<1>4. ASSUME NEW d \in Receivers
      PROVE  Kept(d)'
  <2>1. CASE on[d] = k
    <3> DEFINE q == inbox[d].queue
               o == Offer(inbox[d], e, Cap[k])
               cap == Cap[k]
    <3>1. /\ q \in Seq(Nat) /\ Len(q) \in Nat /\ Len(q) <= cap
          /\ \A i \in 1..Len(q) : q[i] \in Nat /\ q[i] + Len(q) = published[k] + i
          /\ next[d] \in Nat
      <4>1. q \in Seq(Nat) /\ next[d] \in Nat
        BY DEF IndInv, TypeOK, Inboxes
      <4>2. on[d] # NoKey
        BY <2>1, <1>1
      <4>3. Len(q) <= cap /\ \A i \in 1..Len(q) : q[i] + Len(q) = published[k] + i
        BY <2>1, <4>2, HeldEvents
      <4>4. \A i \in 1..Len(q) : q[i] \in Nat
        BY <4>1
      <4>5. Len(q) \in Nat
        BY <4>1
      <4> QED
        BY <4>1, <4>3, <4>4, <4>5
    <3>2. inbox'[d] = o /\ on'[d] = k /\ published'[k] = e /\ next'[d] = next[d]
      BY <2>1, <1>1 DEF IndInv, TypeOK
    <3>3. e = published[k] + 1
      BY DEF e
    <3>4. CASE Len(q) < cap
      <4> DEFINE p == Append(q, e)
      <4>1. /\ o = [queue |-> p, lagged |-> inbox[d].lagged]
            /\ Len(p) = Len(q) + 1
            /\ \A i \in 1..Len(q) : p[i] = q[i]
            /\ p[Len(q) + 1] = e
        <5>1. inbox[d] \in Inboxes(Nat) /\ e \in Nat /\ Cap[k] \in Nat \ {0}
          BY <1>1, <1>2, <2>1
        <5>2. Len(inbox[d].queue) < Cap[k]
          BY <3>4
        <5>3. o = [queue |-> p, lagged |-> inbox[d].lagged]
          <6>1. PICK b \in Inboxes(Nat), c \in Nat \ {0} : b = inbox[d] /\ c = Cap[k]
            BY <5>1
          <6>2. Len(b.queue) < c
            BY <5>2, <6>1
          <6>3. (b.lagged \/ Len(b.queue) >= c) = b.lagged
            BY <6>1, <6>2 DEF Inboxes
          <6>4. Offer(b, e, c) = [queue |-> Append(b.queue, e), lagged |-> b.lagged]
            BY <6>2, <6>3 DEF Offer
          <6> QED
            BY <6>1, <6>4
        <5>4. Len(p) = Len(q) + 1
          BY <5>1, <5>2, OfferWithRoom
        <5>5. \A i \in 1..Len(q) : p[i] = q[i]
          BY <5>1, <5>2, OfferWithRoom
        <5>6. p[Len(q) + 1] = e
          BY <5>1, <5>2, OfferWithRoom
        <5> QED
          BY <5>3, <5>4, <5>5, <5>6
      <4> HIDE DEF o, p, q, cap
      <4>2. \A i \in 1..Len(p) : p[i] + Len(p) = e + i
        <5> SUFFICES ASSUME NEW i \in 1..Len(p)
                     PROVE  p[i] + Len(p) = e + i
          OBVIOUS
        <5>1. CASE i \in 1..Len(q)
          <6>1. PICK x \in Nat : p[i] = x /\ x + Len(q) = published[k] + i
            BY <5>1, <4>1, <3>1
          <6>2. PICK n \in Nat : Len(p) = n + 1 /\ Len(q) = n
            BY <4>1, <3>1
          <6>3. PICK m \in Nat : published[k] = m /\ e = m + 1
            BY <3>3, <1>1
          <6>4. i \in Nat
            BY <5>1, <3>1
          <6>5. x + (n + 1) = (m + 1) + i
            BY <6>1, <6>2, <6>3, <6>4, ShiftedSum
          <6> QED
            BY <6>1, <6>2, <6>3, <6>5
        <5>2. CASE i = Len(q) + 1
          <6>1. p[i] = e /\ Len(p) = i
            BY <5>2, <4>1
          <6> QED
            BY <6>1
        <5> QED
          BY <5>1, <5>2, <4>1, <3>1
      <4>3. inbox[d].lagged => FALSE
        BY <3>4, <2>1, <3>1, <1>1 DEF IndInv, Kept, q, cap
      <4>4. next[d] + Len(p) = e + 1
        <5>1. next[d] + Len(q) = published[k] + 1
          BY <4>3, <2>1 DEF IndInv, Kept, q
        <5> QED
          BY <5>1, <4>1, <3>1, <3>3, <1>1
      <4>5. Len(p) <= cap
        BY <4>1, <3>4, <3>1, <1>1 DEF cap
      <4> QED
        BY <4>1, <4>2, <4>3, <4>4, <4>5, <3>2 DEF Kept, cap
    <3>5. CASE Len(q) = cap
      <4> DEFINE p == Append(Tail(q), e)
      <4>1. /\ o = [queue |-> p, lagged |-> TRUE]
            /\ Len(p) = cap
            /\ \A i \in 1..cap : i # cap => p[i] = q[i + 1]
            /\ p[cap] = e
        <5>1. inbox[d] \in Inboxes(Nat) /\ e \in Nat /\ Cap[k] \in Nat \ {0}
          BY <1>1, <1>2, <2>1
        <5>2. Len(inbox[d].queue) = Cap[k]
          BY <3>5
        <5>3. o = [queue |-> p, lagged |-> TRUE]
          <6>1. ~(Len(inbox[d].queue) < Cap[k]) /\ Len(inbox[d].queue) >= Cap[k]
            BY <5>1, <5>2
          <6> QED
            BY <6>1 DEF Offer
        <5>4. Len(p) = cap
          BY <5>1, <5>2, OfferWhenFull
        <5>5. \A i \in 1..cap : i # cap => p[i] = q[i + 1]
          BY <5>1, <5>2, OfferWhenFull
        <5>6. p[cap] = e
          BY <5>1, <5>2, OfferWhenFull
        <5> QED
          BY <5>3, <5>4, <5>5, <5>6
      <4>2. cap \in Nat \ {0} /\ Len(q) = cap
        BY <1>1, <3>5
      <4>3. inbox[d].lagged => next[d] + cap <= published[k]
        BY <2>1 DEF IndInv, Kept
      <4>4. ~inbox[d].lagged => next[d] + Len(q) = published[k] + 1
        BY <2>1 DEF IndInv, Kept
      <4> HIDE DEF o, p, q, cap
      <4>5. \A i \in 1..cap : p[i] + cap = e + i
        <5> SUFFICES ASSUME NEW i \in 1..cap PROVE p[i] + cap = e + i
          OBVIOUS
        <5>1. CASE i = cap
          BY <5>1, <4>1
        <5>2. CASE i # cap
          <6>1. i + 1 \in 1..Len(q) /\ p[i] = q[i + 1]
            BY <5>2, <4>1, <4>2
          <6>2. PICK x \in Nat : q[i + 1] = x /\ x + Len(q) = published[k] + (i + 1)
            BY <6>1, <3>1
          <6>3. PICK n \in Nat : Len(q) = n /\ cap = n
            BY <4>2
          <6>4. PICK m \in Nat : published[k] = m /\ e = m + 1
            BY <3>3, <1>1
          <6>5. x + n = (m + 1) + i
            BY <6>2, <6>3, <6>4
          <6> QED
            BY <6>1, <6>2, <6>3, <6>4, <6>5
        <5> QED
          BY <5>1, <5>2
      <4>6. next[d] + cap <= e
        <5>1. PICK n \in Nat, m \in Nat, x \in Nat :
                cap = n /\ Len(q) = n /\ published[k] = m /\ e = m + 1 /\ next[d] = x
          BY <4>2, <3>1, <3>3, <1>1
        <5>2. CASE inbox[d].lagged
          <6>1. x + n <= m
            BY <5>1, <5>2, <4>3
          <6> QED
            BY <5>1, <6>1
        <5>3. CASE ~inbox[d].lagged
          <6>1. x + n = m + 1
            BY <5>1, <5>3, <4>4
          <6> QED
            BY <5>1, <6>1
        <5> QED
          BY <5>2, <5>3
      <4> QED
        BY <4>1, <4>2, <4>5, <4>6, <3>2 DEF Kept, cap
    <3>6. Len(q) < cap \/ Len(q) = cap
      <4>1. Len(q) \in Nat /\ cap \in Nat /\ Len(q) <= cap
        BY <3>1, <1>1
      <4> HIDE DEF q, cap
      <4> QED
        BY <4>1
    <3> QED
      BY <3>4, <3>5, <3>6
  <2>2. CASE on[d] # k
    <3>1. /\ on'[d] = on[d] /\ inbox'[d] = inbox[d] /\ next'[d] = next[d]
          /\ on[d] # NoKey => published'[on[d]] = published[on[d]]
      BY <2>2, <1>1 DEF IndInv, TypeOK
    <3> QED
      BY <3>1 DEF IndInv, Kept
  <2> QED
    BY <2>1, <2>2
<1> QED
  BY <1>3, <1>4 DEF IndInv

(* A lag reported: the receiver's place moves up to what it holds. *)
LEMMA ReportLagStep ==
  ASSUME IndInv, NEW r \in Receivers, ReportLag(r)
  PROVE  IndInv'
<1> DEFINE q == inbox[r].queue
           k == on[r]
<1> USE StreamsAssumption
<1>1. /\ k \in Keys /\ inbox[r].lagged
      /\ on' = on /\ published' = published
      /\ inbox' = [inbox EXCEPT ![r] = Caught(@)]
      /\ next' = [next EXCEPT ![r] = Head(q)]
  BY DEF ReportLag, IndInv, TypeOK
<1>2. Caught(inbox[r]) = [queue |-> q, lagged |-> FALSE] /\ Caught(inbox[r]) \in Inboxes(Nat)
  BY DEF Caught, IndInv, TypeOK, Inboxes
<1>3. /\ q \in Seq(Nat) /\ Len(q) = Cap[k] /\ Cap[k] \in Nat \ {0}
      /\ \A i \in 1..Len(q) : q[i] + Len(q) = published[k] + i
      /\ published[k] \in Nat
  BY <1>1, HeldEvents
<1>4. Head(q) \in Nat /\ Head(q) = q[1] /\ 1 \in 1..Len(q)
  BY <1>3
<1>5. TypeOK'
  BY <1>1, <1>2, <1>4 DEF IndInv, TypeOK
<1>6. ASSUME NEW d \in Receivers
      PROVE  Kept(d)'
  <2>1. CASE d = r
    <3>1. /\ on'[d] = k /\ inbox'[d] = [queue |-> q, lagged |-> FALSE]
          /\ next'[d] = Head(q) /\ published' = published
      BY <2>1, <1>1, <1>2 DEF IndInv, TypeOK
    <3>2. Head(q) + Len(q) = published[k] + 1
      BY <1>3, <1>4
    <3> QED
      BY <3>1, <3>2, <1>3 DEF Kept
  <2>2. CASE d # r
    <3>1. /\ on'[d] = on[d] /\ inbox'[d] = inbox[d] /\ next'[d] = next[d]
          /\ published' = published
      BY <2>2, <1>1 DEF IndInv, TypeOK
    <3> QED
      BY <3>1, Untouched DEF IndInv
  <2> QED
    BY <2>1, <2>2
<1> QED
  BY <1>5, <1>6 DEF IndInv

(* An event delivered: what is left starts after it. *)
LEMMA DeliverStep ==
  ASSUME IndInv, NEW r \in Receivers, Deliver(r)
  PROVE  IndInv'
<1> DEFINE q == inbox[r].queue
           k == on[r]
           t == Taken(inbox[r])
<1> USE StreamsAssumption
<1>1. /\ k \in Keys /\ HasNews(inbox[r]) /\ inbox[r] \in Inboxes(Nat)
      /\ on' = on /\ published' = published
      /\ inbox' = [inbox EXCEPT ![r] = t]
      /\ next' = [next EXCEPT ![r] = Head(q) + 1]
  BY DEF Deliver, IndInv, TypeOK
<1>2. /\ t \in Inboxes(Nat) /\ ~t.lagged
      /\ Head(q) \in Nat /\ Head(q) = q[1]
      /\ Len(q) \in Nat \ {0} /\ Len(t.queue) = Len(q) - 1
      /\ \A i \in 1..Len(t.queue) : i + 1 \in 1..Len(q) /\ t.queue[i] = q[i + 1]
  BY <1>1, TakenInbox
<1>3. /\ Len(q) <= Cap[k] /\ Cap[k] \in Nat /\ published[k] \in Nat
      /\ \A i \in 1..Len(q) : q[i] \in Nat /\ q[i] + Len(q) = published[k] + i
  <2>1. on[r] # NoKey
    BY <1>1
  <2>2. /\ Len(q) <= Cap[k] /\ Cap[k] \in Nat /\ published[k] \in Nat /\ q \in Seq(Nat)
        /\ \A i \in 1..Len(q) : q[i] + Len(q) = published[k] + i
    BY <2>1, HeldEvents
  <2>3. \A i \in 1..Len(q) : q[i] \in Nat
    BY <2>2
  <2> QED
    BY <2>2, <2>3
<1>4. TypeOK'
  BY <1>1, <1>2 DEF IndInv, TypeOK
<1> HIDE DEF t, q
<1>5. ASSUME NEW d \in Receivers
      PROVE  Kept(d)'
  <2>1. CASE d = r
    <3>1. /\ on'[d] = k /\ inbox'[d] = t
          /\ next'[d] = Head(q) + 1 /\ published' = published
      BY <2>1, <1>1 DEF IndInv, TypeOK
    <3>2. Len(t.queue) <= Cap[k]
      BY <1>2, <1>3
    <3>3. ASSUME NEW i \in 1..Len(t.queue)
          PROVE  t.queue[i] + Len(t.queue) = published[k] + i
      <4>1. PICK x \in Nat : t.queue[i] = x /\ x + Len(q) = published[k] + (i + 1)
        BY <1>2, <1>3
      <4>2. PICK n \in Nat : Len(q) = n /\ Len(t.queue) = n - 1
        BY <1>2
      <4>3. PICK m \in Nat : published[k] = m
        BY <1>3
      <4>4. i \in Nat
        BY <1>2
      <4>5. x + (n - 1) = m + i
        BY <4>1, <4>2, <4>3, <4>4
      <4> QED
        BY <4>1, <4>2, <4>3, <4>5
    <3>4. Head(q) + 1 + Len(t.queue) = published[k] + 1
      <4>1. Head(q) + Len(q) = published[k] + 1
        BY <1>2, <1>3
      <4>2. Len(t.queue) = Len(q) - 1 /\ Len(q) \in Nat \ {0} /\ Head(q) \in Nat
        BY <1>2
      <4> QED
        BY <4>1, <4>2, <1>3
    <3> QED
      BY <3>1, <3>2, <3>3, <3>4, <1>2 DEF Kept
  <2>2. CASE d # r
    <3>1. /\ on'[d] = on[d] /\ inbox'[d] = inbox[d] /\ next'[d] = next[d]
          /\ published' = published
      BY <2>2, <1>1 DEF IndInv, TypeOK
    <3> QED
      BY <3>1, Untouched DEF IndInv
  <2> QED
    BY <2>1, <2>2
<1> QED
  BY <1>4, <1>5 DEF IndInv

(* A receiver dropped promises nothing any more. *)
LEMMA UnsubscribeStep ==
  ASSUME IndInv, NEW r \in Receivers, Unsubscribe(r)
  PROVE  IndInv'
<1>1. TypeOK'
  BY EmptyIsInbox DEF Unsubscribe, IndInv, TypeOK
<1>2. ASSUME NEW d \in Receivers
      PROVE  Kept(d)'
  <2>1. CASE d = r
    BY <2>1 DEF Unsubscribe, IndInv, TypeOK, Kept
  <2>2. CASE d # r
    <3>1. /\ on'[d] = on[d] /\ inbox'[d] = inbox[d] /\ next'[d] = next[d]
          /\ published' = published
      BY <2>2 DEF Unsubscribe, IndInv, TypeOK
    <3> QED
      BY <3>1, Untouched DEF IndInv
  <2> QED
    BY <2>1, <2>2
<1> QED
  BY <1>1, <1>2 DEF IndInv

-----------------------------------------------------------------------------
(* The invariant holds in every state of every execution. *)
THEOREM Invariance == Spec => []IndInv
<1>1. Init => IndInv
  BY StreamsAssumption, EmptyIsInbox DEF Init, IndInv, TypeOK, Kept
<1>2. IndInv /\ [Next]_vars => IndInv'
  <2> SUFFICES ASSUME IndInv, [Next]_vars
               PROVE  IndInv'
    OBVIOUS
  <2>1. ASSUME NEW r \in Receivers, NEW k \in Keys, Subscribe(r, k)
        PROVE  IndInv'
    BY <2>1, SubscribeStep
  <2>2. ASSUME NEW k \in Keys, Publish(k)
        PROVE  IndInv'
    BY <2>2, PublishStep
  <2>3. ASSUME NEW r \in Receivers, ReportLag(r)
        PROVE  IndInv'
    BY <2>3, ReportLagStep
  <2>4. ASSUME NEW r \in Receivers, Deliver(r)
        PROVE  IndInv'
    BY <2>4, DeliverStep
  <2>5. ASSUME NEW r \in Receivers, Unsubscribe(r)
        PROVE  IndInv'
    BY <2>5, UnsubscribeStep
  <2>6. CASE UNCHANGED vars
    BY <2>6 DEF vars, IndInv, TypeOK, Kept
  <2> QED
    BY <2>1, <2>2, <2>3, <2>4, <2>5, <2>6 DEF Next
<1> QED
  BY <1>1, <1>2, PTL DEF Spec

(* Every variable keeps its type. *)
THEOREM TypeCorrect == Spec => []TypeOK
BY Invariance, PTL DEF IndInv

(* Whatever the capacity, an inbox holds the newest events of its key, in  *)
(* order and without a hole.                                               *)
THEOREM KeepsNewest == Spec => []NewestRetained
<1>1. IndInv => NewestRetained
  BY DEF IndInv, Kept, NewestRetained
<1> QED
  BY <1>1, Invariance, PTL

(* No event is lost in silence, and none is lost before more than Cap were *)
(* left unread.                                                            *)
THEOREM ReportsLoss == Spec => []LossReported
<1>1. IndInv => LossReported
  BY DEF IndInv, Kept, LossReported
<1> QED
  BY <1>1, Invariance, PTL
=============================================================================
