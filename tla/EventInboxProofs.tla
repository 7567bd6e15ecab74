-------------------------- MODULE EventInboxProofs --------------------------
(***************************************************************************)
(* Facts about the inboxes of EventInbox, for events of any set E and any  *)
(* capacity: what offering an event and taking one do to them.             *)
(***************************************************************************)
EXTENDS EventInbox, TLAPS

(* An inbox that is offered an event holds it. *)
LEMMA OfferAdds ==
  ASSUME NEW E, NEW b \in Inboxes(E), NEW e \in E, NEW cap \in Nat \ {0}
  PROVE  /\ Offer(b, e, cap) \in Inboxes(E)
         /\ \E i \in DOMAIN Offer(b, e, cap).queue : Offer(b, e, cap).queue[i] = e
<1> DEFINE q == IF Len(b.queue) < cap THEN b.queue ELSE Tail(b.queue)
<1>1. b.queue \in Seq(E) /\ b.lagged \in BOOLEAN /\ Len(b.queue) \in Nat
  BY DEF Inboxes
<1>2. q \in Seq(E)
  <2>1. CASE Len(b.queue) < cap
    BY <1>1, <2>1
  <2>2. CASE ~(Len(b.queue) < cap)
    <3>1. b.queue # <<>>
      BY <1>1, <2>2
    <3> QED
      BY <1>1, <2>2, <3>1
  <2> QED
    BY <2>1, <2>2
<1> HIDE DEF q
<1>3. Append(q, e) \in Seq(E) /\ Append(q, e)[Len(q) + 1] = e
  BY <1>2
<1>4. Len(q) + 1 \in DOMAIN Append(q, e)
  BY <1>2
<1>5. Offer(b, e, cap) = [queue |-> Append(q, e), lagged |-> b.lagged \/ Len(b.queue) >= cap]
  BY DEF Offer, q
<1>6. (b.lagged \/ Len(b.queue) >= cap) \in BOOLEAN
  OBVIOUS
<1> QED
  BY <1>3, <1>4, <1>5, <1>6 DEF Inboxes

(* Its receiver has something to read. *)
LEMMA OfferIsNews ==
  ASSUME NEW E, NEW b \in Inboxes(E), NEW e \in E, NEW cap \in Nat \ {0}
  PROVE  HasNews(Offer(b, e, cap))
<1>1. PICK q : q = Offer(b, e, cap).queue
  OBVIOUS
<1>2. q \in Seq(E) /\ DOMAIN q # {}
  BY <1>1, OfferAdds DEF Inboxes
<1> QED
  BY <1>1, <1>2 DEF HasNews

(* An event is lost from an inbox only if it says so. *)
LEMMA OfferKeeps ==
  ASSUME NEW E, NEW b \in Inboxes(E), NEW e \in E, NEW cap \in Nat \ {0}, NEW i \in DOMAIN b.queue
  PROVE  \/ Offer(b, e, cap).lagged
         \/ \E j \in DOMAIN Offer(b, e, cap).queue : Offer(b, e, cap).queue[j] = b.queue[i]
<1>1. b.queue \in Seq(E) /\ Len(b.queue) \in Nat
  BY DEF Inboxes
<1>2. CASE Len(b.queue) < cap
  <2>1. Offer(b, e, cap).queue = Append(b.queue, e)
    BY <1>2 DEF Offer
  <2>2. i \in DOMAIN Append(b.queue, e) /\ Append(b.queue, e)[i] = b.queue[i]
    BY <1>1
  <2> QED
    BY <2>1, <2>2
<1>3. CASE ~(Len(b.queue) < cap)
  <2>1. Len(b.queue) >= cap
    BY <1>1, <1>3
  <2> QED
    BY <2>1 DEF Offer
<1> QED
  BY <1>2, <1>3

(* A lag that was not reported is not forgotten. *)
LEMMA OfferStaysLagged ==
  ASSUME NEW b, NEW e, NEW cap, b.lagged
  PROVE  Offer(b, e, cap).lagged
BY DEF Offer

(* Offering an event to an inbox with room adds it at the end. *)
LEMMA OfferWithRoom ==
  ASSUME NEW E, NEW b \in Inboxes(E), NEW e \in E, NEW cap \in Nat \ {0},
         Len(b.queue) < cap
  PROVE  /\ Offer(b, e, cap) = [queue |-> Append(b.queue, e), lagged |-> b.lagged]
         /\ Offer(b, e, cap) \in Inboxes(E)
         /\ Len(Append(b.queue, e)) = Len(b.queue) + 1
         /\ \A i \in 1..Len(b.queue) : Append(b.queue, e)[i] = b.queue[i]
         /\ Append(b.queue, e)[Len(b.queue) + 1] = e
<1>1. b.queue \in Seq(E) /\ Len(b.queue) \in Nat /\ b.lagged \in BOOLEAN
  BY DEF Inboxes
<1>2. (b.lagged \/ Len(b.queue) >= cap) = b.lagged
  BY <1>1
<1>3. Offer(b, e, cap) = [queue |-> Append(b.queue, e), lagged |-> b.lagged]
  BY <1>2 DEF Offer
<1>4. Append(b.queue, e) \in Seq(E) /\ Len(Append(b.queue, e)) = Len(b.queue) + 1
  BY <1>1
<1>5. \A i \in 1..Len(b.queue) : Append(b.queue, e)[i] = b.queue[i]
  BY <1>1
<1>6. Append(b.queue, e)[Len(b.queue) + 1] = e
  BY <1>1
<1> QED
  BY <1>1, <1>3, <1>4, <1>5, <1>6 DEF Inboxes

(* Offering one to a full inbox takes the oldest away. *)
LEMMA OfferWhenFull ==
  ASSUME NEW E, NEW b \in Inboxes(E), NEW e \in E, NEW cap \in Nat \ {0},
         Len(b.queue) = cap
  PROVE  /\ Offer(b, e, cap) = [queue |-> Append(Tail(b.queue), e), lagged |-> TRUE]
         /\ Offer(b, e, cap) \in Inboxes(E)
         /\ Len(Append(Tail(b.queue), e)) = cap
         /\ \A i \in 1..cap : i # cap => Append(Tail(b.queue), e)[i] = b.queue[i + 1]
         /\ Append(Tail(b.queue), e)[cap] = e
<1> DEFINE t == Tail(b.queue)
<1>1. b.queue \in Seq(E) /\ Len(b.queue) \in Nat
  BY DEF Inboxes
<1>2. ~(Len(b.queue) < cap) /\ Len(b.queue) >= cap
  BY <1>1
<1>3. Offer(b, e, cap) = [queue |-> Append(t, e), lagged |-> TRUE]
  BY <1>2 DEF Offer
<1>4. t \in Seq(E) /\ Len(t) = cap - 1 /\ \A i \in 1..Len(t) : t[i] = b.queue[i + 1]
  BY <1>1
<1> HIDE DEF t
<1>5. Append(t, e) \in Seq(E) /\ Len(Append(t, e)) = cap
  BY <1>4
<1>6. \A i \in 1..cap : i # cap => i \in 1..Len(t) /\ Append(t, e)[i] = t[i]
  BY <1>4
<1>7. Append(t, e)[cap] = e
  BY <1>4
<1>8. \A i \in 1..cap : i # cap => Append(t, e)[i] = b.queue[i + 1]
  BY <1>4, <1>6
<1> QED
  BY <1>3, <1>5, <1>7, <1>8 DEF Inboxes, t

(* Taking an event leaves the others, moved up by one. *)
LEMMA TakenInbox ==
  ASSUME NEW E, NEW b \in Inboxes(E), HasNews(b)
  PROVE  /\ Taken(b) \in Inboxes(E)
         /\ ~Taken(b).lagged
         /\ Head(b.queue) \in E /\ Head(b.queue) = b.queue[1]
         /\ Len(b.queue) \in Nat \ {0}
         /\ Len(Taken(b).queue) = Len(b.queue) - 1
         /\ \A i \in 1..Len(Taken(b).queue) :
              i + 1 \in 1..Len(b.queue) /\ Taken(b).queue[i] = b.queue[i + 1]
<1> DEFINE q == b.queue
           t == Tail(q)
<1>1. q \in Seq(E) /\ q # <<>>
  BY DEF Inboxes, HasNews
<1>2. Taken(b) = [queue |-> t, lagged |-> FALSE]
  BY DEF Taken
<1>3. /\ Len(q) \in Nat \ {0} /\ Head(q) \in E /\ Head(q) = q[1]
      /\ t \in Seq(E) /\ Len(t) = Len(q) - 1
  BY <1>1
<1>4. \A i \in 1..Len(t) : i + 1 \in 1..Len(q) /\ t[i] = q[i + 1]
  BY <1>1, <1>3
<1> QED
  BY <1>2, <1>3, <1>4 DEF Inboxes

(* A receiver just made holds nothing, and has missed nothing. *)
LEMMA EmptyIsInbox ==
  ASSUME NEW E
  PROVE  EmptyInbox \in Inboxes(E) /\ EmptyInbox.queue = <<>> /\ ~EmptyInbox.lagged
BY DEF EmptyInbox, Inboxes
=============================================================================
