---------------------------- MODULE EventStreams ----------------------------
(***************************************************************************)
(* What the event streams of the crate promise a subscriber, without the   *)
(* senders, the map they may live in, or who publishes: a subscriber gets  *)
(* every event of its key published after it subscribed, in order, except  *)
(* that one it leaves unread may be overwritten by Cap later ones, and     *)
(* then it is told so.                                                     *)
(***************************************************************************)
EXTENDS EventInbox

CONSTANTS
  Receivers,   \* the subscribers
  Keys,        \* what can be subscribed to
  Cap,         \* key |-> events an inbox holds
  NoKey,       \* subscribed to nothing
  EventNumbers \* numbers an event may have: Nat, or a bound for model checking

ASSUME StreamsAssumption ==
  /\ Cap \in [Keys -> Nat \ {0}]
  /\ NoKey \notin Keys
  /\ EventNumbers \subseteq Nat

VARIABLES
  on,        \* receiver |-> its key, or NoKey
  inbox,     \* receiver |-> its inbox, of event numbers
  next,      \* receiver |-> the first event neither given to it nor reported lost
  published  \* key |-> number of events published

vars == <<on, inbox, next, published>>

Init ==
  /\ on = [r \in Receivers |-> NoKey]
  /\ inbox = [r \in Receivers |-> EmptyInbox]
  /\ next = [r \in Receivers |-> 1]
  /\ published = [k \in Keys |-> 0]

Subscribe(r, k) ==
  /\ on[r] = NoKey
  /\ on' = [on EXCEPT ![r] = k]
  /\ inbox' = [inbox EXCEPT ![r] = EmptyInbox]
  /\ next' = [next EXCEPT ![r] = published[k] + 1]
  /\ UNCHANGED published

Publish(k) ==
  /\ published[k] + 1 \in EventNumbers
  /\ published' = [published EXCEPT ![k] = @ + 1]
  /\ inbox' = [r \in Receivers |->
                 IF on[r] = k THEN Offer(inbox[r], published[k] + 1, Cap[k]) ELSE inbox[r]]
  /\ UNCHANGED <<on, next>>

(* Err(Overflowed). *)
ReportLag(r) ==
  /\ on[r] # NoKey
  /\ inbox[r].lagged
  /\ inbox' = [inbox EXCEPT ![r] = Caught(@)]
  /\ next' = [next EXCEPT ![r] = Head(inbox[r].queue)]
  /\ UNCHANGED <<on, published>>

(* The next event, of a subscriber that has seen, or ignores, a lag. *)
Deliver(r) ==
  /\ on[r] # NoKey
  /\ HasNews(inbox[r])
  /\ inbox' = [inbox EXCEPT ![r] = Taken(@)]
  /\ next' = [next EXCEPT ![r] = Head(inbox[r].queue) + 1]
  /\ UNCHANGED <<on, published>>

(* Mutant of Unsubscribe: what was the inbox is freed with the receiver. *)
UnsubscribeFreeing(r) ==
  /\ on[r] # NoKey
  /\ on' = [on EXCEPT ![r] = NoKey]
  /\ inbox' = [inbox EXCEPT ![r] = NoKey]
  /\ UNCHANGED <<next, published>>

(* The receiver is dropped, perhaps as it returns its first event or lag. *)
Unsubscribe(r) ==
  /\ on[r] # NoKey
  /\ on' = [on EXCEPT ![r] = NoKey]
  /\ inbox' = [inbox EXCEPT ![r] = EmptyInbox]
  /\ UNCHANGED <<next, published>>

Next ==
  \/ \E r \in Receivers, k \in Keys : Subscribe(r, k)
  \/ \E k \in Keys : Publish(k)
  \/ \E r \in Receivers : ReportLag(r) \/ Deliver(r) \/ Unsubscribe(r)

Spec == Init /\ [][Next]_vars

-----------------------------------------------------------------------------
(* Every variable has its type. *)
TypeOK ==
  /\ on \in [Receivers -> Keys \union {NoKey}]
  /\ inbox \in [Receivers -> Inboxes(Nat)]
  /\ next \in [Receivers -> Nat]
  /\ published \in [Keys -> Nat]

(* An inbox holds the newest events of its key, in order and without a     *)
(* hole, and no more than the channel's capacity.                          *)
NewestRetained ==
  \A r \in Receivers :
    on[r] # NoKey =>
      LET q == inbox[r].queue
      IN  /\ Len(q) <= Cap[on[r]]
          /\ \A i \in 1..Len(q) : q[i] + Len(q) = published[on[r]] + i

(* No event is lost in silence: unless the inbox says it lagged, what it   *)
(* holds starts where its receiver left off.  It lags only if the receiver *)
(* let more events pass than the channel holds.                            *)
LossReported ==
  \A r \in Receivers :
    on[r] # NoKey =>
      IF inbox[r].lagged
        THEN /\ next[r] + Cap[on[r]] <= published[on[r]]
             /\ Len(inbox[r].queue) = Cap[on[r]]
        ELSE next[r] + Len(inbox[r].queue) = published[on[r]] + 1
=============================================================================
