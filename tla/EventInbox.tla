----------------------------- MODULE EventInbox -----------------------------
(***************************************************************************)
(* What a receiver of an async_broadcast channel holds, the channel being  *)
(* set up by util.rs: bounded, with overflow on, and kept open by an       *)
(* inactive receiver.  A full inbox gives up its oldest event for a new    *)
(* one, and the receiver is told once that it lagged.                      *)
(***************************************************************************)
EXTENDS Naturals, Sequences

(* new_receiver(): events published before it are not seen. *)
EmptyInbox == [queue |-> <<>>, lagged |-> FALSE]

(* Mutant of Offer: overflow left off, so that a full inbox refuses events. *)
OfferRefusing(b, e, cap) ==
  IF Len(b.queue) < cap THEN [b EXCEPT !.queue = Append(@, e)] ELSE [b EXCEPT !.lagged = TRUE]

(* Mutant of Offer: the event overwritten is not accounted for. *)
OfferForgetting(b, e, cap) ==
  [b EXCEPT !.queue = Append(IF Len(@) < cap THEN @ ELSE Tail(@), e)]

(* Mutant of Offer: filling the inbox already counts as a lag. *)
OfferLaggingEarly(b, e, cap) ==
  [ queue  |-> Append(IF Len(b.queue) < cap THEN b.queue ELSE Tail(b.queue), e),
    lagged |-> b.lagged \/ Len(b.queue) + 1 >= cap ]

(* try_broadcast() of event e, as one of the receivers sees it. *)
Offer(b, e, cap) ==
  [ queue  |-> Append(IF Len(b.queue) < cap THEN b.queue ELSE Tail(b.queue), e),
    lagged |-> b.lagged \/ Len(b.queue) >= cap ]

(* recv() has something to say, an event or Err(Overflowed). *)
HasNews(b) == b.queue # <<>>

(* recv() has reported the lag. *)
Caught(b) == [queue |-> b.queue, lagged |-> FALSE]

(* The oldest event is taken; Stream::next() passes over a lag in silence. *)
Taken(b) == [queue |-> Tail(b.queue), lagged |-> FALSE]

(* An inbox of events of E. *)
Inboxes(E) == [queue : Seq(E), lagged : BOOLEAN]
=============================================================================
