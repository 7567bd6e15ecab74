---------------------------- MODULE OneShotCalls ----------------------------
(***************************************************************************)
(* What the methods that await a oneshot channel promise their callers,    *)
(* whatever maps the senders wait in and whatever CoreBluetooth does:      *)
(* connect_with_options, and the requests of PeripheralAsync.              *)
(*                                                                         *)
(* A call is about a key.  One call waits on a key at a time: the next one *)
(* takes its place, and it fails.  An outcome is for a key, and goes to    *)
(* whoever waits on it by then, or to nobody.                              *)
(***************************************************************************)
CONSTANTS
  Calls,     \* calls of the methods; each is one future, used once
  Keys,      \* what calls are about: peripherals, or attributes and operations
  Outcomes,  \* what a callback may send
  Unset,     \* nothing was sent
  Canceled,  \* the sender was dropped
  NoKey

VARIABLES
  phase,    \* call |-> "idle", "awaiting", "returned" or "dropped"
  key,      \* call |-> its key
  outcome   \* call |-> what its channel holds

vars == <<phase, key, outcome>>

Init ==
  /\ phase = [c \in Calls |-> "idle"]
  /\ key = [c \in Calls |-> NoKey]
  /\ outcome = [c \in Calls |-> Unset]

(* Call c waits on key k. *)
Waits(c, k) == phase[c] = "awaiting" /\ key[c] = k /\ outcome[c] = Unset

(* v reaches whoever waits on k. *)
Give(k, v) == outcome' = [c \in Calls |-> IF Waits(c, k) THEN v ELSE outcome[c]]

(* A call is made, and takes the place of the one that waits. *)
Make(c, k) ==
  /\ phase[c] = "idle"
  /\ Give(k, Canceled)
  /\ phase' = [phase EXCEPT ![c] = "awaiting"]
  /\ key' = [key EXCEPT ![c] = k]

(* A callback. *)
Arrive(k, v) ==
  /\ Give(k, v)
  /\ UNCHANGED <<phase, key>>

(* A call returns what its channel holds. *)
Return(c) ==
  /\ phase[c] = "awaiting"
  /\ outcome[c] # Unset
  /\ phase' = [phase EXCEPT ![c] = "returned"]
  /\ UNCHANGED <<key, outcome>>

(* The caller gives up. *)
Drop(c) ==
  /\ phase[c] = "awaiting"
  /\ phase' = [phase EXCEPT ![c] = "dropped"]
  /\ UNCHANGED <<key, outcome>>

Next ==
  \/ \E c \in Calls, k \in Keys : Make(c, k)
  \/ \E k \in Keys, v \in Outcomes : Arrive(k, v)
  \/ \E c \in Calls : Return(c) \/ Drop(c)

Spec == Init /\ [][Next]_vars

-----------------------------------------------------------------------------
(* Properties.                                                             *)

(* The values of a channel can be told apart. *)
ValuesDistinct == Unset # Canceled /\ Unset \notin Outcomes /\ Canceled \notin Outcomes

(* Every variable has its type. *)
TypeOK ==
  /\ phase \in [Calls -> {"idle", "awaiting", "returned", "dropped"}]
  /\ key \in [Calls -> Keys \union {NoKey}]
  /\ outcome \in [Calls -> Outcomes \union {Unset, Canceled}]

(* An outcome has one taker: no two calls wait on a key. *)
OneWaiter ==
  \A k \in Keys : \A c, d \in Calls : Waits(c, k) /\ Waits(d, k) => c = d

(* A call fails with Canceled only when a later call took its place.       *)
CanceledHasCause ==
  \A c \in Calls :
    outcome[c] = Canceled => \E d \in Calls \ {c} : key[d] = key[c] /\ phase[d] # "idle"

(* A channel is used once, and only for a caller who listens: what it      *)
(* holds is what the call will return.                                     *)
OutcomeStays ==
  [][\A c \in Calls :
       outcome'[c] # outcome[c] => outcome[c] = Unset /\ phase[c] = "awaiting"]_vars
=============================================================================
