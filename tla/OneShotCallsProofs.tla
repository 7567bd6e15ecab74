------------------------- MODULE OneShotCallsProofs -------------------------
(***************************************************************************)
(* What follows from the promise of OneShotCalls alone, for any calls,     *)
(* keys and outcomes.                                                      *)
(***************************************************************************)
EXTENDS OneShotCalls, TLAPS

(* A call not made has no outcome; one that is made has a key. *)
CallsKeyed ==
  \A c \in Calls :
    /\ phase[c] = "idle" => outcome[c] = Unset
    /\ phase[c] # "idle" => key[c] \in Keys

IndInv ==
  /\ TypeOK
  /\ CallsKeyed
  /\ OneWaiter
  /\ CanceledHasCause

(* What is given changes the channels of those who wait for it, and no     *)
(* other.                                                                  *)
LEMMA GiveSettles ==
  ASSUME NEW k, NEW v, Give(k, v), NEW c \in Calls
  PROVE  outcome'[c] = IF Waits(c, k) THEN v ELSE outcome[c]
BY DEF Give

(* Initially no call was made. *)
LEMMA InitInv ==
  ASSUME ValuesDistinct, Init
  PROVE  IndInv
BY DEF ValuesDistinct, Init, IndInv, TypeOK, CallsKeyed, OneWaiter, Waits, CanceledHasCause

(* A call that is made is the one that waits on its key: whoever waited    *)
(* before has an outcome now, and the new call is its cause.               *)
LEMMA MakeStep ==
  ASSUME ValuesDistinct, IndInv, NEW c \in Calls, NEW k \in Keys, Make(c, k)
  PROVE  IndInv'
<1> USE DEF ValuesDistinct, IndInv, Make
<1>1. TypeOK'
  BY DEF TypeOK, Give
<1>2. \A d \in Calls \ {c} : phase'[d] = phase[d] /\ key'[d] = key[d]
  BY DEF TypeOK
<1>3. phase'[c] = "awaiting" /\ key'[c] = k /\ outcome'[c] = Unset
  BY GiveSettles DEF TypeOK, CallsKeyed, Waits
<1>4. CallsKeyed'
  BY <1>2, <1>3, GiveSettles DEF TypeOK, CallsKeyed, Waits
<1>5. \A d \in Calls \ {c}, j \in Keys : Waits(d, j)' => Waits(d, j) /\ j # k
  BY <1>2, GiveSettles DEF Waits
<1>6. OneWaiter'
  BY <1>3, <1>5 DEF OneWaiter, Waits
<1>7. CanceledHasCause'
  <2> SUFFICES ASSUME NEW b \in Calls, outcome'[b] = Canceled
               PROVE  \E d \in Calls \ {b} : key'[d] = key'[b] /\ phase'[d] # "idle"
    BY DEF CanceledHasCause
  <2>1. b # c
    BY <1>3
  <2>2. CASE Waits(b, k)
    BY <2>1, <2>2, <1>2, <1>3 DEF Waits
  <2>3. CASE ~Waits(b, k)
    <3>1. PICK d \in Calls \ {b} : key[d] = key[b] /\ phase[d] # "idle"
      BY <2>3, GiveSettles DEF CanceledHasCause
    <3> QED
      BY <3>1, <2>1, <1>2
  <2> QED
    BY <2>2, <2>3
<1> QED
  BY <1>1, <1>4, <1>6, <1>7

(* An outcome that comes ends a wait, and starts none. *)
LEMMA ArriveStep ==
  ASSUME ValuesDistinct, IndInv, NEW k \in Keys, NEW v \in Outcomes, Arrive(k, v)
  PROVE  IndInv'
<1> USE DEF ValuesDistinct, IndInv, Arrive
<1>1. TypeOK'
  BY DEF TypeOK, Give
<1>2. CallsKeyed' /\ CanceledHasCause'
  BY GiveSettles DEF CallsKeyed, CanceledHasCause, Waits
<1>3. OneWaiter'
  BY GiveSettles DEF OneWaiter, Waits
<1> QED
  BY <1>1, <1>2, <1>3

(* A call that ends waits no longer, and remains the cause it was. *)
LEMMA EndStep ==
  ASSUME IndInv, NEW c \in Calls, Return(c) \/ Drop(c)
  PROVE  IndInv'
<1> USE DEF IndInv, Return, Drop
<1>1. TypeOK'
  BY DEF TypeOK
<1>2. \A d \in Calls :
        /\ phase'[d] # "idle" <=> phase[d] # "idle"
        /\ phase'[d] = "awaiting" => phase[d] = "awaiting"
  BY DEF TypeOK
<1>3. UNCHANGED <<key, outcome>>
  OBVIOUS
<1>4. CallsKeyed' /\ CanceledHasCause'
  BY <1>2, <1>3 DEF CallsKeyed, CanceledHasCause
<1>5. OneWaiter'
  BY <1>2, <1>3 DEF OneWaiter, Waits
<1> QED
  BY <1>1, <1>4, <1>5

-----------------------------------------------------------------------------
(* The invariant holds in every behaviour. *)
THEOREM Invariance ==
  ASSUME ValuesDistinct
  PROVE  Spec => []IndInv
<1>1. IndInv /\ [Next]_vars => IndInv'
  <2>1. CASE UNCHANGED vars
    BY <2>1 DEF vars, IndInv, TypeOK, CallsKeyed, OneWaiter, Waits, CanceledHasCause
  <2> QED
    BY <2>1, MakeStep, ArriveStep, EndStep DEF Next
<1>2. Init => IndInv
  BY InitInv
<1> QED
  BY <1>1, <1>2, PTL DEF Spec

(* An outcome never has two takers. *)
THEOREM OneTaker ==
  ASSUME ValuesDistinct
  PROVE  Spec => []OneWaiter
BY Invariance, PTL DEF IndInv

(* Canceled always means another call about the same thing. *)
THEOREM CancellationCaused ==
  ASSUME ValuesDistinct
  PROVE  Spec => []CanceledHasCause
BY Invariance, PTL DEF IndInv

(* What a channel holds, it holds for good, and it got it while its caller *)
(* waited.                                                                 *)
THEOREM OutcomesStay ==
  ASSUME ValuesDistinct
  PROVE  Spec => OutcomeStays
<1> DEFINE Stays ==
      \A c \in Calls :
        outcome'[c] # outcome[c] => outcome[c] = Unset /\ phase[c] = "awaiting"
<1>1. [Next]_vars => Stays
  <2>1. ASSUME NEW k, NEW v, Give(k, v)
        PROVE  Stays
    BY <2>1, GiveSettles DEF Waits
  <2> QED
    BY <2>1 DEF Next, Make, Arrive, Return, Drop, vars
<1> QED
  BY <1>1, PTL DEF Spec, OutcomeStays
=============================================================================
