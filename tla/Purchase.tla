------------------------------ MODULE Purchase ------------------------------
(***************************************************************************)
(* What the payment pipeline promises for a checkout order, whatever order *)
(* events arrive in and however often they are delivered: the goods of an  *)
(* order (one per fulfillment rule of its SKU) are delivered once, all     *)
(* together, after a valid payment; each of them is taken back at most     *)
(* once, after the payment was reversed, and is never delivered again.     *)
(***************************************************************************)
EXTENDS Integers

CONSTANTS Orders, Rules

VARIABLES
  paid,       \* orders with a valid payment on record
  reversed,   \* orders with a refund, dispute or cancellation on record
  granted,    \* how often each good of an order was delivered
  taken       \* how often each good of an order was taken back

vars == <<paid, reversed, granted, taken>>

Nothing == [o \in Orders |-> [r \in Rules |-> 0]]

Init ==
  /\ paid = {} /\ reversed = {}
  /\ granted = Nothing /\ taken = Nothing

Pay(o) ==
  /\ paid' = paid \cup {o}
  /\ UNCHANGED <<reversed, granted, taken>>

Reverse(o) ==
  /\ reversed' = reversed \cup {o}
  /\ UNCHANGED <<paid, granted, taken>>

Deliver(o) ==
  /\ o \in paid
  /\ granted[o] = Nothing[o]
  /\ granted' = [granted EXCEPT ![o] = [r \in Rules |-> 1]]
  /\ UNCHANGED <<paid, reversed, taken>>

TakeBack(o, S) ==
  /\ o \in reversed
  /\ \A r \in S : granted[o][r] = 1 /\ taken[o][r] = 0
  /\ taken' = [taken EXCEPT ![o] = [r \in Rules |-> IF r \in S THEN 1 ELSE @[r]]]
  /\ UNCHANGED <<paid, reversed, granted>>

Next ==
  \E o \in Orders :
    Pay(o) \/ Reverse(o) \/ Deliver(o) \/ \E S \in SUBSET Rules : TakeBack(o, S)

Spec == Init /\ [][Next]_vars
=============================================================================
