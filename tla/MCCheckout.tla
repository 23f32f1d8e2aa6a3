----------------------------- MODULE MCCheckout -----------------------------
(* An instance of Checkout: a monthly and a lifetime plan.                   *)
EXTENDS Checkout

CONSTANTS km, kl

MCSkuOf == [k \in Keys |-> IF k = km THEN "monthly" ELSE "lifetime"]

\* One client buys both plans, the other sends two requests for the second.
MCClients == {{<<km, 1>>, <<kl, 1>>}, {<<kl, 1>>, <<kl, 2>>}}

MCKinds == [k \in Keys |-> IF k = km THEN {"paid", "refunded", "disputed"} ELSE {"paid", "cancelled"}]
=============================================================================
