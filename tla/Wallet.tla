------------------------------- MODULE Wallet -------------------------------
(***************************************************************************)
(* What the credit service promises a user of credits, without buckets,    *)
(* ledger rows, keys or clocks.  Credits can be used only through a hold.  *)
(* A hold takes its amount out of the available credits, and ends once:    *)
(* spent, when nothing comes back, or returned, when at most its amount    *)
(* does.  Nothing but a deposit adds credits, and no balance is overdrawn. *)
(***************************************************************************)
EXTENDS Integers

CONSTANT Users

VARIABLES
  available,   \* credits each user may still hold
  holds,       \* open holds: id -> [user, amount]
  spent,       \* ids of the holds that were spent
  returned     \* ids of the holds that were returned

vars == <<available, holds, spent, returned>>

Init ==
  /\ available \in [Users -> Nat]
  /\ DOMAIN holds = {}
  /\ spent = {}
  /\ returned = {}

Unaffected(u) == \A v \in Users \ {u} : available'[v] = available[v]

Deposit ==
  /\ \E u \in Users : available'[u] > available[u] /\ Unaffected(u)
  /\ UNCHANGED <<holds, spent, returned>>

\* Opening a hold may also forfeit credits of its user that have expired.
Hold ==
  \E id \in DOMAIN holds' \ (DOMAIN holds \cup spent \cup returned) :
    LET h == holds'[id]
    IN  /\ DOMAIN holds' = DOMAIN holds \cup {id}
        /\ \A i \in DOMAIN holds : holds'[i] = holds[i]
        /\ 0 <= available'[h.user]
        /\ available'[h.user] + h.amount <= available[h.user]
        /\ Unaffected(h.user)
        /\ UNCHANGED <<spent, returned>>

Close(id) == holds' = [i \in DOMAIN holds \ {id} |-> holds[i]]

Spend ==
  \E id \in DOMAIN holds :
    /\ Close(id)
    /\ spent' = spent \cup {id}
    /\ UNCHANGED <<available, returned>>

Return ==
  \E id \in DOMAIN holds :
    LET u == holds[id].user
    IN  /\ Close(id)
        /\ available'[u] - available[u] \in 0..holds[id].amount
        /\ Unaffected(u)
        /\ returned' = returned \cup {id}
        /\ UNCHANGED spent

\* Expiry and refunds take credits that are not held.
Forfeit ==
  /\ \A u \in Users : available'[u] \in 0..available[u]
  /\ UNCHANGED <<holds, spent, returned>>

Next == Deposit \/ Hold \/ Spend \/ Return \/ Forfeit

Spec == Init /\ [][Next]_vars
=============================================================================
