------------------------------- MODULE Plans -------------------------------
(***************************************************************************)
(* What billing reads off a user's entitlement grants and cancellation     *)
(* rows: the subscription projection shared by checkout, the subscription  *)
(* endpoints and the access snapshot, the licence a snapshot shows, and    *)
(* the decisions of the checkout policies.  Pure operators; the modules    *)
(* Cancellation, Checkout and AccessViews use them.                        *)
(*                                                                         *)
(* A grant is [entitlement, source, status, starts, expires]; a time is a  *)
(* natural number and Never an expiry that is absent (a nil pointer).      *)
(***************************************************************************)
EXTENDS Integers, Sequences, FiniteSets

CONSTANT Never

ASSUME NeverAssumption == Never \notin Int

CurrentEntitlements == {"editorial_studio", "cloud_storage"}

Software(g) == g.entitlement \in CurrentEntitlements

ActiveAt(g, t) ==
  /\ g.status = "active"
  /\ g.starts <= t
  /\ g.expires = Never \/ g.expires > t

Greatest(S) == CHOOSE x \in S : \A y \in S : y <= x

Latest(G) == Greatest({g.expires : g \in G})

-----------------------------------------------------------------------------
(* The software subscription.                                              *)

Bought(G, t) == {g \in G : g.source = "fulfillment" /\ Software(g) /\ ActiveAt(g, t)}

LifetimeGrants(G, t) == {g \in Bought(G, t) : g.expires = Never}

MonthlyGrants(G, t) == Bought(G, t) \ LifetimeGrants(G, t)

\* The row that FindActive returns, as a set: the latest period end, then the
\* latest row.  A row is [key, resumeKey, active, periodEnd].
FindActive(rows, t) ==
  LET live == {i \in DOMAIN rows : rows[i].active /\ rows[i].periodEnd > t}
  IN  {i \in live : \A j \in live :
         \/ rows[j].periodEnd < rows[i].periodEnd
         \/ rows[j].periodEnd = rows[i].periodEnd /\ j <= i}

Subscription(sku, status, end) == [sku |-> sku, status |-> status, end |-> end]

Projection(G, rows, t) ==
  CASE LifetimeGrants(G, t) # {} -> Subscription("lifetime", "active", Never)
    [] LifetimeGrants(G, t) = {} /\ MonthlyGrants(G, t) = {} -> Subscription("none", "none", Never)
    [] OTHER ->
         IF FindActive(rows, t) = {}
           THEN Subscription("monthly", "active", Latest(MonthlyGrants(G, t)))
           ELSE Subscription("monthly", "cancel_at_period_end",
                             rows[CHOOSE i \in FindActive(rows, t) : TRUE].periodEnd)

\* The grants among which a cancellation or a resume looks for the period that
\* runs: unlike the projection it does not ask whether a grant has begun.
CancellableGrants(G, t) ==
  {g \in G : /\ g.source = "fulfillment" /\ Software(g) /\ g.status = "active"
             /\ g.expires # Never
             /\ g.expires > t}
=============================================================================
