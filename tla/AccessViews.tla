---------------------------- MODULE AccessViews ----------------------------
(***************************************************************************)
(* The answers Walnut computes from one user's rows: the access snapshot   *)
(* signed for the application, the entitlement snapshot, the plan of the   *)
(* cloud storage, the administrators' pages and the list of subscriptions. *)
(* Each is computed by code of its own, with its own idea of which grants  *)
(* count.  Pure operators; Entitlements applies them to the rows it makes. *)
(*                                                                         *)
(* A grant has, over Plans, the field revoked: the time it was taken back, *)
(* or Never.  An order is [sku, status]; a trial is its first moment, or   *)
(* Never.  The rows of cancellations are in the order they were last       *)
(* written.                                                                *)
(***************************************************************************)
EXTENDS Plans

CONSTANT TrialLength

ASSUME TrialAssumption == TrialLength \in Nat \ {0}

SKUs == {"monthly", "lifetime"}

ActiveGrants(G, t) == {g \in G : ActiveAt(g, t)}

-----------------------------------------------------------------------------
(* The application's snapshot.                                             *)

EntitledTo(G, t) == {g.entitlement : g \in {x \in ActiveGrants(G, t) : Software(x)}}

TrialRuns(trial, t) == trial # Never /\ trial <= t /\ t < trial + TrialLength

From(G, source, t) == {g \in ActiveGrants(G, t) : Software(g) /\ g.source = source}

Ending(G) == {g \in G : g.expires # Never}

LicenseOf(state, end) == [state |-> state, end |-> end]

\* A grant of an administrator counts only when it never ends.
License(G, trial, t) ==
  LET bought == From(G, "fulfillment", t)
      grace  == From(G, "grace", t)
      tried  == Ending(From(G, "trial", t))
      manual == From(G, "manual", t)
  IN  IF \E g \in bought \cup manual : g.expires = Never THEN LicenseOf("lifetime", Never)
      ELSE IF bought # {} THEN LicenseOf("subscription", Latest(bought))
      ELSE IF Ending(grace) # {} THEN LicenseOf("grace", Latest(Ending(grace)))
      ELSE IF EntitledTo(G, t) # {} /\ TrialRuns(trial, t) THEN LicenseOf("trial", trial + TrialLength)
      ELSE IF tried # {} THEN LicenseOf("trial", Latest(tried))
      ELSE LicenseOf("basic", Never)

\* What a licence of a subscription shows beside its end: whether it renews, and
\* when the period ends.
Renewing(G, rows, trial, t) ==
  LET license == License(G, trial, t)
      plan    == Projection(G, rows, t)
  IN  IF license.state = "subscription" /\ plan.sku = "monthly"
        THEN [status |-> plan.status, end |-> plan.end]
        ELSE [status |-> "", end |-> IF license.state = "subscription" THEN license.end ELSE Never]

CloudPlan(G, t) ==
  LET held == {g \in ActiveGrants(G, t) : g.entitlement = "cloud_storage"}
      kinds == {IF g.source = "fulfillment" /\ g.expires = Never THEN "lifetime"
                ELSE IF g.source \in {"fulfillment", "grace"} THEN "monthly"
                ELSE IF g.source = "trial" THEN "trial"
                ELSE "custom" : g \in held}
  IN  IF kinds = {} THEN "none"
      ELSE CHOOSE k \in kinds :
             \/ k = "lifetime"
             \/ k = "monthly" /\ "lifetime" \notin kinds
             \/ k = "trial" /\ kinds \subseteq {"trial", "custom"}
             \/ k = "custom" /\ kinds = {"custom"}

CloudFeature(G, t) == IF "cloud_storage" \in EntitledTo(G, t) THEN CloudPlan(G, t) ELSE "none"

Snapshot(G, rows, trial, t) ==
  [license      |-> License(G, trial, t),
   renewing     |-> Renewing(G, rows, trial, t),
   entitlements |-> EntitledTo(G, t),
   cloud        |-> CloudFeature(G, t)]

\* The entitlements of the older endpoint, computed from all grants.
EntitlementSnapshot(G, t) ==
  {e \in {g.entitlement : g \in G} :
     e \in CurrentEntitlements /\ \E g \in G : g.entitlement = e /\ ActiveAt(g, t)}

-----------------------------------------------------------------------------
(* The administrators' pages about one user.                               *)

AdminActive(g, t) ==
  /\ g.status = "active"
  /\ g.revoked = Never
  /\ g.starts <= t
  /\ g.expires = Never \/ g.expires > t

AdminEntitlements(G, t) ==
  {e \in CurrentEntitlements : \E g \in G : g.entitlement = e /\ AdminActive(g, t)}

AdminTrial(trial, t) ==
  IF trial = Never THEN "none" ELSE IF trial + TrialLength <= t THEN "expired" ELSE "issued"

\* The line of a user in the list of accounts.
AdminAccount(G, trial, t) == [entitlements |-> AdminEntitlements(G, t), trial |-> AdminTrial(trial, t)]

AdminCloud(G, t) == CloudPlan(G, t)

\* The heading under which a grant is listed.
Heading(g, t) ==
  IF g.status = "revoked" \/ g.revoked # Never THEN "revoked"
  ELSE IF AdminActive(g, t) THEN "active"
  ELSE "expired"

Listed(G, heading, t) == {g \in G : Heading(g, t) = heading}

AdminSummary(G, rows, trial, t) ==
  [entitlements |-> AdminEntitlements(G, t),
   active       |-> Listed(G, "active", t),
   revoked      |-> Listed(G, "revoked", t),
   trial        |-> AdminTrial(trial, t),
   subscription |-> Projection(G, rows, t),
   cloud        |-> AdminCloud(G, t)]

-----------------------------------------------------------------------------
(* The list of subscriptions: a row for a user and an SKU.                 *)

SoldGrants(G) == {g \in G : g.source = "fulfillment" /\ Software(g)}

\* The SKU a grant is taken to be of.
SKUOf(g) == IF g.expires = Never THEN "lifetime" ELSE "monthly"

GrantsFor(G, sku) == {g \in SoldGrants(G) : SKUOf(g) = sku}

FromOrders(orders) == {orders[i].sku : i \in DOMAIN orders}

FromGrants(G) == {SKUOf(g) : g \in SoldGrants(G)}

FromCancellations(rows) == IF rows = <<>> THEN {} ELSE {"monthly"}

\* Orders, grants and cancellations can each call for a row.
Candidates(G, rows, orders) == FromOrders(orders) \cup FromGrants(G) \cup FromCancellations(rows)

\* Mutation: the oldest write comes first.
LatestRow_Oldest(rows) == IF rows = <<>> THEN <<>> ELSE <<rows[1]>>

\* Of the cancellations only the one last written is looked at.
LatestRow(rows) == IF rows = <<>> THEN <<>> ELSE <<rows[Len(rows)]>>

LatestOrder(orders, sku) ==
  {orders[i] : i \in {i \in DOMAIN orders :
     orders[i].sku = sku /\ \A j \in DOMAIN orders : orders[j].sku = sku => j <= i}}

Lapsed(G, t) == \E g \in SoldGrants(G) : g.expires # Never /\ g.expires <= t

\* The state of a row whose grants are over.
Fallback(G, orders, sku, t) ==
  IF \E o \in LatestOrder(orders, sku) : o.status \in {"cancelled", "refunded"} THEN "cancelled"
  ELSE IF Lapsed(GrantsFor(G, sku), t) THEN "expired"
  ELSE "none"

AdminSubscription(G, rows, orders, sku, t) ==
  LET plan == Projection(GrantsFor(G, sku), IF sku = "monthly" THEN LatestRow(rows) ELSE <<>>, t)
  IN  [status    |-> IF plan.status # "none" THEN plan.status ELSE Fallback(G, orders, sku, t),
       end       |-> plan.end,
       canCancel |-> plan.sku = "monthly" /\ plan.status = "active",
       canResume |-> plan.sku = "monthly" /\ plan.status = "cancel_at_period_end"]

AdminList(G, rows, orders, t) ==
  [sku \in Candidates(G, rows, orders) |-> AdminSubscription(G, rows, orders, sku, t)]

-----------------------------------------------------------------------------
\* What a user who holds the plan is told to do instead of buying the SKU.
Advice(plan, sku) ==
  IF plan.sku = "lifetime" THEN "keep_access"
  ELSE IF sku = "monthly" /\ plan.status = "cancel_at_period_end" THEN "resume"
  ELSE IF plan.sku = "monthly" /\ plan.status = "active" THEN "manage"
  ELSE "allow"
=============================================================================
