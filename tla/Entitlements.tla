---------------------------- MODULE Entitlements ----------------------------
(***************************************************************************)
(* One user's entitlement grants over their whole life - a trial, monthly  *)
(* and lifetime purchases, the grace after a renewal that failed, grants   *)
(* an administrator makes, refunds, a subscription cancelled and resumed - *)
(* and the answers AccessViews computes from them at every moment.         *)
(*                                                                         *)
(* How a payment reaches a grant, and what can go wrong on the way, is the *)
(* matter of PaymentPipeline, Renewal and Cancellation; here each of them  *)
(* is the one transaction it ends in.                                      *)
(***************************************************************************)
EXTENDS AccessViews

CONSTANTS
  Period,        \* length of a paid month
  GraceLength,
  ManualGoods,   \* what an administrator grants
  ManualEnds,    \* how long such a grant may last: lengths, or Never
  LastDay,
  MaxOrders,     \* bound: orders paid
  MaxRows,       \* bound: cancellations recorded
  MaxManual      \* bound: grants of the administrator

ASSUME LengthsAssumption ==
  /\ {Period, GraceLength} \subseteq Nat \ {0}
  /\ ManualEnds \subseteq (Nat \ {0}) \cup {Never}
  /\ ManualGoods \subseteq CurrentEntitlements
  /\ {LastDay, MaxOrders, MaxRows, MaxManual} \subseteq Nat

VARIABLES
  today,
  grants,
  trial,         \* when the trial began, or Never
  orders,        \* the paid orders, oldest first
  rows,          \* the cancellations, in the order they were last written
  asking         \* grants an administrator's request has found missing

account == <<today, grants, trial, orders, rows, asking>>

Goods == {"editorial_studio", "cloud_storage"}

NewGrant(e, source, from, end, key) ==
  [entitlement |-> e, source |-> source, status |-> "active",
   starts |-> from, expires |-> end, revoked |-> Never, key |-> key]

After(t, length) == IF length = Never THEN Never ELSE t + length

NewUser ==
  /\ today = 0
  /\ grants = {}
  /\ trial = Never
  /\ orders = <<>>
  /\ rows = <<>>
  /\ asking = {}

\* The user's first session begins the trial.
StartTrial ==
  /\ trial = Never
  /\ trial' = today
  /\ grants' = grants \cup {NewGrant(e, "trial", today, today + TrialLength, <<"trial">>) : e \in Goods}
  /\ UNCHANGED <<today, orders, rows, asking>>

-----------------------------------------------------------------------------
(* Purchases.                                                              *)

\* From when a paid month is counted: the end of what is already paid for, else
\* the beginning of a grace that runs, else the payment.
Anchor(e) ==
  LET listed == {g \in grants : g.entitlement = e /\ g.status = "active"
                                /\ (g.expires = Never \/ g.expires > today)}
      paid   == {g \in listed : g.source = "fulfillment" /\ g.expires # Never}
      grace  == {g \in listed : g.source = "grace" /\ g.starts < today}
  IN  IF paid # {} THEN Latest(paid)
      ELSE IF grace # {} THEN Greatest({g.starts : g \in grace})
      ELSE today

\* Mutation: the key of a grant names the SKU, not the order.
Delivered_SkuKey(sku, n) ==
  {NewGrant(e, "fulfillment", today,
            IF sku = "lifetime" THEN Never ELSE Anchor(e) + Period, <<"sku", sku>>) : e \in Goods}

Delivered(sku, n) ==
  {NewGrant(e, "fulfillment", today,
            IF sku = "lifetime" THEN Never ELSE Anchor(e) + Period, <<"order", n>>) : e \in Goods}

\* Mutation: only the first rule of the SKU is applied.
Fulfil_OneRule(sku) ==
  /\ Len(orders) < MaxOrders
  /\ orders' = Append(orders, [sku |-> sku, status |-> "fulfilled"])
  /\ grants' = grants \cup {g \in Delivered(sku, Len(orders) + 1) : g.entitlement = "editorial_studio"}
  /\ UNCHANGED <<today, trial, rows, asking>>

\* A checkout or a renewal is paid, and both rules of its SKU are applied.
Fulfil(sku) ==
  /\ Len(orders) < MaxOrders
  /\ orders' = Append(orders, [sku |-> sku, status |-> "fulfilled"])
  /\ grants' = grants \cup Delivered(sku, Len(orders) + 1)
  /\ UNCHANGED <<today, trial, rows, asking>>

\* Mutation: the time is noted and the status kept.
TakenBack_StatusKept(g) == [g EXCEPT !.revoked = today]

TakenBack(g) ==
  [g EXCEPT !.status = "revoked", !.revoked = today,
            !.expires = IF @ = Never \/ @ > today THEN today ELSE @]

\* The provider refunds an order: the grants it gave are taken back.
Refund(n) ==
  /\ orders[n].status = "fulfilled"
  /\ orders' = [orders EXCEPT ![n].status = "refunded"]
  /\ grants' = {IF g.key = <<"order", n>> THEN TakenBack(g) ELSE g : g \in grants}
  /\ UNCHANGED <<today, trial, rows, asking>>

Months == {n \in DOMAIN orders : orders[n].sku = "monthly"}

\* The charge for the month after the last one fails: a grace from its end on.
RenewalFails ==
  /\ Months # {}
  /\ CancellableGrants(grants, today) # {}
  /\ LET key == <<"renewal of", Greatest(Months)>>
         end == Latest(CancellableGrants(grants, today))
     IN  /\ \A g \in grants : g.key # key
         /\ grants' = grants \cup {NewGrant(e, "grace", end, end + GraceLength, key) : e \in Goods}
  /\ UNCHANGED <<today, trial, orders, rows, asking>>

-----------------------------------------------------------------------------
(* A cancellation and its undoing, once the provider has agreed.           *)

Without(s, i) == [j \in 1..Len(s) - 1 |-> IF j < i THEN s[j] ELSE s[j + 1]]

\* A row that is written becomes the one last written.
Rewrite(i, row) == Append(Without(rows, i), row)

RowOf(active, end) == [active |-> active, periodEnd |-> end]

\* Who has cancelled is not offered it again (Cancellation shows what a second
\* call does); the call has a new key, or that of a cancellation since resumed.
Cancel ==
  /\ CancellableGrants(grants, today) # {}
  /\ FindActive(rows, today) = {}
  /\ LET end == Latest(CancellableGrants(grants, today))
     IN  \/ /\ Len(rows) < MaxRows
            /\ rows' = Append(rows, RowOf(TRUE, end))
         \/ \E i \in DOMAIN rows : ~rows[i].active /\ rows' = Rewrite(i, RowOf(TRUE, end))
  /\ UNCHANGED <<today, grants, trial, orders, asking>>

Resume ==
  /\ CancellableGrants(grants, today) # {}
  /\ \E i \in FindActive(rows, today) : rows' = Rewrite(i, RowOf(FALSE, rows[i].periodEnd))
  /\ UNCHANGED <<today, grants, trial, orders, asking>>

-----------------------------------------------------------------------------
(* The administrator.                                                      *)

\* Without a key a grant is wanted only when none of that entitlement runs.
\* With one, it is wanted until it is there.
Wanted(keyed, e) ==
  IF keyed THEN \A g \in grants : g.key # <<"admin", e>>
  ELSE ~\E g \in grants : g.entitlement = e /\ ActiveAt(g, today)

ManualGrants == {g \in grants : g.source = "manual"}

\* A request is read and finds that there is something to create.  What a
\* registration asks for is asked for in the same way, however it was reviewed.
AskGrant(e, keyed) ==
  /\ Cardinality(ManualGrants) + Cardinality(asking) < MaxManual
  /\ Wanted(keyed, e)
  /\ asking' = asking \cup {[entitlement |-> e, keyed |-> keyed]}
  /\ asking' # asking
  /\ UNCHANGED <<today, grants, trial, orders, rows>>

\* The row is written; other requests have gone on in between.
CreateGrant(ask, from, length) ==
  /\ grants' = grants \cup {NewGrant(ask.entitlement, "manual", from, After(from, length),
                                     IF ask.keyed THEN <<"admin", ask.entitlement>> ELSE <<"new", Cardinality(ManualGrants)>>)}
  /\ asking' = asking \ {ask}
  /\ UNCHANGED <<today, trial, orders, rows>>

\* Outside production a user can be deleted with all rows, in one transaction, and
\* then begins anew; a request that has been read goes on with what it found.
Reset ==
  /\ trial' = Never /\ grants' = {} /\ orders' = <<>> /\ rows' = <<>>
  /\ UNCHANGED <<today, asking>>

NextDay ==
  /\ today < LastDay
  /\ today' = today + 1
  /\ UNCHANGED <<grants, trial, orders, rows, asking>>

UserStep ==
  \/ StartTrial
  \/ \E sku \in SKUs : Fulfil(sku)
  \/ \E n \in DOMAIN orders : Refund(n)
  \/ RenewalFails
  \/ Cancel \/ Resume
  \/ \E e \in ManualGoods, keyed \in BOOLEAN : AskGrant(e, keyed)
  \/ \E ask \in asking, from \in {today, today + 1}, length \in ManualEnds : CreateGrant(ask, from, length)
  \/ Reset \/ NextDay

UserLife == NewUser /\ [][UserStep]_account

-----------------------------------------------------------------------------
(* Properties.                                                             *)

\* Every variable has its type, and a key is never given to two grants of one
\* entitlement.
RowsTyped ==
  /\ today \in 0..LastDay
  /\ trial \in (0..LastDay) \cup {Never}
  /\ \A i \in DOMAIN orders : orders[i].sku \in SKUs /\ orders[i].status \in {"fulfilled", "refunded"}
  /\ \A g \in grants : g.entitlement \in Goods /\ g.status \in {"active", "revoked"}
  /\ \A g, h \in grants : g.key = h.key /\ g.entitlement = h.entitlement => g = h

\* A purchase or a cancellation reaches every view alike: the plan that checkout
\* goes by, the licence and the cloud plan of the signed snapshot, and what an
\* administrator is shown are about the same goods, at every moment.
OneStory ==
  LET app   == Snapshot(grants, rows, trial, today)
      admin == AdminSummary(grants, rows, trial, today)
      plan  == admin.subscription
      state == app.license.state
  IN  /\ plan.sku = "lifetime" => state = "lifetime" /\ app.cloud = "lifetime"
      /\ plan.sku = "monthly"  => state \in {"subscription", "lifetime"} /\ app.cloud = "monthly"
      /\ plan.sku = "none"     => state # "subscription"
      /\ state = "grace" => app.cloud = "monthly"
      /\ state = "trial" => app.cloud = "trial"
      /\ state = "basic" => admin.trial # "issued"
      /\ state = "subscription" => app.renewing = [status |-> plan.status, end |-> plan.end]
      /\ app.entitlements = admin.entitlements
      /\ AdminAccount(grants, trial, today) = [entitlements |-> app.entitlements, trial |-> admin.trial]
      /\ app.entitlements = EntitlementSnapshot(grants, today)
      /\ app.cloud = admin.cloud

\* What a user or an administrator is offered is accepted when it is tried: a
\* plan that checkout sends away to be resumed, or to be cancelled first, is on
\* the list of subscriptions with that button, and behind the button the
\* request finds the period, and the cancellation, it needs.
OfferedIsAccepted ==
  LET plan  == Projection(grants, rows, today)
      list  == AdminList(grants, rows, orders, today)
      ended == FindActive(rows, today) # {}
  IN  /\ plan.sku # "none" => plan.sku \in DOMAIN list
      /\ \A sku \in SKUs :
           /\ Advice(plan, sku) = "resume" => list["monthly"].canResume
           /\ Advice(plan, sku) = "manage" => list["monthly"].canCancel
      /\ \A sku \in DOMAIN list :
           /\ list[sku].canCancel => CancellableGrants(grants, today) # {} /\ ~ended
           /\ list[sku].canResume => CancellableGrants(grants, today) # {} /\ ended
=============================================================================
