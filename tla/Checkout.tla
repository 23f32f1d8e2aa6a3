------------------------------ MODULE Checkout ------------------------------
(***************************************************************************)
(* Opening hosted checkouts for one user.  A request carries an            *)
(* idempotency key; it reads the key's order, asks the checkout policies,  *)
(* creates the order, calls the payment provider and saves the session in  *)
(* the copy of the order it read.  Requests with one key can overlap, and  *)
(* webhooks of its payments, which save the whole order they read as well, *)
(* disputes and cancellations of the plan go on in between.                *)
(***************************************************************************)
EXTENDS Plans

CONSTANTS
  Keys,        \* idempotency keys, each with its order
  SkuOf,       \* [Keys -> the SKU bought]: monthly, lifetime or credits
  Tries,       \* requests with one key that can be open together
  Clients,     \* the clients to look at, each the set of requests that it makes
  Hooks,       \* webhooks that can be in processing together
  Kinds,       \* [Keys -> what those about the order say: see StatusFor]
  Period, MaxTime,
  MaxFaults,   \* bound: failures of the provider, the database or the server
  MaxRows,     \* bound: cancellations of the plan
  MaxSessions  \* bound: checkouts the provider opens

ASSUME CheckoutAssumption ==
  /\ SkuOf \in [Keys -> {"monthly", "lifetime", "credits"}]
  /\ Period \in Nat \ {0} /\ MaxTime \in Nat /\ MaxFaults \in Nat /\ MaxRows \in Nat
  /\ MaxSessions \in Nat
  /\ Kinds \in [Keys -> SUBSET {"paid", "cancelled", "refunded", "disputed"}]

ASSUME TriesAssumption ==
  /\ IsFiniteSet(Tries)
  /\ Clients \subseteq SUBSET (Keys \X Tries)

VARIABLES
  now,
  orders,      \* [Keys -> NoOrder or its order]
  open,        \* [Keys \X Tries -> the state of a request]
  sessions,    \* the provider's checkouts: sequence of [key, paid]; its URL is the index
  answered,    \* [Keys -> the URLs the client has been given]
  hooks,       \* [Hooks -> the state of a webhook]
  owed,        \* paid sessions whose payment Walnut has not processed yet
  grants, rows, flagged,
  faults

vars == <<now, orders, open, sessions, answered, hooks, owed, grants, rows, flagged, faults>>

NoUrl == 0
NoOrder == [status |-> "none", url |-> NoUrl]
Idle == [pc |-> "idle", copy |-> NoOrder, url |-> NoUrl]
Unsent == [Idle EXCEPT !.pc = "unsent"]
NoHook == [pc |-> "idle", kind |-> "paid", session |-> 0, copy |-> NoOrder]
Paid == {"paid", "fulfilled"}

\* Mutation: only a paid order has its session.
HasSession_PaidOnly(o) == o.status \in Paid

HasSession(o) == o.url # NoUrl \/ o.status \in Paid

-----------------------------------------------------------------------------
(* The policies, in their order: risk, then plan.                          *)

RiskAllows == ~flagged

PlanOf(sub) == <<sub.sku, sub.status>>

PlanAllows(sku) ==
  LET plan == PlanOf(Projection(grants, rows, now))
  IN  CASE sku = "monthly"  -> plan = <<"none", "none">>
        [] sku = "lifetime" -> plan \in {<<"none", "none">>, <<"monthly", "cancel_at_period_end">>}
        [] OTHER            -> TRUE

Allowed(k) == RiskAllows /\ PlanAllows(SkuOf[k])

-----------------------------------------------------------------------------
Init ==
  /\ now = 0
  /\ orders = [k \in Keys |-> NoOrder]
  /\ \E client \in Clients :
       open = [r \in Keys \X Tries |-> IF r \in client THEN Idle ELSE Unsent]
  /\ sessions = <<>>
  /\ answered = [k \in Keys |-> {}]
  /\ hooks = [h \in Hooks |-> NoHook] /\ owed = {}
  /\ grants = {} /\ rows = <<>> /\ flagged = FALSE
  /\ faults = 0

Goes(k, t, pc, copy, url) == open' = [open EXCEPT ![<<k, t>>] = [pc |-> pc, copy |-> copy, url |-> url]]
Ends(k, t) == open' = [open EXCEPT ![<<k, t>>] = Idle]
Answers(k, url) == answered' = [answered EXCEPT ![k] = @ \cup {url}]
Fault == faults < MaxFaults /\ faults' = faults + 1

\* Mutation: the key is not looked up.
Read_Afresh(k, t) ==
  /\ open[<<k, t>>] = Idle
  /\ Goes(k, t, "decide", NoOrder, NoUrl)
  /\ UNCHANGED <<now, orders, sessions, answered, hooks, owed, grants, rows, flagged, faults>>

\* A request reads the order that is stored under its key.
Read(k, t) ==
  /\ open[<<k, t>>] = Idle
  /\ Goes(k, t, "decide", orders[k], NoUrl)
  /\ UNCHANGED <<now, orders, sessions, answered, hooks, owed, grants, rows, flagged, faults>>

Refuse(k, t) ==
  /\ open[<<k, t>>].pc = "decide"
  /\ ~Allowed(k)
  /\ Ends(k, t)
  /\ UNCHANGED <<now, orders, sessions, answered, hooks, owed, grants, rows, flagged, faults>>

\* Mutation: the copy is saved again when its session is answered again.
Replay_SavesCopy(k, t) ==
  /\ open[<<k, t>>].pc = "decide"
  /\ Allowed(k)
  /\ HasSession(open[<<k, t>>].copy)
  /\ orders' = [orders EXCEPT ![k] = open[<<k, t>>].copy]
  /\ Answers(k, open[<<k, t>>].copy.url)
  /\ Ends(k, t)
  /\ UNCHANGED <<now, sessions, hooks, owed, grants, rows, flagged, faults>>

\* The order has its session: it is answered again.
Replay(k, t) ==
  /\ open[<<k, t>>].pc = "decide"
  /\ Allowed(k)
  /\ HasSession(open[<<k, t>>].copy)
  /\ Answers(k, open[<<k, t>>].copy.url)
  /\ Ends(k, t)
  /\ UNCHANGED <<now, orders, sessions, hooks, owed, grants, rows, flagged, faults>>

\* The order is created, if the request found none; the key is unique, so
\* another request that has created it meanwhile makes this one fail.
Begin(k, t) ==
  /\ open[<<k, t>>].pc = "decide"
  /\ Allowed(k)
  /\ ~HasSession(open[<<k, t>>].copy)
  /\ IF open[<<k, t>>].copy # NoOrder
       THEN Goes(k, t, "call", open[<<k, t>>].copy, NoUrl) /\ UNCHANGED orders
       ELSE IF orders[k] # NoOrder
              THEN Ends(k, t) /\ UNCHANGED orders
              ELSE LET created == [status |-> "pending", url |-> NoUrl]
                   IN  orders' = [orders EXCEPT ![k] = created] /\ Goes(k, t, "call", created, NoUrl)
  /\ UNCHANGED <<now, sessions, answered, hooks, owed, grants, rows, flagged, faults>>

\* The provider opens a checkout; it does not know one of the same key.
ProviderOpens(k, t) ==
  /\ open[<<k, t>>].pc = "call"
  /\ Len(sessions) < MaxSessions
  /\ sessions' = Append(sessions, [key |-> k, paid |-> FALSE])
  /\ Goes(k, t, "save", open[<<k, t>>].copy, Len(sessions'))
  /\ UNCHANGED <<now, orders, answered, hooks, owed, grants, rows, flagged, faults>>

\* The provider refuses, or its answer is lost.
ProviderFails(k, t) ==
  /\ open[<<k, t>>].pc = "call"
  /\ Fault
  /\ sessions' \in {sessions} \cup
       (IF Len(sessions) < MaxSessions THEN {Append(sessions, [key |-> k, paid |-> FALSE])} ELSE {})
  /\ Goes(k, t, "saveFailed", open[<<k, t>>].copy, NoUrl)
  /\ UNCHANGED <<now, orders, answered, hooks, owed, grants, rows, flagged>>

\* Mutation: a provider that states no status leaves the order without one.
Save_NoDefault(k, t) ==
  /\ open[<<k, t>>].pc = "save"
  /\ orders' = [orders EXCEPT ![k] = [status |-> "", url |-> open[<<k, t>>].url]]
  /\ Answers(k, open[<<k, t>>].url)
  /\ Ends(k, t)
  /\ UNCHANGED <<now, sessions, hooks, owed, grants, rows, flagged, faults>>

\* The copy is saved with the session, over whatever the order is by now.
Save(k, t) ==
  /\ open[<<k, t>>].pc = "save"
  /\ orders' = [orders EXCEPT ![k] = [status |-> "checkout_created", url |-> open[<<k, t>>].url]]
  /\ Answers(k, open[<<k, t>>].url)
  /\ Ends(k, t)
  /\ UNCHANGED <<now, sessions, hooks, owed, grants, rows, flagged, faults>>

SaveFailed(k, t) ==
  /\ open[<<k, t>>].pc = "saveFailed"
  /\ orders' = [orders EXCEPT ![k] = [open[<<k, t>>].copy EXCEPT !.status = "failed"]]
  /\ Ends(k, t)
  /\ UNCHANGED <<now, sessions, answered, hooks, owed, grants, rows, flagged, faults>>

\* The database fails, the server dies, or the answer does not reach the
\* client: what was saved before stays.
Dies(k, t) ==
  /\ open[<<k, t>>].pc \in {"call", "save", "saveFailed"}
  /\ Fault
  /\ orders' \in {orders} \cup
       (IF open[<<k, t>>].pc = "save"
          THEN {[orders EXCEPT ![k] = [status |-> "checkout_created", url |-> open[<<k, t>>].url]]} ELSE {})
  /\ Ends(k, t)
  /\ UNCHANGED <<now, sessions, answered, hooks, owed, grants, rows, flagged>>

-----------------------------------------------------------------------------
(* What goes on beside the requests.  PaymentPipeline, Cancellation and    *)
(* Renewal model these in full.                                            *)

\* The buyer pays at a URL that has been answered.
Pay(i) ==
  /\ i \in DOMAIN sessions /\ ~sessions[i].paid
  /\ i \in answered[sessions[i].key]
  /\ sessions' = [sessions EXCEPT ![i].paid = TRUE]
  /\ owed' = owed \cup {i}
  /\ UNCHANGED <<now, orders, open, answered, hooks, grants, rows, flagged, faults>>

GrantOf(k) ==
  [key |-> k, entitlement |-> IF SkuOf[k] = "credits" THEN "credits" ELSE "editorial_studio",
   source |-> "fulfillment", status |-> "active", starts |-> now,
   expires |-> IF SkuOf[k] = "monthly" THEN now + Period ELSE Never]

\* A webhook comes again until it is processed.  The payment of a session comes
\* once it is paid, a refund or a dispute of it as well; a cancellation when the
\* buyer leaves the checkout, or ends the subscription it began.
Announced(kind, i) ==
  CASE kind = "paid"      -> i \in owed
    [] kind = "cancelled" -> i \in answered[sessions[i].key]
    [] OTHER              -> sessions[i].paid

StatusFor(kind) ==
  CASE kind = "paid" -> "paid" [] kind = "cancelled" -> "cancelled" [] OTHER -> "refunded"

\* The order processor reads the order; a payment or a cancellation leaves one
\* that is paid as it is, and a payment goes on to the fulfillment.
Receive(h, kind, i) ==
  LET row  == orders[sessions[i].key]
      done == kind \in {"paid", "cancelled"} /\ row.status \in Paid
  IN  /\ hooks[h] = NoHook
      /\ Announced(kind, i)
      /\ done => kind = "paid"
      /\ hooks' = [hooks EXCEPT ![h] =
           IF done THEN [pc |-> "fulfill", kind |-> kind, session |-> i, copy |-> NoOrder]
           ELSE [pc |-> "write", kind |-> kind, session |-> i,
                 copy |-> [row EXCEPT !.status = StatusFor(kind)]]]
      /\ UNCHANGED <<now, orders, open, sessions, answered, owed, grants, rows, flagged, faults>>

KeyOf(h) == sessions[hooks[h].session].key
HookEnds(h) == hooks' = [hooks EXCEPT ![h] = NoHook]

\* It saves the copy it made, over whatever the order is by now.  What follows
\* a cancellation keeps the period that is paid.
WriteOrder(h) ==
  /\ hooks[h].pc = "write"
  /\ orders' = [orders EXCEPT ![KeyOf(h)] = hooks[h].copy]
  /\ IF hooks[h].kind = "cancelled" THEN HookEnds(h)
     ELSE hooks' = [hooks EXCEPT ![h].pc = IF hooks[h].kind = "paid" THEN "fulfill" ELSE "adjust",
                                 ![h].copy = NoOrder]
  /\ UNCHANGED <<now, open, sessions, answered, owed, grants, rows, flagged, faults>>

\* Mutation: an order that is not paid any more counts as done.
Fulfill_NotPaidIsDone(h) ==
  LET k == KeyOf(h)
  IN  /\ hooks[h].pc = "fulfill"
      /\ IF orders[k].status = "paid"
           THEN /\ orders' = [orders EXCEPT ![k].status = "fulfilled"]
                /\ grants' = IF \E g \in grants : g.key = k THEN grants ELSE grants \cup {GrantOf(k)}
           ELSE UNCHANGED <<orders, grants>>
      /\ owed' = owed \ {hooks[h].session}
      /\ HookEnds(h)
      /\ UNCHANGED <<now, open, sessions, answered, rows, flagged, faults>>

\* The fulfillment reads the order again.  One that is not paid any more is an
\* error, and the payment comes again; a grant the order has is kept as it is.
Fulfill(h) ==
  LET k == KeyOf(h)
  IN  /\ hooks[h].pc = "fulfill"
      /\ IF orders[k].status = "paid"
           THEN /\ orders' = [orders EXCEPT ![k].status = "fulfilled"]
                /\ grants' = IF \E g \in grants : g.key = k THEN grants ELSE grants \cup {GrantOf(k)}
           ELSE UNCHANGED <<orders, grants>>
      /\ owed' = IF orders[k].status \in Paid THEN owed \ {hooks[h].session} ELSE owed
      /\ HookEnds(h)
      /\ UNCHANGED <<now, open, sessions, answered, rows, flagged, faults>>

\* A refund is compensated or left to a review; a dispute is compensated and
\* raises a flag, which an administrator resolves.
Adjust(h) ==
  LET revoked == {IF g.key = KeyOf(h) THEN [g EXCEPT !.status = "revoked"] ELSE g : g \in grants}
  IN  /\ hooks[h].pc = "adjust"
      /\ grants' \in {revoked} \cup (IF hooks[h].kind = "refunded" THEN {grants} ELSE {})
      /\ flagged' = (flagged \/ hooks[h].kind = "disputed")
      /\ HookEnds(h)
      /\ UNCHANGED <<now, orders, open, sessions, answered, owed, rows, faults>>

ResolveFlag ==
  /\ flagged
  /\ flagged' = FALSE
  /\ UNCHANGED <<now, orders, open, sessions, answered, hooks, owed, grants, rows, faults>>

CancelPlan ==
  /\ Len(rows) < MaxRows
  /\ PlanOf(Projection(grants, rows, now)) = <<"monthly", "active">>
  /\ rows' = Append(rows, [key |-> Len(rows), resumeKey |-> 0, active |-> TRUE,
                           periodEnd |-> Latest(CancellableGrants(grants, now))])
  /\ UNCHANGED <<now, orders, open, sessions, answered, hooks, owed, grants, flagged, faults>>

Tick ==
  /\ now < MaxTime
  /\ now' = now + 1
  /\ UNCHANGED <<orders, open, sessions, answered, hooks, owed, grants, rows, flagged, faults>>

-----------------------------------------------------------------------------
Next ==
  \/ \E k \in Keys, t \in Tries :
       \/ Read(k, t) \/ Refuse(k, t) \/ Replay(k, t) \/ Begin(k, t)
       \/ ProviderOpens(k, t) \/ ProviderFails(k, t)
       \/ Save(k, t) \/ SaveFailed(k, t) \/ Dies(k, t)
  \/ \E i \in DOMAIN sessions : Pay(i)
  \/ \E h \in Hooks :
       \/ \E i \in DOMAIN sessions : \E kind \in Kinds[sessions[i].key] : Receive(h, kind, i)
       \/ WriteOrder(h) \/ Fulfill(h) \/ Adjust(h)
  \/ ResolveFlag \/ CancelPlan \/ Tick

Spec == Init /\ [][Next]_vars

\* The client asks until it has its URL, and requests that are under way go on;
\* nobody need pay, resolve a flag or cancel, and time may stop.
FairSpec ==
  /\ Spec
  /\ \A k \in Keys, t \in Tries :
       WF_vars(\/ Read(k, t) \/ Refuse(k, t) \/ Replay(k, t) \/ Begin(k, t)
               \/ ProviderOpens(k, t) \/ Save(k, t) \/ SaveFailed(k, t))

-----------------------------------------------------------------------------
(* Properties.                                                             *)

\* Every variable has its type, and every URL is one of a session of its order.
\* An order that was paid can have lost its URL: its client is answered none.
TypeOK ==
  /\ now \in 0..MaxTime
  /\ \A k \in Keys :
       /\ orders[k].status \in
            {"none", "pending", "failed", "checkout_created", "cancelled", "refunded"} \cup Paid
       /\ orders[k].url \in 0..Len(sessions)
       /\ \A i \in answered[k] \ {NoUrl} : i \in DOMAIN sessions /\ sessions[i].key = k
  /\ owed \subseteq {i \in DOMAIN sessions : sessions[i].paid}
  /\ \A r \in Keys \X Tries :
       open[r].pc \in {"unsent", "idle", "decide", "call", "save", "saveFailed"}
  /\ \A h \in Hooks : hooks[h].pc \in {"idle", "write", "fulfill", "adjust"}
  /\ flagged \in BOOLEAN
  /\ faults \in 0..MaxFaults

Opened(k) == {i \in DOMAIN sessions : sessions[i].key = k}
Charges(k) == {i \in Opened(k) : sessions[i].paid}
Asked(k) == \E t \in Tries : open[<<k, t>>] # Unsent

\* An order is charged once if its requests come one after another, whatever
\* fails; and if they overlap, once for each of those that overlap, as long as
\* nothing fails.
ChargesBounded ==
  faults = 0 \/ Cardinality(Tries) = 1 =>
    \A k \in Keys : Cardinality(Charges(k)) <= Cardinality(Tries)

\* Whatever slow requests and webhooks write over a paid order: every payment is
\* owed still or its order has been given its goods, and these are given once
\* and never without a payment.
PaymentIsGiven ==
  /\ \A k \in Keys : \A i \in Charges(k) : i \in owed \/ \E g \in grants : g.key = k
  /\ \A g \in grants : Charges(g.key) # {} /\ \A f \in grants : f.key = g.key => f = g

\* A slow request takes an order whose payment has been processed back only if
\* the provider was asked twice: it opened another checkout, or it failed.
TakenBackByRivals ==
  \A k \in Keys :
    /\ Charges(k) \ owed # {}
    /\ orders[k].status \in {"failed", "checkout_created"}
    => Cardinality(Opened(k)) + faults >= 2

\* A slow request or webhook can write over a paid order, but the payment is
\* kept: its goods are given once, another charge takes a request that overlaps
\* or a failure, and a processed payment that shows as an open checkout again
\* takes a second call of the provider.
PaymentIsKept == ChargesBounded /\ PaymentIsGiven /\ TakenBackByRivals

\* A client that keeps asking is given its checkout, unless a policy goes on
\* refusing it.
CheckoutOpens ==
  \A k \in Keys : Asked(k) => <>(answered[k] \ {NoUrl} # {}) \/ []<>~Allowed(k)
=============================================================================
