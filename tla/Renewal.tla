------------------------------ MODULE Renewal ------------------------------
(***************************************************************************)
(* Subscription renewals: internal/service/subscription_renewal.go, with   *)
(* the first payment of the subscription, which the provider announces     *)
(* twice (checkout.completed and subscription.paid).                       *)
(*                                                                         *)
(* The provider names the checkout order in every event; a renewal order   *)
(* is derived from it for the billing cycle, under a unique key.  A paid   *)
(* renewal is a chain of single repository calls, with whole-row saves of  *)
(* rows read earlier, and a fulfillment transaction at its end; a failed   *)
(* renewal and an expiry are one transaction each.  PaymentPipeline models *)
(* the inbox in detail; here a request starts on an event that is not      *)
(* processed, and saves its outcome last.                                  *)
(***************************************************************************)
EXTENDS Integers, FiniteSetsExt

CONSTANTS
  Requests,      \* requests that can be in flight at once
  Events,        \* provider events of one subscription
  EventOf,       \* [Events -> EventType]: what each event says
  Checkout,      \* the checkout order of the subscription
  BillingPeriod, \* length of a billing period
  Tolerance,     \* the two minutes of sameBillingInstant
  GracePeriod,   \* RENEWAL_GRACE_PERIOD_DAYS
  ExpiredAction, \* RENEWAL_EXPIRED_ACTION
  Deadlines,     \* times that no request, and no outage before the first
                 \* payment is recorded, outlasts
  LastTime,      \* bound on the clock
  MaxFailures,   \* bound on failing calls
  MaxAborts,     \* bound on requests that die
  None           \* a nil time, or a row that is not on record

Times == 0..LastTime
EventType == [type : {"paid", "renewal_paid", "renewal_failed", "subscription_expired"},
              start : Nat, end : Nat]   \* PeriodStartAt, PeriodEndAt

ASSUME EventsAssumption ==
  IsFiniteSet(Events) /\ Events # {} /\ EventOf \in [Events -> EventType]
ASSUME LengthsAssumption ==
  BillingPeriod \in Nat \ {0} /\ Tolerance \in Nat /\ GracePeriod \in Nat \ {0}
ASSUME ActionAssumption == ExpiredAction \in {"expire_grace", "natural_expiry"}
ASSUME BoundsAssumption == LastTime \in Nat /\ MaxFailures \in Nat /\ MaxAborts \in Nat
ASSUME DeadlinesAssumption == Deadlines \subseteq Nat
ASSUME NoneAssumption == None \notin Nat /\ Checkout \notin Nat

Type(e) == EventOf[e].type

\* The subscription's first period begins with its first event.
FirstStart == Min({EventOf[e].start : e \in Events})

\* How the provider bills: the checkout pays for the first period, and every
\* later one begins more than twice the tolerance after it.
ASSUME BillingAssumption ==
  \A e \in Events :
    /\ Type(e) = "paid" => EventOf[e].start = FirstStart
    /\ Type(e) = "renewal_paid" => \/ EventOf[e].start = FirstStart
                                   \/ EventOf[e].start > FirstStart + 2 * Tolerance

\* The first payment is on record before the tolerance for it is over.
ASSUME PromptAssumption ==
  \E t \in Deadlines : FirstStart <= t /\ t <= FirstStart + Tolerance

VARIABLES
  clock,     \* the time
  inbox,     \* PaymentEventInbox.Status of each event
  received,  \* PaymentEventInbox.ReceivedAt of each event
  orderRows, \* Order rows: the checkout order, and a renewal order per cycle
  periods,   \* when the grant made by fulfilling an order ends
  graces,    \* the subscription_grace grant of each cycle
  requests,  \* where each request is, and the row it holds
  failures, aborts

records == <<orderRows, periods, graces>>
subscriptionVars ==
  <<clock, inbox, received, orderRows, periods, graces, requests, failures, aborts>>


\* subscriptionRenewalCycleKey: a renewal that failed at the end of a period
\* and the payment that starts the next one there are of the same cycle.
CycleKey(e) ==
  IF Type(e) \in {"renewal_failed", "subscription_expired"}
  THEN EventOf[e].end ELSE EventOf[e].start

Cycles == {CycleKey(e) : e \in Events}
Orders == Cycles \cup {Checkout}

Order == [status : {"pending", "paid", "fulfilled", "failed"}, paidAt : Nat \cup {None}]
Grace == [start : Nat, end : Nat, status : {"active", "expired"}]

ASSUME NoRowAssumption == None \notin Order \cup Grace

Request == [pc : {"idle"}]
     \cup [pc : {"read", "route", "nested", "apply", "lookup", "create", "tx"}, event : Events]
     \cup [pc : {"write"}, event : Events, order : Orders, row : Order]
     \cup [pc : {"fulfill"}, event : Events, order : Orders]
     \cup [pc : {"settle"}, event : Events, outcome : {"processed", "failed"}]

Resting == [pc |-> "idle"]
At(w, pc) == requests[w].pc = pc
Goto(w, pc, e) == requests' = [requests EXCEPT ![w] = [pc |-> pc, event |-> e]]
Return(w) == requests' = [requests EXCEPT ![w] = Resting]
Settles(w, outcome) ==
  requests' = [requests EXCEPT ![w] = [pc |-> "settle", event |-> requests[w].event,
                                       outcome |-> outcome]]
Fulfills(w, o) ==
  requests' = [requests EXCEPT ![w] = [pc |-> "fulfill", event |-> requests[w].event,
                                       order |-> o]]
Writes(w, o, row) ==
  requests' = [requests EXCEPT ![w] = [pc |-> "write", event |-> requests[w].event,
                                       order |-> o, row |-> row]]

-----------------------------------------------------------------------------
(* The inbox, around the processor.                                        *)

\* The provider announces a payment from its start on, the rest at the end.
AnnouncedAt(e) ==
  IF Type(e) \in {"paid", "renewal_paid"} THEN EventOf[e].start ELSE EventOf[e].end

\* Where ProcessPaymentEvent and Apply send an event.
Entry(e) ==
  CASE Type(e) = "paid"         -> "read"
    [] Type(e) = "renewal_paid" -> "route"
    [] OTHER                    -> "tx"

Deliver(w, e) ==
  /\ At(w, "idle")
  /\ inbox[e] # "processed"
  /\ clock >= AnnouncedAt(e)
  /\ inbox' = [inbox EXCEPT ![e] = "processing"]
  /\ received' = [received EXCEPT ![e] = IF @ = None THEN clock ELSE @]
  /\ Goto(w, Entry(e), e)
  /\ UNCHANGED <<clock, records, failures, aborts>>

Settle(w) ==
  /\ At(w, "settle")
  /\ inbox' = [inbox EXCEPT ![requests[w].event] = requests[w].outcome]
  /\ Return(w)
  /\ UNCHANGED <<clock, received, records, failures, aborts>>

-----------------------------------------------------------------------------
(* Payments.                                                               *)

\* Mutation: the time of payment is not recorded.
Paid_NoTime(row, at) == [row EXCEPT !.status = "paid"]

\* A row marked paid; the first time of payment stays.
Paid(row, at) ==
  [status |-> "paid", paidAt |-> IF row.paidAt = None THEN at ELSE row.paidAt]

\* checkout.completed: the order processor reads the checkout order.
ReadOrder(w) ==
  LET row == orderRows[Checkout]
  IN  /\ At(w, "read")
      /\ IF row.status \in {"paid", "fulfilled"} THEN Fulfills(w, Checkout)
         ELSE Writes(w, Checkout, Paid(row, clock))
      /\ UNCHANGED <<clock, inbox, received, records, failures, aborts>>

\* Mutation: the payment's time is compared exactly.
SameBillingInstant_Exact(a, b) == a = b

SameBillingInstant(a, b) == a - b <= Tolerance /\ b - a <= Tolerance

\* isCheckoutBackedRenewalEvent: subscription.paid may be the first payment.
Route(w) ==
  LET e   == requests[w].event
      row == orderRows[Checkout]
  IN  /\ At(w, "route")
      /\ IF row.paidAt # None /\ SameBillingInstant(row.paidAt, EventOf[e].start)
         THEN Goto(w, "nested", e) ELSE Goto(w, "apply", e)
      /\ UNCHANGED <<clock, inbox, received, records, failures, aborts>>

\* The first payment of a checkout order that has a time of payment: a
\* transaction marks it paid, and inside it FulfillOrder opens another one on
\* its own connection.  While the first one has written, the second can write
\* nothing and fails, and both are rolled back; only an order that is
\* fulfilled, for which neither writes, gets through.
Nested(w) ==
  /\ At(w, "nested")
  /\ Settles(w, IF orderRows[Checkout].status = "fulfilled" THEN "processed" ELSE "failed")
  /\ UNCHANGED <<clock, inbox, received, records, failures, aborts>>

\* applyWithRepos without a transaction, up to its first write.
Apply(w) ==
  LET e   == requests[w].event
      row == orderRows[Checkout]
  IN  /\ At(w, "apply")
      /\ IF row.paidAt # None /\ ~SameBillingInstant(row.paidAt, EventOf[e].start)
           THEN Goto(w, "lookup", e)
         ELSE IF row.status = "fulfilled" THEN Fulfills(w, Checkout)
         ELSE Writes(w, Checkout, Paid(row, EventOf[e].start))
      /\ UNCHANGED <<clock, inbox, received, records, failures, aborts>>

\* Mutation: an event whose order is there has been dealt with.
Lookup_FoundIsDone(w) ==
  /\ At(w, "lookup")
  /\ IF orderRows[CycleKey(requests[w].event)] = None THEN Goto(w, "create", requests[w].event)
     ELSE Settles(w, "processed")
  /\ UNCHANGED <<clock, inbox, received, records, failures, aborts>>

\* resolveRenewalOrder looks the cycle's order up; the row it finds is marked
\* paid by updateRenewalOrderStatus, unless it is fulfilled.
Lookup(w) ==
  LET e   == requests[w].event
      c   == CycleKey(e)
      row == orderRows[c]
  IN  /\ At(w, "lookup")
      /\ CASE row = None               -> Goto(w, "create", e)
           [] row # None /\ row.status = "fulfilled" -> Fulfills(w, c)
           [] OTHER                    -> Writes(w, c, Paid(row, EventOf[e].start))
      /\ UNCHANGED <<clock, inbox, received, records, failures, aborts>>

\* The derived order is inserted, and then saved again as paid; when another
\* request has inserted it meanwhile, its row is looked up instead.
Create(w) ==
  LET e   == requests[w].event
      c   == CycleKey(e)
      row == [status |-> "paid", paidAt |-> EventOf[e].start]
  IN  /\ At(w, "create")
      /\ IF orderRows[c] = None
         THEN orderRows' = [orderRows EXCEPT ![c] = row] /\ Writes(w, c, row)
         ELSE Goto(w, "lookup", e) /\ UNCHANGED orderRows
      /\ UNCHANGED <<clock, inbox, received, periods, graces, failures, aborts>>

\* An order row is saved as a whole.
Write(w) ==
  /\ At(w, "write")
  /\ orderRows' = [orderRows EXCEPT ![requests[w].order] = requests[w].row]
  /\ Fulfills(w, requests[w].order)
  /\ UNCHANGED <<clock, inbox, received, periods, graces, failures, aborts>>

-----------------------------------------------------------------------------
(* Fulfillment of the order's entitlement.                                 *)

\* Mutation: the renewed period starts when the grace period ends.
Anchor_StacksGrace(at) ==
  LET paid  == {p \in {periods[o] : o \in Orders} \ {None} : p > clock /\ p > at}
      grace == {graces[c].end : c \in {d \in Cycles : /\ graces[d] # None
                                                      /\ graces[d].status = "active"
                                                      /\ graces[d].end > clock
                                                      /\ graces[d].start < at}}
  IN  IF paid # {} THEN Max(paid) ELSE Max(grace \cup {at})

\* entitlementFulfillmentAnchor: after the paid period that runs longest, else
\* back to where the running grace period began, else the time of payment.
Anchor(at) ==
  LET paid  == {p \in {periods[o] : o \in Orders} \ {None} : p > clock /\ p > at}
      grace == {graces[c].start : c \in {d \in Cycles : /\ graces[d] # None
                                                        /\ graces[d].status = "active"
                                                        /\ graces[d].end > clock
                                                        /\ graces[d].start < at}}
  IN  CASE paid # {}  -> Max(paid)
        [] paid = {} /\ grace # {} -> Max(grace)
        [] OTHER      -> at

\* Mutation: the grant has no key of its own.
Fulfill_NoGrantKey(w) ==
  LET o   == requests[w].order
      row == orderRows[o]
  IN  /\ At(w, "fulfill")
      /\ IF row.status = "paid"
         THEN /\ orderRows' = [orderRows EXCEPT ![o].status = "fulfilled"]
              /\ periods' = [periods EXCEPT ![o] = Anchor(row.paidAt) + BillingPeriod]
              /\ Settles(w, "processed")
         ELSE /\ Settles(w, IF row.status = "fulfilled" THEN "processed" ELSE "failed")
              /\ UNCHANGED <<orderRows, periods>>
      /\ UNCHANGED <<clock, inbox, received, graces, failures, aborts>>

\* Mutation: an order that is fulfilled is refused as one that is not paid.
Fulfill_AlreadyIsError(w) ==
  LET o   == requests[w].order
      row == orderRows[o]
  IN  /\ At(w, "fulfill")
      /\ IF row.status = "paid"
         THEN /\ orderRows' = [orderRows EXCEPT ![o].status = "fulfilled"]
              /\ periods' = IF periods[o] # None THEN periods
                            ELSE [periods EXCEPT ![o] = Anchor(row.paidAt) + BillingPeriod]
              /\ Settles(w, "processed")
         ELSE /\ Settles(w, "failed")
              /\ UNCHANGED <<orderRows, periods>>
      /\ UNCHANGED <<clock, inbox, received, graces, failures, aborts>>

\* FulfillOrder's transaction: the grant has a key, so that an order that was
\* fulfilled before and saved as paid since then gets no second one.
Fulfill(w) ==
  LET o   == requests[w].order
      row == orderRows[o]
  IN  /\ At(w, "fulfill")
      /\ IF row.status = "paid"
         THEN /\ orderRows' = [orderRows EXCEPT ![o].status = "fulfilled"]
              /\ periods' = IF periods[o] # None THEN periods
                            ELSE [periods EXCEPT ![o] = Anchor(row.paidAt) + BillingPeriod]
              /\ Settles(w, "processed")
         ELSE /\ Settles(w, IF row.status = "fulfilled" THEN "processed" ELSE "failed")
              /\ UNCHANGED <<orderRows, periods>>
      /\ UNCHANGED <<clock, inbox, received, graces, failures, aborts>>

-----------------------------------------------------------------------------
(* Failed renewals and expiries: one transaction each.                     *)

\* Mutation: the row is overwritten whatever its status is.
Unpaid_Always(e) == [status |-> "failed", paidAt |-> None]

\* The cycle's order, derived if need be, as the event leaves it.
Unpaid(e) ==
  LET row == orderRows[CycleKey(e)]
  IN  CASE row = None -> [status |-> "failed", paidAt |-> None]
        [] row # None /\ row.status \in {"paid", "fulfilled"} -> row
        [] OTHER -> IF Type(e) = "renewal_failed" THEN [row EXCEPT !.status = "failed"]
                    ELSE row

\* ensureGraceGrants: one grant per order, under its key.
GraceFor(e) ==
  IF graces[CycleKey(e)] # None THEN graces
  ELSE [graces EXCEPT ![CycleKey(e)] =
          [start |-> EventOf[e].end, end |-> EventOf[e].end + GracePeriod,
           status |-> "active"]]

\* Mutation: the end of a grace grant is not looked at.
Ended_Any(g, at) == g # None /\ g.status = "active" /\ g.start <= at

Ended(g, at) == g # None /\ g.status = "active" /\ g.start <= at /\ g.end <= at

\* expireGraceGrants: as of the time the event was received.
ExpireGraces(at) ==
  [c \in Cycles |-> IF Ended(graces[c], at)
                    THEN [graces[c] EXCEPT !.end = at, !.status = "expired"]
                    ELSE graces[c]]

ApplyUnpaid(w) ==
  LET e == requests[w].event
  IN  /\ At(w, "tx")
      /\ orderRows' = [orderRows EXCEPT ![CycleKey(e)] = Unpaid(e)]
      /\ graces' = CASE Type(e) = "renewal_failed"      -> GraceFor(e)
                     [] ExpiredAction = "expire_grace"
                        /\ Type(e) # "renewal_failed"   -> ExpireGraces(received[e])
                     [] OTHER                           -> graces
      /\ Settles(w, "processed")
      /\ UNCHANGED <<clock, inbox, received, periods, failures, aborts>>

-----------------------------------------------------------------------------
(* Failures and time.                                                      *)

\* A call of the processor, or one of its transactions, fails.
Fails(w) ==
  /\ ~At(w, "idle") /\ ~At(w, "settle")
  /\ failures < MaxFailures /\ failures' = failures + 1
  /\ Settles(w, "failed")
  /\ UNCHANGED <<clock, inbox, received, records, aborts>>

\* The request dies.
Abort(w) ==
  /\ ~At(w, "idle")
  /\ aborts < MaxAborts /\ aborts' = aborts + 1
  /\ Return(w)
  /\ UNCHANGED <<clock, inbox, received, records, failures>>

Outlasted ==
  /\ clock \in Deadlines
  /\ orderRows[Checkout].paidAt = None \/ \E w \in Requests : ~At(w, "idle")

TimePasses ==
  /\ clock < LastTime /\ ~Outlasted
  /\ clock' = clock + 1
  /\ UNCHANGED <<inbox, received, records, requests, failures, aborts>>

-----------------------------------------------------------------------------
NewSubscription ==
  /\ clock = 0
  /\ inbox = [e \in Events |-> "new"]
  /\ received = [e \in Events |-> None]
  /\ orderRows = [o \in Orders |-> IF o = Checkout THEN [status |-> "pending", paidAt |-> None]
                                   ELSE None]
  /\ periods = [o \in Orders |-> None]
  /\ graces = [c \in Cycles |-> None]
  /\ requests = [w \in Requests |-> Resting]
  /\ failures = 0 /\ aborts = 0

Work(w) ==
  \/ ReadOrder(w) \/ Route(w) \/ Nested(w) \/ Apply(w) \/ Lookup(w) \/ Create(w)
  \/ Write(w) \/ Fulfill(w) \/ ApplyUnpaid(w) \/ Settle(w) \/ Fails(w)

RenewalStep ==
  \/ \E w \in Requests, e \in Events : Deliver(w, e)
  \/ \E w \in Requests : Work(w) \/ Abort(w)
  \/ TimePasses

RenewalLife == NewSubscription /\ [][RenewalStep]_subscriptionVars

\* A request that has started runs on; and each event that is announced is
\* delivered, and retried until it is processed.
Fairness ==
  /\ \A w \in Requests : WF_subscriptionVars(Work(w))
  /\ \A e \in Events : WF_subscriptionVars(\E w \in Requests : Deliver(w, e))
  /\ WF_subscriptionVars(TimePasses)

FairRenewalLife == RenewalLife /\ Fairness

-----------------------------------------------------------------------------
(* Properties.                                                             *)

\* Types of the rows and of the requests in flight; an order that is or was
\* paid says when.
RenewalsTyped ==
  /\ clock \in Times
  /\ inbox \in [Events -> {"new", "processing", "failed", "processed"}]
  /\ received \in [Events -> Times \cup {None}]
  /\ orderRows \in [Orders -> Order \cup {None}] /\ orderRows[Checkout] # None
  /\ \A o \in Orders : orderRows[o] # None =>
       (orderRows[o].status \in {"paid", "fulfilled"} => orderRows[o].paidAt # None)
  /\ periods \in [Orders -> Nat \cup {None}]
  /\ graces \in [Cycles -> Grace \cup {None}]
  /\ requests \in [Requests -> Request]
  /\ failures \in 0..MaxFailures /\ aborts \in 0..MaxAborts

\* Orders whose goods the buyer has, and the billing periods paid for so far
\* as the provider has announced them.
Granted == {o \in Orders : periods[o] # None}
PaidPeriods ==
  {EventOf[e].start : e \in {d \in Events : /\ Type(d) \in {"paid", "renewal_paid"}
                                            /\ received[d] # None}}

\* The commerce runbook on the first payment: it is announced by two events,
\* and the buyer gets one period for it.  So for every payment, however often
\* it is announced and by however many requests it is processed at once.
OnePeriodPerPayment == Cardinality(Granted) <= Cardinality(PaidPeriods)

\* Paid periods fit together: each begins when its billing cycle does, or
\* earlier, or exactly where another one ends, so that days of grace are never
\* given on top of it; and no two of them are the same days.
LatestBegin(o) == IF o = Checkout THEN FirstStart + Tolerance ELSE o

PeriodsFit ==
  \A o \in Granted :
    /\ \/ periods[o] - BillingPeriod <= LatestBegin(o)
       \/ \E p \in Granted : periods[p] = periods[o] - BillingPeriod
    /\ \A p \in Granted \ {o} : periods[p] # periods[o]

\* The buyer is given the days that were paid for, no more and no others.
PaidPeriodsAreGiven == OnePeriodPerPayment /\ PeriodsFit

\* The order a payment is fulfilled by.
OrderOf(e) ==
  IF SameBillingInstant(EventOf[e].start, FirstStart) THEN Checkout ELSE CycleKey(e)

\* What the inbox reports as processed has had its effect, whatever stale rows
\* were written and whoever else was at it: a payment has got the buyer its
\* period, and a failed renewal its days of grace.
ProcessedHasEffect ==
  \A e \in Events : inbox[e] = "processed" =>
    /\ Type(e) \in {"paid", "renewal_paid"} => periods[OrderOf(e)] # None
    /\ Type(e) = "renewal_failed" => graces[CycleKey(e)] # None

\* A renewal order whose goods the buyer has never counts as failed, in
\* whichever order its events were processed.
GrantedIsNotFailed == \A o \in Granted : orderRows[o].status # "failed"

\* What the orders, the inbox and the buyer's days say of a renewal agrees.
RenewalsAgree == ProcessedHasEffect /\ GrantedIsNotFailed

\* The renewal runbook: an early subscription.expired does not cut the days of
\* grace short, and nothing ever prolongs them while they last.
GraceRunsItsCourse ==
  [][\A c \in Cycles :
       graces[c] # None => \/ graces'[c] = graces[c]
                          \/ /\ graces'[c] # None /\ graces'[c].status = "expired"
                             /\ clock >= graces[c].end]_subscriptionVars

\* Every event that is announced is processed in the end, although calls fail
\* and other events interfere, as long as it is retried.
EventsConverge == \A e \in Events : received[e] # None ~> inbox[e] = "processed"
=============================================================================
