-------------------------- MODULE PaymentPipeline --------------------------
(***************************************************************************)
(* From a provider's webhook to the goods of an order: the event inbox of  *)
(* internal/service/payment_event.go, the order processor, the fulfillment *)
(* and the refund adjustment it drives.                                    *)
(*                                                                         *)
(* Webhook requests and operators' reprocess requests run concurrently.    *)
(* Only fulfillment and adjustment run in a database transaction; every    *)
(* other repository call is a step of its own, and an update writes the    *)
(* whole row that was read earlier, so a stale row can come back.  A       *)
(* request can die between two calls (the server stops, or the client goes *)
(* away and the request's context is cancelled).                           *)
(***************************************************************************)
EXTENDS Integers, FiniteSets

CONSTANTS
  Workers,       \* requests that can be in flight at once
  Events,        \* provider events, one per (provider, provider_event_id)
  Orders,
  CheckoutOrders,\* the orders of type "checkout"; the rest are legacy ones
  Reprocessable, \* the events operators may reprocess
  Rules,         \* fulfillment rules of the SKU
  EventOf,       \* [Events -> EventType]: what each event says
  Policy,        \* the adjustment policy's configuration: see PolicyType
  RefundWindow,  \* length of the refund window; negative for no limit
  MaxTime,       \* bound on the clock
  MaxFaults,     \* bound on failing calls
  MaxAborts,     \* bound on requests that die
  None           \* a nil *time.Time, or an event that is not on record

Times == 0..MaxTime
Adjustments == {"cancelled", "refunded", "disputed"}
EventType == [order : Orders, type : {"paid", "other"} \cup Adjustments,
              matches : BOOLEAN]     \* amount and currency are the order's

Compensation == {"auto_refund", "manual_review", "reject"}
PolicyType == [inWindow : SUBSET Compensation, outOfWindow : Compensation,
               dispute : Compensation,
               cancel : Compensation \cup {"keep_current_period"}]

ASSUME EventsAssumption == EventOf \in [Events -> EventType]
ASSUME OrdersAssumption == CheckoutOrders \subseteq Orders
ASSUME OperatorsAssumption == Reprocessable \subseteq Events
ASSUME PolicyAssumption == Policy \in PolicyType /\ Policy.inWindow # {}
ASSUME BoundsAssumption ==
  RefundWindow \in Int /\ MaxTime \in Nat /\ MaxFaults \in Nat /\ MaxAborts \in Nat

VARIABLES
  now,         \* the clock
  inbox,       \* PaymentEventInbox.Status of each event
  orders,      \* Order rows
  executions,  \* FulfillmentExecution.Status per order and rule
  granted,     \* grant rows (entitlement or credits) with the rule's target key
  taken,       \* grants revoked, clawback rows written
  flags,       \* disputed events with a PaymentRiskFlag
  workers,     \* where each request is, and the rows it holds
  faults, aborts

rows == <<inbox, orders, executions, granted, taken, flags>>
vars == <<now, inbox, orders, executions, granted, taken, flags, workers, faults, aborts>>

Order == [status : {"pending", "paid", "fulfilled", "cancelled", "refunded"},
          paidAt : Times \cup {None}]

Review == {"review_required", "policy_rejected"}
Terminal == {"processed", "ignored"} \cup Review
OnRecordStatus == {"received", "processing", "failed"} \cup Terminal
EventStatus == {None} \cup OnRecordStatus

ASSUME NoneAssumption == None \notin Int \cup OnRecordStatus

Worker == [pc : {"idle"}]
     \cup [pc : {"create", "claim", "read", "fulfill", "adjust"}, event : Events]
     \cup [pc : {"write"}, event : Events, row : Order]
     \cup [pc : {"lookup"}, event : Events, rule : Rules]
     \cup [pc : {"record"}, event : Events, rule : Rules, exists : BOOLEAN]
     \cup [pc : {"settle"}, event : Events, outcome : {"processed", "failed"} \cup Review]

Idle == [pc |-> "idle"]
At(w, pc) == workers[w].pc = pc
OrderOf(e) == EventOf[e].order

\* Worker w goes on at pc, at the end of its request, or to save an outcome.
Goto(w, pc, e) == workers' = [workers EXCEPT ![w] = [pc |-> pc, event |-> e]]
Return(w) == workers' = [workers EXCEPT ![w] = Idle]
Settles(w, outcome) ==
  workers' = [workers EXCEPT ![w] = [pc |-> "settle", event |-> workers[w].event,
                                     outcome |-> outcome]]

-----------------------------------------------------------------------------
(* The inbox.                                                              *)

\* Mutation: only an event that was never processed is processed.
Redeliverable_NotFailed(e) == inbox[e] = "received"

\* A delivered event that is on record is processed unless it is terminal or
\* a request is processing it.
Redeliverable(e) == inbox[e] \in {"received", "failed"}

\* ReceiveWebhook, up to the lookup by (provider, provider_event_id).
Deliver(w, e) ==
  /\ At(w, "idle")
  /\ IF inbox[e] = None THEN Goto(w, "create", e)
     ELSE Redeliverable(e) /\ Goto(w, "claim", e)
  /\ UNCHANGED <<now, rows, faults, aborts>>

\* The insert fails when another request has inserted the event meanwhile;
\* it is then treated like an event found by the lookup.
Create(w) ==
  LET e == workers[w].event
  IN  /\ At(w, "create")
      /\ IF inbox[e] = None
         THEN inbox' = [inbox EXCEPT ![e] = "received"] /\ Goto(w, "claim", e)
         ELSE /\ IF Redeliverable(e) THEN Goto(w, "claim", e) ELSE Return(w)
              /\ UNCHANGED inbox
      /\ UNCHANGED <<now, orders, executions, granted, taken, flags, faults, aborts>>

\* Process, the operators' reprocess: also for an event under review, and
\* also for one that a request is processing.
Reprocess(w, e) ==
  /\ At(w, "idle")
  /\ e \in Reprocessable
  /\ inbox[e] # None /\ (inbox[e] \in Terminal => inbox[e] \in Review)
  /\ Goto(w, "claim", e)
  /\ UNCHANGED <<now, rows, faults, aborts>>

\* processEvent saves the row it was given as processing, or as ignored.
Claim(w) ==
  LET e == workers[w].event
  IN  /\ At(w, "claim")
      /\ IF EventOf[e].type = "other"
         THEN inbox' = [inbox EXCEPT ![e] = "ignored"] /\ Return(w)
         ELSE inbox' = [inbox EXCEPT ![e] = "processing"] /\ Goto(w, "read", e)
      /\ UNCHANGED <<now, orders, executions, granted, taken, flags, faults, aborts>>

\* Mutation: a policy decision is returned without saving the row.
Settle_ReviewNotSaved(w) ==
  LET e == workers[w].event
  IN  /\ At(w, "settle")
      /\ inbox' = IF workers[w].outcome \in Review THEN inbox
                  ELSE [inbox EXCEPT ![e] = workers[w].outcome]
      /\ Return(w)
      /\ UNCHANGED <<now, orders, executions, granted, taken, flags, faults, aborts>>

\* processEvent and recordPolicyDecision save the outcome.
Settle(w) ==
  LET e == workers[w].event
  IN  /\ At(w, "settle")
      /\ inbox' = [inbox EXCEPT ![e] = workers[w].outcome]
      /\ Return(w)
      /\ UNCHANGED <<now, orders, executions, granted, taken, flags, faults, aborts>>

-----------------------------------------------------------------------------
(* The order.                                                              *)

\* What the order processor makes of the row it has read.
Processed(row, type) ==
  CASE type = "paid" ->
         [status |-> "paid", paidAt |-> IF row.paidAt = None THEN now ELSE row.paidAt]
    [] type = "cancelled" -> [row EXCEPT !.status = "cancelled"]
    [] OTHER              -> [row EXCEPT !.status = "refunded"]

\* An event it leaves a paid or fulfilled order as it is for.
NoChange(row, type) ==
  type \in {"paid", "cancelled"} /\ row.status \in {"paid", "fulfilled"}

\* Mutation: the amount and currency of a payment are not compared.
Acceptable_AnyAmount(e) == TRUE

Acceptable(e) == EventOf[e].type = "paid" => EventOf[e].matches

\* Where the fulfillment processor goes when the order processor is done:
\* a paid order that was not made by checkout has nothing to fulfill.
Dispatch(w) ==
  LET e == workers[w].event
  IN  IF EventOf[e].type # "paid" THEN Goto(w, "adjust", e)
      ELSE IF OrderOf(e) \in CheckoutOrders THEN Goto(w, "fulfill", e)
      ELSE Settles(w, "processed")

ReadOrder(w) ==
  LET e   == workers[w].event
      row == orders[OrderOf(e)]
  IN  /\ At(w, "read")
      /\ IF ~Acceptable(e) THEN Settles(w, "failed")
         ELSE IF NoChange(row, EventOf[e].type) THEN Dispatch(w)
         ELSE workers' = [workers EXCEPT ![w] =
                [pc |-> "write", event |-> e, row |-> Processed(row, EventOf[e].type)]]
      /\ UNCHANGED <<now, rows, faults, aborts>>

WriteOrder(w) ==
  /\ At(w, "write")
  /\ orders' = [orders EXCEPT ![OrderOf(workers[w].event)] = workers[w].row]
  /\ Dispatch(w)
  /\ UNCHANGED <<now, inbox, executions, granted, taken, flags, faults, aborts>>

-----------------------------------------------------------------------------
(* Fulfillment.                                                            *)

\* Mutation: the grant is looked up by its rule's execution alone.
WithGrant_NoTargetKey(o, S) ==
  [granted EXCEPT ![o] = [r \in Rules |-> IF r \in S THEN @[r] + 1 ELSE @[r]]]

\* The rules S of o executed: a grant that is on record under the target key
\* is returned as it is, also when it has been taken back.
WithGrant(o, S) ==
  [granted EXCEPT ![o] = [r \in Rules |-> IF r \in S /\ @[r] = 0 THEN 1 ELSE @[r]]]

\* The rules of o that applyRule does not skip.
Unapplied(o) == {r \in Rules : executions[o][r] # "applied"}

\* Mutation: an order that is not paid any more counts as done.
Fulfill_NotPaidIsDone(w) ==
  LET o == OrderOf(workers[w].event)
  IN  /\ At(w, "fulfill")
      /\ Settles(w, "processed")
      /\ IF orders[o].status = "paid"
         THEN /\ orders' = [orders EXCEPT ![o].status = "fulfilled"]
              /\ granted' = WithGrant(o, Unapplied(o))
              /\ executions' = [executions EXCEPT ![o] = [r \in Rules |-> "applied"]]
         ELSE UNCHANGED <<orders, granted, executions>>
      /\ UNCHANGED <<now, inbox, taken, flags, faults, aborts>>

\* FulfillOrder's transaction, when every rule's executor succeeds.
Fulfill(w) ==
  LET o == OrderOf(workers[w].event)
  IN  /\ At(w, "fulfill")
      /\ CASE orders[o].status = "paid" ->
                /\ orders' = [orders EXCEPT ![o].status = "fulfilled"]
                /\ granted' = WithGrant(o, Unapplied(o))
                /\ executions' = [executions EXCEPT ![o] = [r \in Rules |-> "applied"]]
                /\ Settles(w, "processed")
           [] orders[o].status = "fulfilled" ->
                Settles(w, "processed") /\ UNCHANGED <<orders, granted, executions>>
           [] OTHER ->
                Settles(w, "failed") /\ UNCHANGED <<orders, granted, executions>>
      /\ UNCHANGED <<now, inbox, taken, flags, faults, aborts>>

\* Mutation: the rules before the failing one stay applied.
FailRule_KeepsEarlierRules(w, r) ==
  LET o == OrderOf(workers[w].event)
  IN  /\ At(w, "fulfill")
      /\ faults < MaxFaults /\ faults' = faults + 1
      /\ orders[o].status = "paid" /\ r \in Unapplied(o)
      /\ granted' = WithGrant(o, Unapplied(o) \ {r})
      /\ executions' = [executions EXCEPT ![o] =
                          [q \in Rules |-> IF q = r THEN @[q] ELSE "applied"]]
      /\ workers' = [workers EXCEPT ![w] =
                       [pc |-> "lookup", event |-> workers[w].event, rule |-> r]]
      /\ UNCHANGED <<now, inbox, orders, taken, flags, aborts>>

\* The executor of rule r fails: the transaction, with the rules executed
\* before r, is rolled back.
FailRule(w, r) ==
  LET o == OrderOf(workers[w].event)
  IN  /\ At(w, "fulfill")
      /\ faults < MaxFaults /\ faults' = faults + 1
      /\ orders[o].status = "paid" /\ r \in Unapplied(o)
      /\ workers' = [workers EXCEPT ![w] =
                       [pc |-> "lookup", event |-> workers[w].event, rule |-> r]]
      /\ UNCHANGED <<now, rows, aborts>>

\* persistFailedExecutions, outside the transaction: look the execution up,
\* then overwrite it, or insert it unless someone else has meanwhile.
LookupFailed(w) ==
  LET job == workers[w]
  IN  /\ At(w, "lookup")
      /\ workers' = [workers EXCEPT ![w] =
           [pc |-> "record", event |-> job.event, rule |-> job.rule,
            exists |-> executions[OrderOf(job.event)][job.rule] # "none"]]
      /\ UNCHANGED <<now, rows, faults, aborts>>

RecordFailed(w) ==
  LET job == workers[w]
      o   == OrderOf(job.event)
  IN  /\ At(w, "record")
      /\ executions' = IF job.exists \/ executions[o][job.rule] = "none"
                       THEN [executions EXCEPT ![o][job.rule] = "failed"]
                       ELSE executions
      /\ Settles(w, "failed")
      /\ UNCHANGED <<now, inbox, orders, granted, taken, flags, faults, aborts>>

-----------------------------------------------------------------------------
(* Refunds, disputes and cancellations.                                    *)

InWindow(o) ==
  \/ RefundWindow < 0
  \/ orders[o].paidAt # None /\ now <= orders[o].paidAt + RefundWindow

\* configurablePaymentAdjustmentPolicy.Decide.  With the low-usage policy on,
\* the action in the window depends on the credits used: two choices.
Decisions(e) ==
  CASE EventOf[e].type = "cancelled" -> {Policy.cancel}
    [] EventOf[e].type = "disputed"  -> {Policy.dispute}
    [] OTHER -> IF InWindow(OrderOf(e)) THEN Policy.inWindow ELSE {Policy.outOfWindow}

OutcomeOf(decision) ==
  CASE decision = "manual_review" -> "review_required"
    [] decision = "reject"        -> "policy_rejected"
    [] OTHER                      -> "processed"

\* The grants of o's applied executions taken back: a revoked grant is not
\* revoked again, and a clawback row is written once under its key.
TakenBack(o) ==
  [taken EXCEPT ![o] = [r \in Rules |->
     IF executions[o][r] = "applied" /\ @[r] = 0 THEN 1 ELSE @[r]]]

\* Mutation: a policy decision rolls the transaction back.
Adjust_ReviewRollsBack(w) ==
  LET e == workers[w].event
      o == OrderOf(e)
  IN  /\ At(w, "adjust")
      /\ IF o \notin CheckoutOrders
         THEN Settles(w, "processed") /\ UNCHANGED <<taken, flags>>
         ELSE \E decision \in Decisions(e) :
                /\ Settles(w, OutcomeOf(decision))
                /\ flags' = IF EventOf[e].type = "disputed" /\ OutcomeOf(decision) = "processed"
                            THEN flags \cup {e} ELSE flags
                /\ taken' = IF decision = "auto_refund" THEN TakenBack(o) ELSE taken
      /\ UNCHANGED <<now, inbox, orders, executions, granted, faults, aborts>>

\* Adjustment's transaction: an automatic refund takes back what the applied
\* executions refer to.  A review or a rejection is an error to the inbox, but
\* what was done before it (the risk flag) is committed.
Adjust(w) ==
  LET e == workers[w].event
      o == OrderOf(e)
  IN  /\ At(w, "adjust")
      /\ IF o \notin CheckoutOrders
         THEN Settles(w, "processed") /\ UNCHANGED <<taken, flags>>
         ELSE \E decision \in Decisions(e) :
                /\ Settles(w, OutcomeOf(decision))
                /\ flags' = IF EventOf[e].type = "disputed" THEN flags \cup {e} ELSE flags
                /\ taken' = IF decision = "auto_refund" THEN TakenBack(o) ELSE taken
      /\ UNCHANGED <<now, inbox, orders, executions, granted, faults, aborts>>

-----------------------------------------------------------------------------
(* Failures and time.                                                      *)

\* A repository call of the processor fails, or its transaction does (SQLite
\* refuses a transaction that read what another has since overwritten).
Fault(w) ==
  /\ workers[w].pc \in {"read", "write", "fulfill", "adjust"}
  /\ faults < MaxFaults /\ faults' = faults + 1
  /\ Settles(w, "failed")
  /\ UNCHANGED <<now, rows, aborts>>

\* The request dies, or a call to save the inbox row fails.
Abort(w) ==
  /\ ~At(w, "idle")
  /\ aborts < MaxAborts /\ aborts' = aborts + 1
  /\ Return(w)
  /\ UNCHANGED <<now, rows, faults>>

Tick ==
  /\ now < MaxTime
  /\ now' = now + 1
  /\ UNCHANGED <<rows, workers, faults, aborts>>

-----------------------------------------------------------------------------
Init ==
  /\ now = 0
  /\ inbox = [e \in Events |-> None]
  /\ orders = [o \in Orders |-> [status |-> "pending", paidAt |-> None]]
  /\ executions = [o \in Orders |-> [r \in Rules |-> "none"]]
  /\ granted = [o \in Orders |-> [r \in Rules |-> 0]]
  /\ taken = [o \in Orders |-> [r \in Rules |-> 0]]
  /\ flags = {}
  /\ workers = [w \in Workers |-> Idle]
  /\ faults = 0 /\ aborts = 0

\* What a request does once it has started.
Work(w) ==
  \/ Create(w) \/ Claim(w) \/ ReadOrder(w) \/ WriteOrder(w)
  \/ Fulfill(w) \/ (\E r \in Rules : FailRule(w, r)) \/ LookupFailed(w) \/ RecordFailed(w)
  \/ Adjust(w) \/ Settle(w) \/ Fault(w)

Next ==
  \/ \E w \in Workers, e \in Events : Deliver(w, e) \/ Reprocess(w, e)
  \/ \E w \in Workers : Work(w) \/ Abort(w)
  \/ Tick

Spec == Init /\ [][Next]_vars

\* A request that has started runs on; and somebody, the provider or an
\* operator, delivers each event and retries it until it is settled.
Retried(e) ==
  \E w \in Workers : Deliver(w, e) \/ (Redeliverable(e) /\ Reprocess(w, e))

Fairness ==
  /\ \A w \in Workers : WF_vars(Work(w))
  /\ \A e \in Events : WF_vars(Retried(e))

FairSpec == Spec /\ Fairness

-----------------------------------------------------------------------------
(* Properties.                                                             *)

\* Types of the rows and of the requests in flight.  No good is ever delivered
\* or taken back a second time.
TypeOK ==
  /\ now \in Times
  /\ inbox \in [Events -> EventStatus]
  /\ orders \in [Orders -> Order]
  /\ executions \in [Orders -> [Rules -> {"none", "applied", "failed"}]]
  /\ granted \in [Orders -> [Rules -> {0, 1}]]
  /\ taken \in [Orders -> [Rules -> {0, 1}]]
  /\ flags \subseteq Events
  /\ workers \in [Workers -> Worker]
  /\ faults \in 0..MaxFaults /\ aborts \in 0..MaxAborts

Delivered(o) == \A r \in Rules : granted[o][r] > 0

\* A payment that the inbox reports as processed, with the buyer's order made
\* by checkout, has been answered with every good of the order, whatever other
\* events and failures came in between: no payment is swallowed.
ProcessedPaymentDelivered ==
  \A e \in Events :
    /\ inbox[e] = "processed" /\ EventOf[e].type = "paid"
    /\ OrderOf(e) \in CheckoutOrders
    => Delivered(OrderOf(e))

\* An order is never fulfilled in part, also when a rule of it failed, when
\* two payments were processed at once, or when stale rows were written.
FulfilledIsComplete ==
  \A o \in Orders :
    /\ orders[o].status = "fulfilled" => Delivered(o)
    /\ (\E r \in Rules : granted[o][r] > 0) => Delivered(o)

\* What the buyer paid for is there, all of it, and nothing is there in part.
PaidIsDelivered == ProcessedPaymentDelivered /\ FulfilledIsComplete

\* A dispute of a checkout order that the inbox has dealt with, by a refund
\* or by a review, has left a risk flag.
DisputeLeavesFlag ==
  \A e \in Events :
    /\ EventOf[e].type = "disputed" /\ OrderOf(e) \in CheckoutOrders
    /\ inbox[e] \in Terminal
    => e \in flags

\* Goods are delivered once, together and only for a valid payment; they are
\* taken back at most once and only for a reversal; they never come back.
OnRecord(o, types) ==
  \E e \in Events : /\ OrderOf(e) = o /\ EventOf[e].type \in types
                    /\ EventOf[e].type = "paid" => EventOf[e].matches
                    /\ inbox[e] # None

P == INSTANCE Purchase WITH
       paid     <- {o \in Orders : OnRecord(o, {"paid"})},
       reversed <- {o \in Orders : OnRecord(o, Adjustments)}

ImplementsPurchase == P!Spec

\* A request that runs on leaves no event in processing, whatever it meets.
NoEventStuck ==
  \A e \in Events : inbox[e] = "processing" ~> inbox[e] # "processing"

\* A valid payment is answered with the goods in the end, although calls fail
\* and other events interfere, as long as it is retried.
PaymentIsDelivered ==
  \A e \in Events :
    /\ inbox[e] # None /\ EventOf[e].type = "paid" /\ EventOf[e].matches
    /\ OrderOf(e) \in CheckoutOrders
    ~> Delivered(OrderOf(e))

=============================================================================
