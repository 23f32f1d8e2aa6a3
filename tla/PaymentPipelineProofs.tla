------------------------ MODULE PaymentPipelineProofs ------------------------
(* For any number of requests, events, orders and rules, and for any policy:  *)
(* what the inbox reports as processed was delivered in full, a dispute that  *)
(* was dealt with left its flag, and the pipeline implements Purchase.        *)
EXTENDS PaymentPipeline, TLAPS

USE EventsAssumption, OrdersAssumption, OperatorsAssumption, PolicyAssumption,
    BoundsAssumption, NoneAssumption

-----------------------------------------------------------------------------
(* The inductive invariant.                                                  *)

\* An applied execution has its grant, whatever has overwritten its row since;
\* an order's goods are there all or not at all.
Goods ==
  \A o \in Orders :
    /\ \A r \in Rules : executions[o][r] = "applied" => granted[o][r] = 1
    /\ (\E r \in Rules : granted[o][r] = 1) => Delivered(o)
    /\ orders[o].status = "fulfilled" => Delivered(o)

\* What a request has made sure of on its way to where it is.  The rows it
\* relies on may have been overwritten by now; what it needs of them stays.
JobOK(job) ==
  LET e    == job.event
      type == EventOf[e].type
  IN  /\ job.pc \notin {"idle", "create"} => inbox[e] # None
      /\ job.pc = "read" => type # "other"
      /\ job.pc = "write" =>
           type # "other" /\ Acceptable(e) /\ job.row.status # "fulfilled"
      /\ job.pc \in {"fulfill", "lookup", "record"} =>
           type = "paid" /\ EventOf[e].matches /\ OrderOf(e) \in CheckoutOrders
      /\ job.pc = "adjust" => type \in Adjustments
      /\ job.pc = "settle" =>
           /\ job.outcome = "processed" /\ type = "paid" /\ OrderOf(e) \in CheckoutOrders
              => Delivered(OrderOf(e))
           /\ job.outcome \in Terminal /\ type = "disputed" /\ OrderOf(e) \in CheckoutOrders
              => e \in flags

JobsOK == \A w \in Workers : JobOK(workers[w])

IInv == TypeOK /\ Goods /\ JobsOK /\ ProcessedPaymentDelivered /\ DisputeLeavesFlag

-----------------------------------------------------------------------------
(* Requests.                                                                 *)

Plain   == {"create", "claim", "read", "fulfill", "adjust"}
Outcome == {"processed", "failed"} \cup Review

\* What a request holds follows from where it is.
LEMMA Jobs ==
  ASSUME TypeOK, NEW w \in Workers
  PROVE  /\ workers[w].pc # "idle" => workers[w].event \in Events
         /\ workers[w].pc = "write" => workers[w].row \in Order
         /\ workers[w].pc \in {"lookup", "record"} => workers[w].rule \in Rules
         /\ workers[w].pc = "record" => workers[w].exists \in BOOLEAN
         /\ workers[w].pc = "settle" => workers[w].outcome \in Outcome
         /\ workers[w].pc \in Plain \cup {"idle", "write", "lookup", "record", "settle"}
<1>1. workers[w] \in Worker
  BY DEF TypeOK
<1> QED
  BY <1>1 DEF Worker, Plain, Outcome

\* Every event is about an order.
LEMMA EventTypes ==
  ASSUME NEW e \in Events
  PROVE  /\ OrderOf(e) \in Orders /\ EventOf[e].matches \in BOOLEAN
         /\ EventOf[e].type \in {"paid", "other"} \cup Adjustments
         /\ "paid" \notin Adjustments /\ "other" \notin Adjustments /\ "disputed" \in Adjustments
  BY DEF EventType, OrderOf, Adjustments

\* What the steps of requests never undo.
Grows ==
  /\ \A e \in Events : inbox[e] # None => inbox'[e] # None
  /\ \A o \in Orders : Delivered(o) => Delivered(o)'
  /\ flags \subseteq flags'

\* The step of one request: the others still know what they knew.
LEMMA OneMoves ==
  ASSUME TypeOK, JobsOK, Grows, NEW w \in Workers, NEW job \in Worker, JobOK(job)',
         workers' = [workers EXCEPT ![w] = job]
  PROVE  workers' \in [Workers -> Worker] /\ JobsOK'
<1>1. /\ workers' \in [Workers -> Worker] /\ workers'[w] = job
      /\ \A x \in Workers : x # w => workers'[x] = workers[x]
  BY DEF TypeOK
<1>2. ASSUME NEW x \in Workers, x # w PROVE JobOK(workers[x])'
  <2>1. workers[x].pc # "idle" => workers[x].event \in Events /\ OrderOf(workers[x].event) \in Orders
    BY Jobs, EventTypes
  <2>2. workers'[x] = workers[x] /\ JobOK(workers[x])
    BY <1>1, <1>2 DEF JobsOK
  <2> QED
    BY <2>1, <2>2 DEF JobOK, Grows, Acceptable
<1> QED
  BY <1>1, <1>2 DEF JobsOK

\* Steps that only move a request.
LEMMA MoveOnly ==
  ASSUME IInv, NEW w \in Workers, NEW job \in Worker, JobOK(job),
         workers' = [workers EXCEPT ![w] = job], UNCHANGED <<now, rows>>,
         faults' \in 0..MaxFaults, aborts' \in 0..MaxAborts
  PROVE  IInv'
<1>1. UNCHANGED <<now, inbox, orders, executions, granted, taken, flags>>
  BY DEF rows
<1>2. Grows /\ JobOK(job)'
  BY <1>1 DEF Grows, JobOK, Delivered, Acceptable
<1>3. workers' \in [Workers -> Worker] /\ JobsOK'
  BY <1>2, OneMoves DEF IInv
<1> QED
  BY <1>1, <1>3 DEF IInv, TypeOK, Goods, ProcessedPaymentDelivered, DisputeLeavesFlag, Delivered

\* A step of the inbox: what it saves as dealt with was dealt with.
LEMMA InboxStep ==
  ASSUME IInv, NEW w \in Workers, NEW job \in Worker, JobOK(job)',
         workers' = [workers EXCEPT ![w] = job],
         NEW e \in Events, NEW status \in EventStatus, status # None,
         inbox' = [inbox EXCEPT ![e] = status],
         status = "processed" /\ EventOf[e].type = "paid" /\ OrderOf(e) \in CheckoutOrders
           => Delivered(OrderOf(e)),
         status \in Terminal /\ EventOf[e].type = "disputed" /\ OrderOf(e) \in CheckoutOrders
           => e \in flags,
         UNCHANGED <<now, orders, executions, granted, taken, flags, faults, aborts>>
  PROVE  IInv'
<1>1. /\ inbox' \in [Events -> EventStatus] /\ inbox'[e] = status
      /\ \A f \in Events : f # e => inbox'[f] = inbox[f]
  BY DEF IInv, TypeOK
<1>2. \A o : Delivered(o)' = Delivered(o)
  BY DEF Delivered
<1>3. Grows
  BY <1>1, <1>2 DEF Grows
<1>4. workers' \in [Workers -> Worker] /\ JobsOK'
  BY <1>3, OneMoves DEF IInv
<1>5. ProcessedPaymentDelivered'
  BY <1>1, <1>2 DEF IInv, ProcessedPaymentDelivered
<1>6. DisputeLeavesFlag'
  BY <1>1 DEF IInv, DisputeLeavesFlag
<1> QED
  BY <1>1, <1>2, <1>4, <1>5, <1>6 DEF IInv, TypeOK, Goods

-----------------------------------------------------------------------------
(* The jobs that requests go on with.                                        *)

LEMMA PlainJob ==
  ASSUME NEW pc \in Plain, NEW e \in Events
  PROVE  [pc |-> pc, event |-> e] \in Worker
  BY DEF Worker, Plain

LEMMA IdleJob == Idle \in Worker /\ JobOK(Idle)
  BY DEF Worker, Idle, JobOK

LEMMA SettleJob ==
  ASSUME NEW e \in Events, NEW outcome \in Outcome
  PROVE  [pc |-> "settle", event |-> e, outcome |-> outcome] \in Worker
  BY DEF Worker, Outcome

\* Where a request goes when the order processor is done with an event.
LEMMA DispatchJob ==
  ASSUME TypeOK, NEW w \in Workers, workers[w].pc \in {"read", "write"}, JobOK(workers[w]),
         Acceptable(workers[w].event), Dispatch(w)
  PROVE  \E job \in Worker : JobOK(job) /\ workers' = [workers EXCEPT ![w] = job]
<1> DEFINE e == workers[w].event
<1>1. e \in Events /\ inbox[e] # None /\ EventOf[e].type # "other"
  BY Jobs DEF JobOK
<1>2. EventOf[e].type \in {"paid"} \cup Adjustments
  BY <1>1, EventTypes
<1>3. CASE EventOf[e].type # "paid"
  <2>1. workers' = [workers EXCEPT ![w] = [pc |-> "adjust", event |-> e]]
    BY <1>3 DEF Dispatch, Goto
  <2>2. JobOK([pc |-> "adjust", event |-> e])
    BY <1>1, <1>2, <1>3 DEF JobOK
  <2> QED
    BY <1>1, <2>1, <2>2, PlainJob DEF Plain
<1>4. CASE EventOf[e].type = "paid" /\ OrderOf(e) \in CheckoutOrders
  <2>1. workers' = [workers EXCEPT ![w] = [pc |-> "fulfill", event |-> e]]
    BY <1>4 DEF Dispatch, Goto
  <2>2. EventOf[e].matches
    BY <1>4 DEF Acceptable
  <2>3. JobOK([pc |-> "fulfill", event |-> e])
    BY <1>1, <1>4, <2>2 DEF JobOK
  <2> QED
    BY <1>1, <2>1, <2>3, PlainJob DEF Plain
<1>5. CASE EventOf[e].type = "paid" /\ OrderOf(e) \notin CheckoutOrders
  <2> DEFINE job == [pc |-> "settle", event |-> e, outcome |-> "processed"]
  <2>1. workers' = [workers EXCEPT ![w] = job]
    BY <1>5 DEF Dispatch, Settles
  <2>2. job.pc = "settle" /\ job.event = e /\ job.outcome = "processed"
    OBVIOUS
  <2>3. job \in Worker
    BY <1>1, SettleJob DEF Outcome
  <2> HIDE DEF job
  <2>4. JobOK(job)
    BY <1>1, <1>5, <2>2 DEF JobOK
  <2> QED
    BY <2>1, <2>3, <2>4
<1> QED
  BY <1>3, <1>4, <1>5

-----------------------------------------------------------------------------
(* The inbox's steps.                                                        *)

\* Saving or losing an outcome, a fault, and the end of a request.
LEMMA SettlesFailed ==
  ASSUME TypeOK, NEW w \in Workers, NEW e \in Events, e = workers[w].event, inbox[e] # None
  PROVE  LET job == [pc |-> "settle", event |-> e, outcome |-> "failed"]
         IN  job \in Worker /\ JobOK(job)
<1> DEFINE job == [pc |-> "settle", event |-> e, outcome |-> "failed"]
<1>1. job \in Worker
  BY SettleJob DEF Outcome
<1>2. job.pc = "settle" /\ job.event = e /\ job.outcome = "failed"
  OBVIOUS
<1>3. "failed" \notin Terminal
  BY DEF Terminal, Review
<1> HIDE DEF job
<1>4. JobOK(job)
  BY <1>2, <1>3 DEF JobOK
<1> QED
  BY <1>1, <1>4 DEF job

LEMMA DeliverKeeps ==
  ASSUME IInv, NEW w \in Workers, NEW e \in Events, Deliver(w, e) \/ Reprocess(w, e)
  PROVE  IInv'
<1>1. PICK pc \in {"create", "claim"} :
        /\ workers' = [workers EXCEPT ![w] = [pc |-> pc, event |-> e]]
        /\ pc = "claim" => inbox[e] # None
  BY DEF Deliver, Reprocess, Goto
<1>2. [pc |-> pc, event |-> e] \in Worker
  BY PlainJob DEF Plain
<1>3. JobOK([pc |-> pc, event |-> e])
  BY <1>1 DEF JobOK
<1>4. UNCHANGED <<now, rows>> /\ faults' \in 0..MaxFaults /\ aborts' \in 0..MaxAborts
  BY DEF Deliver, Reprocess, IInv, TypeOK
<1> QED
  BY <1>1, <1>2, <1>3, <1>4, MoveOnly

LEMMA CreateKeeps ==
  ASSUME IInv, NEW w \in Workers, Create(w)
  PROVE  IInv'
<1> PICK e \in Events : e = workers[w].event
  BY Jobs DEF Create, At, IInv
<1> DEFINE job == [pc |-> "claim", event |-> e]
<1>1. job \in Worker
  BY PlainJob DEF Plain
<1>2. CASE inbox[e] = None
  <2>1. inbox' = [inbox EXCEPT ![e] = "received"] /\ workers' = [workers EXCEPT ![w] = job]
    BY <1>2 DEF Create, Goto
  <2>2. inbox'[e] = "received" /\ "received" # None
    BY <2>1 DEF IInv, TypeOK, OnRecordStatus
  <2>3. JobOK(job)'
    BY <2>2 DEF JobOK
  <2>4. "received" \in EventStatus /\ "received" # "processed" /\ "received" \notin Terminal
    BY DEF EventStatus, OnRecordStatus, Terminal, Review
  <2>5. UNCHANGED <<now, orders, executions, granted, taken, flags, faults, aborts>>
    BY DEF Create
  <2> HIDE DEF job
  <2> QED
    BY <1>1, <2>1, <2>2, <2>3, <2>4, <2>5, InboxStep
<1>3. CASE inbox[e] # None
  <2>1. UNCHANGED <<now, rows>> /\ faults' \in 0..MaxFaults /\ aborts' \in 0..MaxAborts
    BY <1>3 DEF Create, rows, IInv, TypeOK
  <2>2. workers' = [workers EXCEPT ![w] = job] \/ workers' = [workers EXCEPT ![w] = Idle]
    BY <1>3 DEF Create, Goto, Return
  <2>3. JobOK(job)
    BY <1>3 DEF JobOK
  <2> HIDE DEF job
  <2> QED
    BY <1>1, <2>1, <2>2, <2>3, IdleJob, MoveOnly
<1> QED
  BY <1>2, <1>3

LEMMA ClaimKeeps ==
  ASSUME IInv, NEW w \in Workers, Claim(w)
  PROVE  IInv'
<1> PICK e \in Events : e = workers[w].event
  BY Jobs DEF Claim, At, IInv
<1> DEFINE job == [pc |-> "read", event |-> e]
<1>1. job \in Worker
  BY PlainJob DEF Plain
<1>2. UNCHANGED <<now, orders, executions, granted, taken, flags, faults, aborts>>
  BY DEF Claim
<1>3. CASE EventOf[e].type = "other"
  <2>1. inbox' = [inbox EXCEPT ![e] = "ignored"] /\ workers' = [workers EXCEPT ![w] = Idle]
    BY <1>3 DEF Claim, Return
  <2>2. "ignored" \in EventStatus /\ "ignored" # None
    BY DEF EventStatus, OnRecordStatus, Terminal
  <2>3. JobOK(Idle)'
    BY DEF JobOK, Idle
  <2> QED
    BY <1>2, <1>3, <2>1, <2>2, <2>3, IdleJob, InboxStep
<1>4. CASE EventOf[e].type # "other"
  <2>1. inbox' = [inbox EXCEPT ![e] = "processing"] /\ workers' = [workers EXCEPT ![w] = job]
    BY <1>4 DEF Claim, Goto
  <2>2. inbox'[e] = "processing" /\ "processing" # None
    BY <2>1 DEF IInv, TypeOK, OnRecordStatus
  <2>3. JobOK(job)'
    BY <1>4, <2>2 DEF JobOK
  <2>4. "processing" \in EventStatus /\ "processing" # "processed" /\ "processing" \notin Terminal
    BY DEF EventStatus, OnRecordStatus, Terminal, Review
  <2> HIDE DEF job
  <2> QED
    BY <1>1, <1>2, <2>1, <2>2, <2>3, <2>4, InboxStep
<1> QED
  BY <1>3, <1>4

LEMMA SettleKeeps ==
  ASSUME IInv, NEW w \in Workers, Settle(w)
  PROVE  IInv'
<1> PICK e \in Events : e = workers[w].event
  BY Jobs DEF Settle, At, IInv
<1> DEFINE outcome == workers[w].outcome
<1>1. outcome \in Outcome /\ JobOK(workers[w]) /\ workers[w].pc = "settle"
  BY Jobs DEF Settle, At, IInv, JobsOK
<1>2. /\ outcome = "processed" /\ EventOf[e].type = "paid" /\ OrderOf(e) \in CheckoutOrders
           => Delivered(OrderOf(e))
      /\ outcome \in Terminal /\ EventOf[e].type = "disputed" /\ OrderOf(e) \in CheckoutOrders
           => e \in flags
  BY <1>1 DEF JobOK
<1>3. inbox' = [inbox EXCEPT ![e] = outcome] /\ workers' = [workers EXCEPT ![w] = Idle]
  BY DEF Settle, Return
<1>4. outcome \in EventStatus /\ outcome # None
  BY <1>1 DEF Outcome, EventStatus, OnRecordStatus, Terminal, Review
<1>5. JobOK(Idle)'
  BY DEF JobOK, Idle
<1>6. UNCHANGED <<now, orders, executions, granted, taken, flags, faults, aborts>>
  BY DEF Settle
<1> HIDE DEF outcome
<1> QED
  BY <1>2, <1>3, <1>4, <1>5, <1>6, IdleJob, InboxStep

-----------------------------------------------------------------------------
(* The order's steps.                                                        *)

\* The order processor never makes a row fulfilled.
LEMMA ProcessedRow ==
  ASSUME now \in Times, NEW row \in Order, NEW type \in {"paid"} \cup Adjustments
  PROVE  Processed(row, type) \in Order /\ Processed(row, type).status # "fulfilled"
<1>1. CASE type = "paid"
  <2> DEFINE at == IF row.paidAt = None THEN now ELSE row.paidAt
  <2>1. at \in Times \cup {None}
    BY DEF Order
  <2>2. Processed(row, type) = [status |-> "paid", paidAt |-> at]
    BY <1>1 DEF Processed
  <2> HIDE DEF at
  <2> QED
    BY <2>1, <2>2 DEF Order
<1>2. CASE type # "paid"
  <2>1. PICK status \in {"cancelled", "refunded"} : Processed(row, type) = [row EXCEPT !.status = status]
    BY <1>2 DEF Processed
  <2> QED
    BY <2>1 DEF Order
<1> QED
  BY <1>1, <1>2

LEMMA ReadOrderKeeps ==
  ASSUME IInv, NEW w \in Workers, ReadOrder(w)
  PROVE  IInv'
<1> PICK e \in Events : e = workers[w].event
  BY Jobs DEF ReadOrder, At, IInv
<1> DEFINE row == orders[OrderOf(e)]
           type == EventOf[e].type
<1>1. workers[w].pc = "read" /\ JobOK(workers[w]) /\ TypeOK
  BY DEF ReadOrder, At, IInv, JobsOK
<1>2. inbox[e] # None /\ type \in {"paid"} \cup Adjustments
  BY <1>1, EventTypes DEF JobOK
<1>3. UNCHANGED <<now, rows>> /\ faults' \in 0..MaxFaults /\ aborts' \in 0..MaxAborts
  BY <1>1 DEF ReadOrder, TypeOK
<1>4. CASE ~Acceptable(e)
  <2>1. workers' = [workers EXCEPT ![w] = [pc |-> "settle", event |-> e, outcome |-> "failed"]]
    BY <1>4 DEF ReadOrder, Settles
  <2> QED
    BY <1>1, <1>2, <1>3, <2>1, SettlesFailed, MoveOnly
<1>5. CASE Acceptable(e) /\ NoChange(row, type)
  <2>1. Dispatch(w)
    BY <1>5 DEF ReadOrder
  <2>2. PICK job \in Worker : JobOK(job) /\ workers' = [workers EXCEPT ![w] = job]
    BY <1>1, <1>5, <2>1, DispatchJob
  <2> QED
    BY <1>3, <2>2, MoveOnly
<1>6. CASE Acceptable(e) /\ ~NoChange(row, type)
  <2> DEFINE new == Processed(row, type)
             job == [pc |-> "write", event |-> e, row |-> new]
  <2>1. workers' = [workers EXCEPT ![w] = job]
    BY <1>6 DEF ReadOrder
  <2>2. row \in Order /\ now \in Times
    BY <1>1, EventTypes DEF TypeOK
  <2>3. new \in Order /\ new.status # "fulfilled"
    BY <1>2, <2>2, ProcessedRow
  <2> HIDE DEF new
  <2>4. job \in Worker
    BY <2>3 DEF Worker
  <2>5. job.pc = "write" /\ job.event = e /\ job.row = new
    OBVIOUS
  <2> HIDE DEF job
  <2>6. JobOK(job)
    BY <1>2, <1>6, <2>3, <2>5, EventTypes DEF JobOK
  <2> QED
    BY <1>3, <2>1, <2>4, <2>6, MoveOnly
<1> QED
  BY <1>4, <1>5, <1>6

LEMMA WriteOrderKeeps ==
  ASSUME IInv, NEW w \in Workers, WriteOrder(w)
  PROVE  IInv'
<1> PICK e \in Events : e = workers[w].event
  BY Jobs DEF WriteOrder, At, IInv
<1> DEFINE o == OrderOf(e)
           row == workers[w].row
<1>1. workers[w].pc = "write" /\ JobOK(workers[w]) /\ TypeOK
  BY DEF WriteOrder, At, IInv, JobsOK
<1>2. o \in Orders /\ row \in Order /\ row.status # "fulfilled" /\ Acceptable(e)
  BY <1>1, Jobs, EventTypes DEF JobOK
<1>3. PICK job \in Worker : JobOK(job) /\ workers' = [workers EXCEPT ![w] = job]
  BY <1>1, <1>2, DispatchJob DEF WriteOrder
<1>4. /\ orders' = [orders EXCEPT ![o] = row]
      /\ UNCHANGED <<now, inbox, executions, granted, taken, flags, faults, aborts>>
  BY DEF WriteOrder
<1>5. /\ orders' \in [Orders -> Order] /\ orders'[o] = row
      /\ \A p \in Orders : p # o => orders'[p] = orders[p]
  BY <1>1, <1>2, <1>4 DEF TypeOK
<1>6. \A p : Delivered(p)' = Delivered(p)
  BY <1>4 DEF Delivered
<1>7. Grows /\ JobOK(job)'
  BY <1>3, <1>4, <1>6 DEF Grows, JobOK, Acceptable
<1>8. workers' \in [Workers -> Worker] /\ JobsOK'
  BY <1>3, <1>7, OneMoves DEF IInv
<1>9. Goods'
  BY <1>2, <1>4, <1>5, <1>6 DEF IInv, Goods
<1> QED
  BY <1>1, <1>4, <1>5, <1>6, <1>8, <1>9 DEF IInv, TypeOK, ProcessedPaymentDelivered, DisputeLeavesFlag

-----------------------------------------------------------------------------
(* Fulfillment's steps.                                                      *)

\* The executors run on an order that has all its goods or none of them, and
\* leave it with one of each.
LEMMA Granting ==
  ASSUME TypeOK, Goods, NEW o \in Orders
  PROVE  /\ WithGrant(o, Unapplied(o)) = [granted EXCEPT ![o] = [r \in Rules |-> 1]]
         /\ Delivered(o) \/ granted[o] = [r \in Rules |-> 0]
<1> DEFINE after == [r \in Rules |-> IF r \in Unapplied(o) /\ granted[o][r] = 0
                                     THEN 1 ELSE granted[o][r]]
<1>1. granted \in [Orders -> [Rules -> {0, 1}]]
  BY DEF TypeOK
<1>2. WithGrant(o, Unapplied(o)) = [granted EXCEPT ![o] = after]
  BY <1>1 DEF WithGrant
<1>3. CASE Delivered(o)
  <2>1. \A r \in Rules : granted[o][r] = 1
    BY <1>1, <1>3 DEF Delivered
  <2>2. after = [r \in Rules |-> 1]
    BY <2>1
  <2> QED
    BY <1>2, <1>3, <2>2
<1>4. CASE ~Delivered(o)
  <2>1. \A r \in Rules : granted[o][r] = 0
    BY <1>1, <1>4 DEF Goods
  <2>2. granted[o] = [r \in Rules |-> 0]
    BY <1>1, <2>1
  <2>3. \A r \in Rules : executions[o][r] # "applied"
    BY <2>1 DEF Goods
  <2>4. after = [r \in Rules |-> 1]
    BY <2>1, <2>3 DEF Unapplied
  <2> QED
    BY <1>2, <2>2, <2>4
<1> QED
  BY <1>3, <1>4

\* What a request that fulfills an order knows.
LEMMA Fulfilling ==
  ASSUME IInv, NEW w \in Workers, workers[w].pc \in {"fulfill", "lookup", "record"},
         NEW e \in Events, e = workers[w].event
  PROVE  /\ TypeOK /\ Goods /\ inbox[e] # None
         /\ EventOf[e].type = "paid" /\ EventOf[e].matches
         /\ OrderOf(e) \in CheckoutOrders /\ OrderOf(e) \in Orders
<1>1. JobOK(workers[w])
  BY DEF IInv, JobsOK
<1> QED
  BY <1>1 DEF JobOK, IInv

LEMMA FulfillKeeps ==
  ASSUME IInv, NEW w \in Workers, Fulfill(w)
  PROVE  IInv'
<1> PICK e \in Events : e = workers[w].event
  BY Jobs DEF Fulfill, At, IInv
<1> PICK o \in Orders : o = OrderOf(e)
  BY EventTypes
<1> DEFINE job == [pc |-> "settle", event |-> e, outcome |-> "processed"]
<1>1. /\ TypeOK /\ Goods /\ inbox[e] # None /\ EventOf[e].type = "paid"
      /\ o \in CheckoutOrders
  BY Fulfilling DEF Fulfill, At
<1>2. UNCHANGED <<now, inbox, taken, flags, faults, aborts>>
  BY DEF Fulfill
<1>3. job \in Worker
  BY SettleJob DEF Outcome
<1>4. job.pc = "settle" /\ job.event = e /\ job.outcome = "processed"
  OBVIOUS
<1>5. CASE orders[o].status = "paid"
  <2>1. /\ orders' = [orders EXCEPT ![o].status = "fulfilled"]
        /\ granted' = WithGrant(o, Unapplied(o))
        /\ executions' = [executions EXCEPT ![o] = [r \in Rules |-> "applied"]]
        /\ workers' = [workers EXCEPT ![w] = job]
    BY <1>5 DEF Fulfill, Settles
  <2> HIDE DEF job
  <2>2. granted' = [granted EXCEPT ![o] = [r \in Rules |-> 1]]
    BY <1>1, <2>1, Granting
  <2>3. /\ granted' \in [Orders -> [Rules -> {0, 1}]]
        /\ \A r \in Rules : granted'[o][r] = 1
        /\ \A p \in Orders : p # o => granted'[p] = granted[p]
    BY <1>1, <2>2 DEF TypeOK
  <2>4. /\ executions' \in [Orders -> [Rules -> {"none", "applied", "failed"}]]
        /\ \A p \in Orders : p # o => executions'[p] = executions[p]
    BY <1>1, <2>1 DEF TypeOK
  <2>5. /\ orders' \in [Orders -> Order]
        /\ \A p \in Orders : p # o => orders'[p] = orders[p]
    <3>1. orders \in [Orders -> Order] /\ o \in Orders
      BY <1>1 DEF TypeOK
    <3>2. [orders[o] EXCEPT !.status = "fulfilled"] \in Order
      BY <3>1 DEF Order
    <3>3. orders' = [orders EXCEPT ![o] = [orders[o] EXCEPT !.status = "fulfilled"]]
      BY <2>1
    <3> QED
      BY <3>1, <3>2, <3>3
  <2>6. Delivered(o)' /\ \A p \in Orders : p # o => Delivered(p)' = Delivered(p)
    BY <2>3 DEF Delivered
  <2>7. Goods'
    <3>1. ASSUME NEW p \in Orders, p # o
          PROVE  /\ \A r \in Rules : executions'[p][r] = "applied" => granted'[p][r] = 1
                 /\ (\E r \in Rules : granted'[p][r] = 1) => Delivered(p)'
                 /\ orders'[p].status = "fulfilled" => Delivered(p)'
      <4>1. /\ executions'[p] = executions[p] /\ granted'[p] = granted[p]
            /\ orders'[p] = orders[p] /\ Delivered(p)' = Delivered(p)
        BY <2>3, <2>4, <2>5, <2>6, <3>1
      <4> QED
        BY <1>1, <4>1 DEF Goods
    <3> QED
      BY <2>3, <2>6, <3>1 DEF Goods
  <2>8. JobOK(job)'
    BY <1>1, <1>2, <1>4, <2>6 DEF JobOK
  <2>9. Grows
    BY <1>2, <2>6 DEF Grows
  <2>10. workers' \in [Workers -> Worker] /\ JobsOK'
    BY <1>1, <1>3, <2>1, <2>8, <2>9, OneMoves DEF IInv
  <2>11. ProcessedPaymentDelivered' /\ DisputeLeavesFlag'
    <3>1. ASSUME NEW f \in Events, inbox[f] = "processed", EventOf[f].type = "paid",
                 OrderOf(f) \in CheckoutOrders
          PROVE  Delivered(OrderOf(f))'
      BY <2>9, <3>1, EventTypes DEF Grows, IInv, ProcessedPaymentDelivered
    <3> QED
      BY <1>2, <3>1 DEF IInv, ProcessedPaymentDelivered, DisputeLeavesFlag
  <2> QED
    BY <1>1, <1>2, <2>3, <2>4, <2>5, <2>7, <2>10, <2>11 DEF IInv, TypeOK
<1>6. CASE orders[o].status # "paid"
  <2>1. UNCHANGED <<now, rows, faults, aborts>>
    BY <1>2, <1>6 DEF Fulfill, rows
  <2>2. faults' \in 0..MaxFaults /\ aborts' \in 0..MaxAborts /\ UNCHANGED <<now, rows>>
    BY <1>1, <2>1 DEF TypeOK
  <2>3. CASE orders[o].status = "fulfilled"
    <3>1. workers' = [workers EXCEPT ![w] = job]
      BY <1>6, <2>3 DEF Fulfill, Settles
    <3> HIDE DEF job
    <3>2. JobOK(job)
      BY <1>1, <1>4, <2>3 DEF JobOK, Goods
    <3> QED
      BY <1>3, <2>2, <3>1, <3>2, MoveOnly
  <2>4. CASE orders[o].status # "fulfilled"
    <3>1. workers' = [workers EXCEPT ![w] = [pc |-> "settle", event |-> e, outcome |-> "failed"]]
      BY <1>6, <2>4 DEF Fulfill, Settles
    <3> QED
      BY <1>1, <2>2, <3>1, SettlesFailed, MoveOnly
  <2> QED
    BY <2>3, <2>4
<1> QED
  BY <1>5, <1>6

LEMMA FailRuleKeeps ==
  ASSUME IInv, NEW w \in Workers, NEW r \in Rules, FailRule(w, r)
  PROVE  IInv'
<1> PICK e \in Events : e = workers[w].event
  BY Jobs DEF FailRule, At, IInv
<1> DEFINE job == [pc |-> "lookup", event |-> e, rule |-> r]
<1>1. workers' = [workers EXCEPT ![w] = job] /\ UNCHANGED <<now, rows>>
  BY DEF FailRule
<1>2. faults' \in 0..MaxFaults /\ aborts' \in 0..MaxAborts
  BY DEF FailRule, IInv, TypeOK
<1>3. job \in Worker
  BY DEF Worker
<1>4. job.pc = "lookup" /\ job.event = e
  OBVIOUS
<1>5. /\ inbox[e] # None /\ EventOf[e].type = "paid" /\ EventOf[e].matches
      /\ OrderOf(e) \in CheckoutOrders
  BY Fulfilling DEF FailRule, At
<1> HIDE DEF job
<1>6. JobOK(job)
  BY <1>4, <1>5 DEF JobOK
<1> QED
  BY <1>1, <1>2, <1>3, <1>6, MoveOnly

LEMMA LookupFailedKeeps ==
  ASSUME IInv, NEW w \in Workers, LookupFailed(w)
  PROVE  IInv'
<1>1. workers[w].pc = "lookup"
  BY DEF LookupFailed, At
<1> PICK e \in Events : e = workers[w].event
  BY <1>1, Jobs DEF IInv
<1> PICK r \in Rules : r = workers[w].rule
  BY <1>1, Jobs DEF IInv
<1> DEFINE exists == executions[OrderOf(e)][r] # "none"
           job    == [pc |-> "record", event |-> e, rule |-> r, exists |-> exists]
<1>2. workers' = [workers EXCEPT ![w] = job] /\ UNCHANGED <<now, rows>>
  BY DEF LookupFailed
<1>3. faults' \in 0..MaxFaults /\ aborts' \in 0..MaxAborts
  BY DEF LookupFailed, IInv, TypeOK
<1>4. exists \in BOOLEAN
  OBVIOUS
<1> HIDE DEF exists
<1>5. job \in Worker
  BY <1>4 DEF Worker
<1>6. job.pc = "record" /\ job.event = e
  OBVIOUS
<1>7. /\ inbox[e] # None /\ EventOf[e].type = "paid" /\ EventOf[e].matches
      /\ OrderOf(e) \in CheckoutOrders
  BY <1>1, Fulfilling
<1> HIDE DEF job
<1>8. JobOK(job)
  BY <1>6, <1>7 DEF JobOK
<1> QED
  BY <1>2, <1>3, <1>5, <1>8, MoveOnly

LEMMA RecordFailedKeeps ==
  ASSUME IInv, NEW w \in Workers, RecordFailed(w)
  PROVE  IInv'
<1>1. workers[w].pc = "record"
  BY DEF RecordFailed, At
<1> PICK e \in Events : e = workers[w].event
  BY <1>1, Jobs DEF IInv
<1> PICK r \in Rules : r = workers[w].rule
  BY <1>1, Jobs DEF IInv
<1> PICK o \in Orders : o = OrderOf(e)
  BY EventTypes
<1> DEFINE job == [pc |-> "settle", event |-> e, outcome |-> "failed"]
<1>2. TypeOK /\ Goods /\ inbox[e] # None
  BY <1>1, Fulfilling
<1>3. /\ workers' = [workers EXCEPT ![w] = job]
      /\ UNCHANGED <<now, inbox, orders, granted, taken, flags, faults, aborts>>
  BY DEF RecordFailed, Settles
<1>4. executions' \in {executions, [executions EXCEPT ![o][r] = "failed"]}
  BY DEF RecordFailed
<1>5. /\ executions' \in [Orders -> [Rules -> {"none", "applied", "failed"}]]
      /\ \A p \in Orders, q \in Rules : executions'[p][q] = "applied" => executions[p][q] = "applied"
  <2> DEFINE row == [executions[o] EXCEPT ![r] = "failed"]
  <2>1. /\ executions[o] \in [Rules -> {"none", "applied", "failed"}]
        /\ executions \in [Orders -> [Rules -> {"none", "applied", "failed"}]]
    BY <1>2 DEF TypeOK
  <2>2. /\ row \in [Rules -> {"none", "applied", "failed"}]
        /\ \A q \in Rules : row[q] = "applied" => executions[o][q] = "applied"
    BY <2>1
  <2>3. executions' = executions \/ executions' = [executions EXCEPT ![o] = row]
    BY <1>4
  <2> HIDE DEF row
  <2> QED
    BY <2>1, <2>2, <2>3
<1>6. job \in Worker /\ JobOK(job)
  BY <1>2, SettlesFailed
<1> HIDE DEF job
<1>7. \A p : Delivered(p)' = Delivered(p)
  BY <1>3 DEF Delivered
<1>8. Grows /\ JobOK(job)'
  BY <1>3, <1>6, <1>7 DEF Grows, JobOK, Acceptable
<1>9. workers' \in [Workers -> Worker] /\ JobsOK'
  BY <1>2, <1>3, <1>6, <1>8, OneMoves DEF IInv
<1>10. Goods'
  BY <1>2, <1>3, <1>5, <1>7 DEF Goods
<1> QED
  BY <1>2, <1>3, <1>5, <1>7, <1>9, <1>10 DEF IInv, TypeOK, ProcessedPaymentDelivered, DisputeLeavesFlag

-----------------------------------------------------------------------------
(* The other steps.                                                          *)

\* What an adjustment does to the rows.
LEMMA Adjusted ==
  ASSUME TypeOK, NEW w \in Workers, Adjust(w), NEW e \in Events, e = workers[w].event
  PROVE  /\ \E outcome \in Outcome :
              workers' = [workers EXCEPT ![w] = [pc |-> "settle", event |-> e, outcome |-> outcome]]
         /\ flags \subseteq flags' /\ flags' \subseteq Events
         /\ EventOf[e].type = "disputed" /\ OrderOf(e) \in CheckoutOrders => e \in flags'
         /\ taken' = taken \/ taken' = TakenBack(OrderOf(e))
<1>1. CASE OrderOf(e) \notin CheckoutOrders
  BY <1>1 DEF Adjust, Settles, Outcome, TypeOK
<1>2. CASE OrderOf(e) \in CheckoutOrders
  <2>1. PICK decision \in Decisions(e) :
          /\ Settles(w, OutcomeOf(decision))
          /\ flags' = IF EventOf[e].type = "disputed" THEN flags \cup {e} ELSE flags
          /\ taken' = IF decision = "auto_refund" THEN TakenBack(OrderOf(e)) ELSE taken
    BY <1>2 DEF Adjust
  <2>2. OutcomeOf(decision) \in Outcome
    BY DEF OutcomeOf, Outcome, Review
  <2> QED
    BY <2>1, <2>2 DEF Settles, TypeOK
<1> QED
  BY <1>1, <1>2

LEMMA AdjustKeeps ==
  ASSUME IInv, NEW w \in Workers, Adjust(w)
  PROVE  IInv'
<1>1. workers[w].pc = "adjust" /\ TypeOK /\ JobOK(workers[w])
  BY DEF Adjust, At, IInv, JobsOK
<1> PICK e \in Events : e = workers[w].event
  BY <1>1, Jobs
<1> PICK o \in Orders : o = OrderOf(e)
  BY EventTypes
<1>2. inbox[e] # None /\ EventOf[e].type # "paid"
  BY <1>1, EventTypes DEF JobOK
<1>3. PICK outcome \in Outcome :
        workers' = [workers EXCEPT ![w] = [pc |-> "settle", event |-> e, outcome |-> outcome]]
  BY <1>1, Adjusted
<1>4. /\ flags \subseteq flags' /\ flags' \subseteq Events
      /\ EventOf[e].type = "disputed" /\ OrderOf(e) \in CheckoutOrders => e \in flags'
      /\ taken' = taken \/ taken' = TakenBack(o)
  BY <1>1, Adjusted
<1>5. taken' \in [Orders -> [Rules -> {0, 1}]]
  <2> DEFINE row == [r \in Rules |-> IF executions[o][r] = "applied" /\ taken[o][r] = 0
                                    THEN 1 ELSE taken[o][r]]
  <2>1. taken[o] \in [Rules -> {0, 1}] /\ taken \in [Orders -> [Rules -> {0, 1}]]
    BY <1>1 DEF TypeOK
  <2>2. row \in [Rules -> {0, 1}]
    BY <2>1
  <2>3. taken' = taken \/ taken' = [taken EXCEPT ![o] = row]
    BY <1>4, <2>1 DEF TakenBack
  <2> HIDE DEF row
  <2> QED
    BY <2>1, <2>2, <2>3
<1>6. UNCHANGED <<now, inbox, orders, executions, granted, faults, aborts>>
  BY DEF Adjust
<1> DEFINE job == [pc |-> "settle", event |-> e, outcome |-> outcome]
<1>7. job \in Worker /\ workers' = [workers EXCEPT ![w] = job]
  BY <1>3, SettleJob
<1>8. job.pc = "settle" /\ job.event = e
  OBVIOUS
<1> HIDE DEF job
<1>9. \A p : Delivered(p)' = Delivered(p)
  BY <1>6 DEF Delivered
<1>10. Grows /\ JobOK(job)'
  BY <1>2, <1>4, <1>6, <1>8, <1>9 DEF Grows, JobOK
<1>11. workers' \in [Workers -> Worker] /\ JobsOK'
  BY <1>1, <1>7, <1>10, OneMoves DEF IInv
<1> QED
  BY <1>1, <1>4, <1>5, <1>6, <1>9, <1>11
     DEF IInv, TypeOK, Goods, ProcessedPaymentDelivered, DisputeLeavesFlag

LEMMA FaultKeeps ==
  ASSUME IInv, NEW w \in Workers, Fault(w)
  PROVE  IInv'
<1>1. TypeOK /\ JobOK(workers[w]) /\ workers[w].pc \in {"read", "write", "fulfill", "adjust"}
  BY DEF Fault, IInv, JobsOK
<1> PICK e \in Events : e = workers[w].event
  BY <1>1, Jobs
<1>2. inbox[e] # None
  BY <1>1 DEF JobOK
<1>3. workers' = [workers EXCEPT ![w] = [pc |-> "settle", event |-> e, outcome |-> "failed"]]
  BY DEF Fault, Settles
<1>4. UNCHANGED <<now, rows>> /\ faults' \in 0..MaxFaults /\ aborts' \in 0..MaxAborts
  BY <1>1 DEF Fault, TypeOK
<1> QED
  BY <1>1, <1>2, <1>3, <1>4, SettlesFailed, MoveOnly

LEMMA AbortKeeps ==
  ASSUME IInv, NEW w \in Workers, Abort(w)
  PROVE  IInv'
<1>1. workers' = [workers EXCEPT ![w] = Idle] /\ UNCHANGED <<now, rows>>
  BY DEF Abort, Return
<1>2. faults' \in 0..MaxFaults /\ aborts' \in 0..MaxAborts
  BY DEF Abort, IInv, TypeOK
<1> QED
  BY <1>1, <1>2, IdleJob, MoveOnly

\* Time passes, or nothing happens.
LEMMA OthersKeep ==
  ASSUME IInv, Tick \/ UNCHANGED vars
  PROVE  IInv'
<1>1. UNCHANGED <<inbox, orders, executions, granted, taken, flags, workers, faults, aborts>>
  BY DEF Tick, vars, rows
<1>2. now' \in Times
  BY DEF Tick, vars, IInv, TypeOK, Times
<1>3. \A p : Delivered(p)' = Delivered(p)
  BY <1>1 DEF Delivered
<1>4. \A job : JobOK(job)' = JobOK(job)
  BY <1>1, <1>3 DEF JobOK, Acceptable
<1>5. JobsOK'
  BY <1>1, <1>4 DEF IInv, JobsOK
<1> QED
  BY <1>1, <1>2, <1>3, <1>5
     DEF IInv, TypeOK, Goods, ProcessedPaymentDelivered, DisputeLeavesFlag

-----------------------------------------------------------------------------
(* The invariant.                                                            *)

LEMMA InitIInv == Init => IInv
<1> SUFFICES ASSUME Init PROVE IInv
  OBVIOUS
<1>1. /\ now = 0 /\ flags = {} /\ faults = 0 /\ aborts = 0
      /\ inbox \in [Events -> EventStatus] /\ \A e \in Events : inbox[e] = None
  BY DEF Init, EventStatus
<1>2. /\ executions \in [Orders -> [Rules -> {"none", "applied", "failed"}]]
      /\ \A o \in Orders, r \in Rules : executions[o][r] = "none"
  BY DEF Init
<1>3. /\ granted \in [Orders -> [Rules -> {0, 1}]] /\ taken \in [Orders -> [Rules -> {0, 1}]]
      /\ \A o \in Orders, r \in Rules : granted[o][r] = 0
  BY DEF Init
<1>4. orders \in [Orders -> Order] /\ \A o \in Orders : orders[o].status = "pending"
  BY DEF Init, Order
<1>5. workers \in [Workers -> Worker] /\ \A w \in Workers : workers[w] = Idle
  BY IdleJob DEF Init
<1>6. TypeOK
  BY <1>1, <1>2, <1>3, <1>4, <1>5 DEF TypeOK, Times
<1>7. Goods
  BY <1>2, <1>3, <1>4 DEF Goods
<1>8. JobsOK
  BY <1>5, IdleJob DEF JobsOK
<1>9. None \notin Terminal /\ None # "processed"
  BY DEF OnRecordStatus, Terminal
<1>10. ProcessedPaymentDelivered /\ DisputeLeavesFlag
  BY <1>1, <1>9 DEF ProcessedPaymentDelivered, DisputeLeavesFlag
<1> QED
  BY <1>6, <1>7, <1>8, <1>10 DEF IInv

LEMMA StepIInv == IInv /\ [Next]_vars => IInv'
<1> SUFFICES ASSUME IInv, [Next]_vars PROVE IInv'
  OBVIOUS
<1>1. CASE \E w \in Workers, e \in Events : Deliver(w, e) \/ Reprocess(w, e)
  BY <1>1, DeliverKeeps
<1>2. ASSUME NEW w \in Workers, Work(w) PROVE IInv'
  BY <1>2, CreateKeeps, ClaimKeeps, ReadOrderKeeps, WriteOrderKeeps, FulfillKeeps, FailRuleKeeps,
     LookupFailedKeeps, RecordFailedKeeps, AdjustKeeps, SettleKeeps, FaultKeeps DEF Work
<1>3. CASE \E w \in Workers : Abort(w)
  BY <1>3, AbortKeeps
<1>4. CASE Tick \/ UNCHANGED vars
  BY <1>4, OthersKeep
<1> QED
  BY <1>1, <1>2, <1>3, <1>4 DEF Next

LEMMA Invariant == Spec => []IInv
  BY InitIInv, StepIInv, PTL DEF Spec

\* The rows and the requests keep their types, for any number of requests: no
\* good is ever delivered or taken back a second time, because the grant and
\* the clawback are looked up by their own keys before they are written.
THEOREM TypesCorrect == Spec => []TypeOK
<1>1. IInv => TypeOK
  BY DEF IInv
<1> QED
  BY <1>1, Invariant, PTL

\* A payment that the inbox reports as processed was answered with every good
\* of its order, and no order has a part of its goods: whatever requests raced
\* with it, whatever stale order or execution rows were written over newer
\* ones, and wherever calls failed or requests died.
THEOREM PaymentsAreDelivered == Spec => []PaidIsDelivered
<1>1. IInv => PaidIsDelivered
  <2> SUFFICES ASSUME IInv PROVE PaidIsDelivered
    OBVIOUS
  <2>1. \A o \in Orders, r \in Rules : granted[o][r] > 0 => granted[o][r] = 1
    BY DEF IInv, TypeOK
  <2>2. FulfilledIsComplete
    BY <2>1 DEF IInv, Goods, FulfilledIsComplete
  <2> QED
    BY <2>2 DEF IInv, PaidIsDelivered
<1> QED
  BY <1>1, Invariant, PTL

\* A dispute of a checkout order that the inbox has dealt with left its risk
\* flag, also when the policy put it under review or rejected it, which the
\* inbox is told by an error.
THEOREM DisputesLeaveFlags == Spec => []DisputeLeavesFlag
<1>1. IInv => DisputeLeavesFlag
  BY DEF IInv
<1> QED
  BY <1>1, Invariant, PTL

-----------------------------------------------------------------------------
(* The pipeline implements Purchase.                                         *)

\* The orders with a valid payment, and with a reversal, on record.
Paid     == {o \in Orders : OnRecord(o, {"paid"})}
Reversed == {o \in Orders : OnRecord(o, Adjustments)}

LEMMA Mapping ==
  /\ UNCHANGED <<Paid, Reversed, granted, taken>> => UNCHANGED P!vars
  /\ P!Init <=> Paid = {} /\ Reversed = {} /\ granted = P!Nothing /\ taken = P!Nothing
  /\ \A o : P!Pay(o) <=> Paid' = Paid \cup {o} /\ UNCHANGED <<Reversed, granted, taken>>
  /\ \A o : P!Reverse(o) <=> Reversed' = Reversed \cup {o} /\ UNCHANGED <<Paid, granted, taken>>
BY DEF P!vars, P!Init, P!Pay, P!Reverse, Paid, Reversed

\* No step changes what is on record but the insertion of an event.
LEMMA SameRecord ==
  ASSUME \A e \in Events : inbox'[e] # None <=> inbox[e] # None
  PROVE  UNCHANGED <<Paid, Reversed>>
BY DEF Paid, Reversed, OnRecord

LEMMA Stutters ==
  ASSUME \A e \in Events : inbox'[e] # None <=> inbox[e] # None, UNCHANGED <<granted, taken>>
  PROVE  UNCHANGED P!vars
BY SameRecord, Mapping

LEMMA NewRecord ==
  ASSUME NEW e \in Events, inbox'[e] # None,
         \A f \in Events : f # e => (inbox'[f] # None <=> inbox[f] # None), inbox[e] = None,
         UNCHANGED <<granted, taken>>
  PROVE  [P!Next]_(P!vars)
<1> PICK o \in Orders : o = OrderOf(e)
  BY EventTypes
<1>1. \A p \in Orders : \A types :
        OnRecord(p, types)' <=>
          \/ OnRecord(p, types)
          \/ /\ p = o /\ EventOf[e].type \in types
             /\ EventOf[e].type = "paid" => EventOf[e].matches
  BY DEF OnRecord
<1>2. /\ \A p \in Orders : p \in Paid' <=> OnRecord(p, {"paid"})'
      /\ \A p \in Orders : p \in Paid <=> OnRecord(p, {"paid"})
      /\ \A p \in Orders : p \in Reversed' <=> OnRecord(p, Adjustments)'
      /\ \A p \in Orders : p \in Reversed <=> OnRecord(p, Adjustments)
      /\ Paid \subseteq Orders /\ Paid' \subseteq Orders
      /\ Reversed \subseteq Orders /\ Reversed' \subseteq Orders
  BY DEF Paid, Reversed, Adjustments
<1>3. CASE EventOf[e].type = "paid" /\ EventOf[e].matches
  <2>1. Paid' = Paid \cup {o} /\ Reversed' = Reversed
    BY <1>1, <1>2, <1>3, EventTypes
  <2>2. P!Pay(o)
    BY <2>1, Mapping
  <2> QED
    BY <2>2 DEF P!Next
<1>4. CASE EventOf[e].type \in Adjustments
  <2>1. Paid' = Paid /\ Reversed' = Reversed \cup {o}
    BY <1>1, <1>2, <1>4, EventTypes
  <2>2. P!Reverse(o)
    BY <2>1, Mapping
  <2> QED
    BY <2>2 DEF P!Next
<1>5. CASE EventOf[e].type = "other" \/ (EventOf[e].type = "paid" /\ ~EventOf[e].matches)
  <2>1. Paid' = Paid /\ Reversed' = Reversed
    BY <1>1, <1>2, <1>5, EventTypes
  <2> QED
    BY <2>1, Mapping
<1> QED
  BY <1>3, <1>4, <1>5, EventTypes

\* Only an insertion, a fulfillment and an adjustment are seen.
LEMMA Unseen ==
  ASSUME IInv, Next, ~\E w \in Workers : Create(w) \/ Fulfill(w) \/ Adjust(w)
  PROVE  UNCHANGED P!vars
<1>1. ASSUME NEW w \in Workers, Claim(w) \/ Settle(w)
      PROVE  UNCHANGED P!vars
  <2>1. workers[w].pc # "idle" /\ workers[w].pc \notin {"idle", "create"} /\ TypeOK /\ JobOK(workers[w])
    BY <1>1 DEF Claim, Settle, At, IInv, JobsOK
  <2> PICK e \in Events : e = workers[w].event
    BY <2>1, Jobs
  <2>2. PICK status : inbox' = [inbox EXCEPT ![e] = status] /\ status \in OnRecordStatus
    BY <1>1, <2>1, Jobs DEF Claim, Settle, At, Outcome, OnRecordStatus, Terminal, Review
  <2>3. UNCHANGED <<granted, taken>>
    BY <1>1 DEF Claim, Settle
  <2>4. inbox[e] # None /\ status # None
    BY <2>1, <2>2 DEF JobOK
  <2>5. \A f \in Events : inbox'[f] # None <=> inbox[f] # None
    BY <2>1, <2>2, <2>4 DEF TypeOK
  <2> QED
    BY <2>3, <2>5, Stutters
<1>2. CASE UNCHANGED <<inbox, granted, taken>>
  BY <1>2, Stutters
<1>3. UNCHANGED <<inbox, granted, taken>> \/ \E w \in Workers : Claim(w) \/ Settle(w)
  BY DEF Next, Work, Deliver, Reprocess, ReadOrder, WriteOrder, FailRule, LookupFailed, RecordFailed,
         Fault, Abort, Tick, rows
<1> QED
  BY <1>1, <1>2, <1>3

LEMMA FulfillDelivers ==
  ASSUME IInv, NEW w \in Workers, Fulfill(w)
  PROVE  [P!Next]_(P!vars)
<1>1. workers[w].pc = "fulfill"
  BY DEF Fulfill, At
<1> PICK e \in Events : e = workers[w].event
  BY <1>1, Jobs DEF IInv
<1> PICK o \in Orders : o = OrderOf(e)
  BY EventTypes
<1>2. TypeOK /\ Goods /\ inbox[e] # None /\ EventOf[e].type = "paid" /\ EventOf[e].matches
  BY <1>1, Fulfilling
<1>3. UNCHANGED <<inbox, taken>>
  BY DEF Fulfill
<1>4. UNCHANGED <<Paid, Reversed>>
  BY <1>3, SameRecord
<1>5. CASE granted' = granted
  BY <1>3, <1>4, <1>5, Mapping
<1>6. CASE granted' # granted
  <2>1. granted' = WithGrant(o, Unapplied(o))
    BY <1>6 DEF Fulfill
  <2>2. granted' = [granted EXCEPT ![o] = [r \in Rules |-> 1]]
    BY <1>2, <2>1, Granting
  <2>3. granted[o] = [r \in Rules |-> 0]
    <3>1. SUFFICES ASSUME Delivered(o) PROVE FALSE
      BY <1>2, Granting
    <3>2. granted \in [Orders -> [Rules -> {0, 1}]]
      BY <1>2 DEF TypeOK
    <3>3. granted[o] = [r \in Rules |-> 1]
      BY <3>1, <3>2 DEF Delivered
    <3>4. granted' = granted
      BY <2>2, <3>2, <3>3
    <3> QED
      BY <1>6, <3>4
  <2>4. OnRecord(o, {"paid"})
    BY <1>2 DEF OnRecord
  <2>5. P!Deliver(o)
    BY <1>3, <1>4, <2>2, <2>3, <2>4 DEF P!Deliver, P!Nothing, Paid, Reversed
  <2> QED
    BY <2>5 DEF P!Next
<1> QED
  BY <1>5, <1>6

LEMMA AdjustTakesBack ==
  ASSUME IInv, NEW w \in Workers, Adjust(w)
  PROVE  [P!Next]_(P!vars)
<1>1. workers[w].pc = "adjust" /\ TypeOK /\ Goods /\ JobOK(workers[w])
  BY DEF Adjust, At, IInv, JobsOK
<1> PICK e \in Events : e = workers[w].event
  BY <1>1, Jobs
<1> PICK o \in Orders : o = OrderOf(e)
  BY EventTypes
<1>2. inbox[e] # None /\ EventOf[e].type \in Adjustments
  BY <1>1 DEF JobOK
<1>3. UNCHANGED <<inbox, granted>>
  BY DEF Adjust
<1>4. UNCHANGED <<Paid, Reversed>>
  BY <1>3, SameRecord
<1>5. CASE taken' = taken
  BY <1>3, <1>4, <1>5, Mapping
<1>6. CASE taken' = TakenBack(o)
  <2> DEFINE S == {r \in Rules : executions[o][r] = "applied" /\ taken[o][r] = 0}
  <2>1. taken \in [Orders -> [Rules -> {0, 1}]]
    BY <1>1 DEF TypeOK
  <2>2. \A r \in S : granted[o][r] = 1 /\ taken[o][r] = 0
    BY <1>1 DEF Goods
  <2>3. taken' = [taken EXCEPT ![o] = [r \in Rules |-> IF r \in S THEN 1 ELSE taken[o][r]]]
    BY <1>6, <2>1 DEF TakenBack
  <2>4. S \in SUBSET Rules
    OBVIOUS
  <2>5. OnRecord(o, Adjustments)
    BY <1>2, EventTypes DEF OnRecord
  <2> HIDE DEF S
  <2>6. P!TakeBack(o, S)
    BY <1>3, <1>4, <2>1, <2>2, <2>3, <2>5 DEF P!TakeBack, Paid, Reversed
  <2> QED
    BY <2>4, <2>6 DEF P!Next
<1> QED
  BY <1>1, <1>5, <1>6, Adjusted

LEMMA StepRefines == IInv /\ [Next]_vars => [P!Next]_(P!vars)
<1> SUFFICES ASSUME IInv, [Next]_vars PROVE [P!Next]_(P!vars)
  OBVIOUS
<1>1. ASSUME NEW w \in Workers, Create(w) PROVE [P!Next]_(P!vars)
  <2> PICK e \in Events : e = workers[w].event
    BY <1>1, Jobs DEF Create, At, IInv
  <2>1. UNCHANGED <<granted, taken>>
    BY <1>1 DEF Create
  <2>2. CASE inbox[e] = None
    <3>1. inbox' = [inbox EXCEPT ![e] = "received"] /\ inbox \in [Events -> EventStatus]
      BY <1>1, <2>2 DEF Create, IInv, TypeOK
    <3>2. inbox'[e] # None
      BY <3>1 DEF OnRecordStatus
    <3>3. \A f \in Events : f # e => (inbox'[f] # None <=> inbox[f] # None)
      BY <3>1
    <3> QED
      BY <2>1, <2>2, <3>2, <3>3, NewRecord
  <2>3. CASE inbox[e] # None
    BY <1>1, <2>1, <2>3, Stutters DEF Create
  <2> QED
    BY <2>2, <2>3
<1>2. CASE UNCHANGED vars
  BY <1>2, Stutters DEF vars
<1>3. CASE Next /\ ~\E w \in Workers : Create(w) \/ Fulfill(w) \/ Adjust(w)
  BY <1>3, Unseen
<1> QED
  BY <1>1, <1>2, <1>3, FulfillDelivers, AdjustTakesBack

LEMMA InitRefines == Init => P!Init
<1> SUFFICES ASSUME Init PROVE P!Init
  OBVIOUS
<1>1. \A e \in Events : inbox[e] = None
  BY DEF Init
<1>2. Paid = {} /\ Reversed = {}
  BY <1>1 DEF Paid, Reversed, OnRecord
<1>3. granted = P!Nothing /\ taken = P!Nothing
  BY DEF Init, P!Nothing
<1> QED
  BY <1>2, <1>3, Mapping

\* What a buyer can see of the pipeline is Purchase: the goods of an order are
\* delivered once, all together, and only with a valid payment on record; each
\* is taken back at most once, after it was delivered, and only with a refund,
\* a dispute or a cancellation on record; and none of them ever comes back.
THEOREM PipelineImplementsPurchase == Spec => ImplementsPurchase
BY InitRefines, StepRefines, Invariant, PTL DEF Spec, ImplementsPurchase, P!Spec
=============================================================================
