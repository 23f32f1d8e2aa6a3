------------------------------ MODULE Licenses ------------------------------
(***************************************************************************)
(* The sale of license keys: an order creates a license, a provider's      *)
(* callback activates or extends it, machines are bound to it, and an      *)
(* administrator expires it.  One license; every request saves the whole   *)
(* row it has read, so that any two of them can overlap.                   *)
(*                                                                         *)
(* The registry's adapters of the payment providers are swapped while      *)
(* orders are open.  The amount of a callback is not looked at by the code *)
(* and is not modelled.                                                    *)
(***************************************************************************)
EXTENDS Integers, Sequences, FiniteSets

CONSTANTS
  Workers,       \* requests that can be open together
  Devices,
  Providers,     \* wechat, alipay
  Validities,    \* of the products sold: "monthly", "yearly" or "lifetime"
  MonthLength, YearLength,
  Grace,         \* for how long an expired license is called in grace
  Never, NoLicense,
  MaxTime,
  MaxOrders,     \* bound: orders of the license
  MaxSwaps,      \* bound: changes of the registry
  MaxFaults      \* bound: writes that fail, requests that die

ASSUME LicenseAssumption ==
  /\ Validities \subseteq {"monthly", "yearly", "lifetime"}
  /\ {MonthLength, YearLength} \subseteq Nat \ {0}
  /\ {Grace, MaxTime, MaxOrders, MaxSwaps, MaxFaults} \subseteq Nat
  /\ Never \notin Int

Row ==
  [status : {"inactive", "active", "expired"}, validity : Validities, devices : SUBSET Devices,
   seats : Nat, activated : BOOLEAN, created : Nat, expires : Int \cup {Never}]

ASSUME NoLicenseAssumption == NoLicense \notin Row

VARIABLES
  now,
  license,       \* its row, or NoLicense
  orders,        \* sequence of its orders
  registry,      \* [Providers -> the adapter in use]
  urls,          \* payment URLs that have been given out
  charged,       \* orders a provider has charged
  settled,       \* orders whose callback has been answered with success
  open,          \* [Workers -> the request it handles]
  told,          \* machines whose last answer is that they are bound
  overwritten,   \* whether a save has undone what another request had written
  swaps, faults

vars == <<now, license, orders, registry, urls, charged, settled, open, told, overwritten, swaps, faults>>

Length(validity) == IF validity = "yearly" THEN YearLength ELSE MonthLength

Idle == [kind |-> "idle"]

Ends(w) == open' = [open EXCEPT ![w] = Idle]
Takes(w, request) == open[w] = Idle /\ open' = [open EXCEPT ![w] = request]
Fault == faults < MaxFaults /\ faults' = faults + 1

\* A whole row is saved; the row that is there may not be the one that was read.
Save(read, row) ==
  /\ license' = row
  /\ overwritten' = (overwritten \/ license # read)

Init ==
  /\ now = 0
  /\ license = NoLicense
  /\ orders = <<>>
  /\ registry = [p \in Providers |-> [mock |-> TRUE, notify |-> TRUE]]
  /\ urls = {} /\ charged = {} /\ settled = {}
  /\ open = [w \in Workers |-> Idle]
  /\ told = {}
  /\ overwritten = FALSE
  /\ swaps = 0 /\ faults = 0

-----------------------------------------------------------------------------
(* Orders and payments.                                                    *)

Pending(type) == [type |-> type, status |-> "pending"]

NewLicense(v) ==
  [status |-> "inactive", validity |-> v, devices |-> {}, seats |-> 1, activated |-> FALSE,
   created |-> now, expires |-> IF v = "lifetime" THEN Never ELSE now + Length(v)]

\* The order and its license are created in one transaction.
Create(v) ==
  /\ license = NoLicense
  /\ license' = NewLicense(v)
  /\ orders' = <<Pending("new")>>
  /\ UNCHANGED <<now, registry, urls, charged, settled, open, told, overwritten, swaps, faults>>

CreateRenewal ==
  /\ license # NoLicense
  /\ license.validity # "lifetime"
  /\ Len(orders) < MaxOrders
  /\ orders' = Append(orders, Pending("renewal"))
  /\ UNCHANGED <<now, license, registry, urls, charged, settled, open, told, overwritten, swaps, faults>>

\* A payment is asked for: the order is read.
AskPayment(w, o, p) ==
  /\ o \in DOMAIN orders
  /\ orders[o].status = "pending"
  /\ Takes(w, [kind |-> "pay", order |-> o, provider |-> p, row |-> orders[o]])
  /\ UNCHANGED <<now, license, orders, registry, urls, charged, settled, told, overwritten, swaps, faults>>

\* The row that was read is saved with the provider's name, and the provider opens
\* the payment.  A URL carries the callback address of the adapter in use.
CreatePayment(w) ==
  /\ open[w].kind = "pay"
  /\ LET o == open[w].order
         row == open[w].row
     IN  /\ orders' = [orders EXCEPT ![o] = row]
         /\ overwritten' = (overwritten \/ orders[o].status # row.status)
         /\ urls' = urls \cup {[order |-> o, notify |-> registry[open[w].provider].notify]}
  /\ Ends(w)
  /\ UNCHANGED <<now, license, registry, charged, settled, told, swaps, faults>>

\* The customer pays, once for an order.
Charge(url) ==
  /\ url.order \notin charged
  /\ charged' = charged \cup {url.order}
  /\ UNCHANGED <<now, license, orders, registry, urls, settled, open, told, overwritten, swaps, faults>>

Reported(o) == o \in charged \ settled /\ \E url \in urls : url.order = o /\ url.notify

\* The provider calls until it is answered with success, and may call again
\* while the first call is handled.
Callback(w, o) ==
  /\ Reported(o)
  /\ open[w] = Idle
  /\ IF orders[o].status = "paid"
       THEN settled' = settled \cup {o} /\ UNCHANGED open
       ELSE Takes(w, [kind |-> "paid", order |-> o, row |-> orders[o]]) /\ UNCHANGED settled
  /\ UNCHANGED <<now, license, orders, registry, urls, charged, told, overwritten, swaps, faults>>

MarkPaid(w) ==
  /\ open[w].kind = "paid"
  /\ LET o == open[w].order
     IN  /\ orders' = [orders EXCEPT ![o] = [open[w].row EXCEPT !.status = "paid"]]
         /\ overwritten' = (overwritten \/ orders[o].status # open[w].row.status)
         /\ open' = [open EXCEPT ![w] = [kind |-> "license", order |-> o, at |-> now]]
  /\ UNCHANGED <<now, license, registry, urls, charged, settled, told, swaps, faults>>

ReadLicense(w) ==
  /\ open[w].kind = "license"
  /\ open' = [open EXCEPT ![w] = [kind |-> "extend", order |-> open[w].order, read |-> license, at |-> open[w].at]]
  /\ UNCHANGED <<now, license, orders, registry, urls, charged, settled, told, overwritten, swaps, faults>>

\* Mutation: a renewal always counts from the moment it is paid.
Extended_FromNow(l, type, t) ==
  IF type = "renewal" THEN [l EXCEPT !.status = "active", !.expires = t + Length(l.validity)]
  ELSE [l EXCEPT !.status = "active"]

\* A renewal counts from the end of what is paid for, if that is to come.
Extended(l, type, t) ==
  IF type = "renewal"
    THEN [l EXCEPT !.status = "active", !.expires = (IF @ > t THEN @ ELSE t) + Length(l.validity)]
    ELSE [l EXCEPT !.status = "active"]

\* The license is saved; when that fails, the provider is answered with success
\* all the same.
Apply(w) ==
  /\ open[w].kind = "extend"
  /\ LET request == open[w]
     IN  /\ \/ Save(request.read, Extended(request.read, orders[request.order].type, request.at)) /\ UNCHANGED faults
            \/ Fault /\ UNCHANGED <<license, overwritten>>
         /\ settled' = settled \cup {request.order}
  /\ Ends(w)
  /\ UNCHANGED <<now, orders, registry, urls, charged, told, swaps>>

-----------------------------------------------------------------------------
(* Machines.                                                               *)

Told(d, bound) == told' = IF bound THEN told \cup {d} ELSE told \ {d}

\* Mutation: the seats are not counted.
Seated_Any(l, d) == l.status \in {"inactive", "active"}

\* A machine takes a free seat.  Neither a payment nor the end is asked for.
Seated(l, d) ==
  /\ l.status \in {"inactive", "active"}
  /\ Cardinality(l.devices) < l.seats

\* The license is read.  A machine that has a seat is answered, one that finds
\* none refused.
AskSeat(w, d) ==
  /\ license # NoLicense
  /\ IF license.status \in {"inactive", "active"} /\ d \in license.devices
       THEN Told(d, TRUE) /\ UNCHANGED open
       ELSE Seated(license, d) /\ Takes(w, [kind |-> "activate", device |-> d, read |-> license]) /\ UNCHANGED told
  /\ UNCHANGED <<now, license, orders, registry, urls, charged, settled, overwritten, swaps, faults>>

Activate(w) ==
  /\ open[w].kind = "activate"
  /\ LET l == open[w].read
         d == open[w].device
     IN  /\ Save(l, [l EXCEPT !.devices = @ \cup {d}, !.activated = TRUE, !.status = "active"])
         /\ Told(d, TRUE)
  /\ Ends(w)
  /\ UNCHANGED <<now, orders, registry, urls, charged, settled, swaps, faults>>

LeaveSeat(w, d) ==
  /\ license # NoLicense
  /\ license.status = "active"
  /\ d \in license.devices
  /\ Takes(w, [kind |-> "deactivate", device |-> d, read |-> license])
  /\ UNCHANGED <<now, license, orders, registry, urls, charged, settled, told, overwritten, swaps, faults>>

Unbound(l, d) ==
  [l EXCEPT !.devices = @ \ {d}, !.status = IF l.devices = {d} THEN "inactive" ELSE @]

Deactivate(w) ==
  /\ open[w].kind = "deactivate"
  /\ Save(open[w].read, Unbound(open[w].read, open[w].device))
  /\ Told(open[w].device, FALSE)
  /\ Ends(w)
  /\ UNCHANGED <<now, orders, registry, urls, charged, settled, swaps, faults>>

-----------------------------------------------------------------------------
(* The end of a license.                                                   *)

Past(l, t) == l.expires # Never /\ l.expires < t

\* The administrator's check lists the active licenses and saves those past
\* their end.
ListActive(w) ==
  /\ license # NoLicense
  /\ license.status = "active"
  /\ Past(license, now)
  /\ Takes(w, [kind |-> "expire", read |-> license])
  /\ UNCHANGED <<now, license, orders, registry, urls, charged, settled, told, overwritten, swaps, faults>>

CheckExpiry(w) ==
  /\ open[w].kind = "expire"
  /\ Save(open[w].read, [open[w].read EXCEPT !.status = "expired"])
  /\ Ends(w)
  /\ UNCHANGED <<now, orders, registry, urls, charged, settled, told, swaps, faults>>

\* What a machine is answered when it asks whether it may run.
Verify(l, d, t) == l.status = "active" /\ ~Past(l, t) /\ d \in l.devices

\* What is shown of a license.
LicenseStatus(l, t) ==
  [status    |-> IF Past(l, t) /\ l.expires > t - Grace THEN "grace" ELSE l.status,
   isExpired |-> Past(l, t)]

ExpiringSoon(l, days, t) == l.status = "active" /\ l.expires # Never /\ l.expires < t + days

-----------------------------------------------------------------------------
(* The registry of providers.                                              *)

Swap(p, adapter) ==
  /\ swaps < MaxSwaps
  /\ swaps' = swaps + 1
  /\ registry' = [registry EXCEPT ![p] = adapter]
  /\ UNCHANGED <<now, license, orders, urls, charged, settled, open, told, overwritten, faults>>

\* New credentials keep the callback address, that of a mock included.
UpdateConfig(p) == Swap(p, [mock |-> FALSE, notify |-> registry[p].notify])

SwitchToMock(p, notify) == Swap(p, [mock |-> TRUE, notify |-> notify])

ImportProvider(p, notify) == Swap(p, [mock |-> FALSE, notify |-> notify])

\* The server starts: its adapters have the address it is configured with.
Restart(mocks) ==
  /\ faults < MaxFaults
  /\ faults' = faults + 1
  /\ registry' = [p \in Providers |-> [mock |-> p \in mocks, notify |-> TRUE]]
  /\ open' = [w \in Workers |-> Idle]
  /\ UNCHANGED <<now, license, orders, urls, charged, settled, told, overwritten, swaps>>

\* A request ends without an answer, before its write.
Die(w) ==
  /\ open[w] # Idle
  /\ Fault
  /\ Ends(w)
  /\ UNCHANGED <<now, license, orders, registry, urls, charged, settled, told, overwritten, swaps>>

\* Time is counted from the sale.
Tick ==
  /\ license # NoLicense
  /\ now < MaxTime
  /\ now' = now + 1
  /\ UNCHANGED <<license, orders, registry, urls, charged, settled, open, told, overwritten, swaps, faults>>

-----------------------------------------------------------------------------
Handle(w) ==
  \/ CreatePayment(w) \/ MarkPaid(w) \/ ReadLicense(w) \/ Apply(w)
  \/ Activate(w) \/ Deactivate(w) \/ CheckExpiry(w)

Next ==
  \/ \E v \in Validities : Create(v)
  \/ CreateRenewal
  \/ \E url \in urls : Charge(url)
  \/ \E w \in Workers :
       \/ \E o \in 1..MaxOrders, p \in Providers : AskPayment(w, o, p)
       \/ \E o \in 1..MaxOrders : Callback(w, o)
       \/ \E d \in Devices : AskSeat(w, d) \/ LeaveSeat(w, d)
       \/ ListActive(w)
       \/ Handle(w) \/ Die(w)
  \/ \E p \in Providers : UpdateConfig(p) \/ \E notify \in BOOLEAN : SwitchToMock(p, notify) \/ ImportProvider(p, notify)
  \/ \E mocks \in SUBSET Providers : Restart(mocks)
  \/ Tick

Spec == Init /\ [][Next]_vars

-----------------------------------------------------------------------------
(* Properties.                                                             *)

\* Every variable has its type, and no order of overlapping saves puts more
\* machines on a license than it has seats.
TypeOK ==
  /\ now \in 0..MaxTime
  /\ \A o \in DOMAIN orders : orders[o].status \in {"pending", "paid"}
  /\ settled \subseteq charged
  /\ license # NoLicense =>
       license \in Row /\ Cardinality(license.devices) <= license.seats
  /\ told \subseteq Devices

PaidOrders(type) == {o \in DOMAIN orders : orders[o].status = "paid" /\ orders[o].type = type}

Handling == {open[w].order : w \in {w \in Workers : open[w].kind \in {"paid", "license", "extend"}}}

\* As long as no save has undone another, what a provider was told is paid is
\* paid.  If nothing failed either, what was paid for is there: each renewal has
\* added its whole period, a paid license is inactive only because its last
\* machine left it, and a machine that was told it has a seat has it, and is shown
\* an active license when it may run; a license shown in grace that the expiry check
\* has not seen is on the list of those that end soon.
PaidIsGiven ==
  /\ ~overwritten => \A o \in settled : orders[o].status = "paid"
  /\ license # NoLicense /\ ~overwritten /\ faults = 0 =>
       /\ license.validity # "lifetime" =>
            license.expires - license.created >=
              Length(license.validity) * (1 + Cardinality(PaidOrders("renewal") \ Handling))
       /\ license.status = "inactive" /\ (PaidOrders("new") \cup PaidOrders("renewal")) \ Handling # {} =>
            license.activated
       /\ told = license.devices
       /\ \A d \in Devices : Verify(license, d, now) => LicenseStatus(license, now) = [status |-> "active", isExpired |-> FALSE]
       /\ license.status = "active" /\ LicenseStatus(license, now).status = "grace" => ExpiringSoon(license, 0, now)
=============================================================================
