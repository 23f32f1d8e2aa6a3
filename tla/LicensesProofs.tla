--------------------------- MODULE LicensesProofs ---------------------------
(***************************************************************************)
(* Whatever requests overlap and whatever fails: a license never has more  *)
(* machines than seats (TypeOK), and as long as no save has undone another *)
(* one, what was paid for is there (PaidIsGiven).  A save that finds the   *)
(* row its request has read is as good as an atomic step on the row, which *)
(* is what the invariant is about; the others are what overwritten says.   *)
(***************************************************************************)
EXTENDS Licenses, SequenceTheorems, FiniteSetTheorems, TLAPS

-----------------------------------------------------------------------------
(* License rows.                                                           *)

\* A license has an end unless it is for life, and no more machines than seats.
LicenseOK(l) ==
  /\ l \in Row
  /\ l.validity = "lifetime" <=> l.expires = Never
  /\ IsFiniteSet(l.devices) /\ Cardinality(l.devices) <= l.seats

LEMMA LengthType ==
  ASSUME NEW v PROVE Length(v) \in Nat
  BY LicenseAssumption DEF Length

\* What a row's fields are.
LEMMA LicenseFields ==
  ASSUME NEW l, LicenseOK(l)
  PROVE  /\ l.status \in {"inactive", "active", "expired"} /\ l.validity \in Validities
         /\ l.devices \subseteq Devices /\ l.seats \in Nat /\ l.activated \in BOOLEAN
         /\ l.created \in Nat /\ l.expires \in Int \cup {Never}
         /\ l.validity # "lifetime" => l.expires \in Int
  BY DEF LicenseOK, Row

LEMMA NewLicenseOK ==
  ASSUME now \in Nat, NEW v \in Validities
  PROVE  /\ LicenseOK(NewLicense(v)) /\ NewLicense(v) # NoLicense
         /\ NewLicense(v).devices = {}
         /\ v # "lifetime" => NewLicense(v).expires - NewLicense(v).created = Length(v)
<1>1. Length(v) \in Nat
  BY LengthType
<1>2. NewLicense(v) \in Row
  BY <1>1 DEF NewLicense, Row
<1>3. NewLicense(v).validity = "lifetime" <=> NewLicense(v).expires = Never
  BY <1>1, NoLicenseAssumption, LicenseAssumption DEF NewLicense
<1>4. NewLicense(v).devices = {} /\ NewLicense(v).seats = 1
  BY DEF NewLicense
<1>5. IsFiniteSet({}) /\ Cardinality({}) = 0
  BY FS_EmptySet
<1>6. v # "lifetime" => NewLicense(v).expires - NewLicense(v).created = Length(v)
  BY <1>1 DEF NewLicense
<1> QED
  BY <1>2, <1>3, <1>4, <1>5, <1>6, NoLicenseAssumption, LicenseAssumption DEF LicenseOK

\* A paid order makes the license active; a renewal adds its period to what is
\* paid for, nothing else changes the end.
LEMMA ExtendedOK ==
  ASSUME NEW l, LicenseOK(l), NEW type, NEW t \in Nat, type = "renewal" => l.validity # "lifetime"
  PROVE  /\ LicenseOK(Extended(l, type, t))
         /\ Extended(l, type, t).status = "active"
         /\ Extended(l, type, t).validity = l.validity /\ Extended(l, type, t).created = l.created
         /\ Extended(l, type, t).devices = l.devices /\ Extended(l, type, t).activated = l.activated
         /\ type = "renewal" => Extended(l, type, t).expires >= l.expires + Length(l.validity)
         /\ type # "renewal" => Extended(l, type, t).expires = l.expires
<1>1. l \in Row /\ Length(l.validity) \in Nat
  BY LengthType DEF LicenseOK
<1>2. CASE type = "renewal"
  <2>1. l.expires \in Int /\ l.validity # "lifetime"
    BY <1>2, LicenseFields
  <2>2. PICK e \in Int : e = (IF l.expires > t THEN l.expires ELSE t) + Length(l.validity)
    BY <1>1, <2>1
  <2>3. Extended(l, type, t) = [l EXCEPT !.status = "active", !.expires = e]
    BY <1>2, <2>2 DEF Extended
  <2>4. e >= l.expires + Length(l.validity)
    BY <1>1, <2>1, <2>2
  <2>5. Extended(l, type, t) \in Row
    BY <1>1, <2>3 DEF Row
  <2>6. /\ Extended(l, type, t).status = "active" /\ Extended(l, type, t).expires = e
        /\ Extended(l, type, t).validity = l.validity /\ Extended(l, type, t).created = l.created
        /\ Extended(l, type, t).devices = l.devices /\ Extended(l, type, t).activated = l.activated
        /\ Extended(l, type, t).seats = l.seats
    BY <1>1, <2>3 DEF Row
  <2> QED
    BY <1>2, <2>1, <2>4, <2>5, <2>6, NoLicenseAssumption, LicenseAssumption DEF LicenseOK
<1>3. CASE type # "renewal"
  <2>1. Extended(l, type, t) = [l EXCEPT !.status = "active"]
    BY <1>3 DEF Extended
  <2>2. Extended(l, type, t) \in Row
    BY <1>1, <2>1 DEF Row
  <2>3. /\ Extended(l, type, t).status = "active" /\ Extended(l, type, t).expires = l.expires
        /\ Extended(l, type, t).validity = l.validity /\ Extended(l, type, t).created = l.created
        /\ Extended(l, type, t).devices = l.devices /\ Extended(l, type, t).activated = l.activated
        /\ Extended(l, type, t).seats = l.seats
    BY <1>1, <2>1 DEF Row
  <2> QED
    BY <1>3, <2>2, <2>3 DEF LicenseOK
<1> QED
  BY <1>2, <1>3

\* The row with device d on it.
Bound(l, d) == [l EXCEPT !.devices = @ \cup {d}, !.activated = TRUE, !.status = "active"]

LEMMA BoundOK ==
  ASSUME NEW l, LicenseOK(l), NEW d \in Devices, Cardinality(l.devices) < l.seats
  PROVE  /\ LicenseOK(Bound(l, d))
         /\ Bound(l, d).status = "active" /\ Bound(l, d).activated
         /\ Bound(l, d).devices = l.devices \cup {d}
         /\ Bound(l, d).validity = l.validity /\ Bound(l, d).created = l.created
         /\ Bound(l, d).expires = l.expires
<1>1. l \in Row
  BY DEF LicenseOK
<1>2. Bound(l, d) \in Row
  BY <1>1 DEF Bound, Row
<1>3. /\ Bound(l, d).status = "active" /\ Bound(l, d).activated
      /\ Bound(l, d).devices = l.devices \cup {d}
      /\ Bound(l, d).validity = l.validity /\ Bound(l, d).created = l.created
      /\ Bound(l, d).expires = l.expires /\ Bound(l, d).seats = l.seats
  BY <1>1 DEF Bound, Row
<1>4. IsFiniteSet(l.devices) /\ Cardinality(l.devices) \in Nat
  BY FS_CardinalityType DEF LicenseOK
<1>5. /\ IsFiniteSet(l.devices \cup {d})
      /\ Cardinality(l.devices \cup {d}) = IF d \in l.devices THEN Cardinality(l.devices) ELSE Cardinality(l.devices) + 1
  BY <1>4, FS_AddElement
<1>6. Cardinality(l.devices \cup {d}) <= l.seats
  BY <1>4, <1>5, LicenseFields
<1> QED
  BY <1>2, <1>3, <1>5, <1>6 DEF LicenseOK

LEMMA UnboundOK ==
  ASSUME NEW l, LicenseOK(l), NEW d
  PROVE  /\ LicenseOK(Unbound(l, d))
         /\ Unbound(l, d).devices = l.devices \ {d} /\ Unbound(l, d).activated = l.activated
         /\ Unbound(l, d).validity = l.validity /\ Unbound(l, d).created = l.created
         /\ Unbound(l, d).expires = l.expires
         /\ Unbound(l, d).status = "inactive" => l.status = "inactive" \/ l.devices # {}
<1>1. l \in Row
  BY DEF LicenseOK
<1>2. Unbound(l, d) \in Row
  BY <1>1 DEF Unbound, Row
<1>3. /\ Unbound(l, d).devices = l.devices \ {d} /\ Unbound(l, d).activated = l.activated
      /\ Unbound(l, d).validity = l.validity /\ Unbound(l, d).created = l.created
      /\ Unbound(l, d).expires = l.expires /\ Unbound(l, d).seats = l.seats
      /\ Unbound(l, d).status = IF l.devices = {d} THEN "inactive" ELSE l.status
  BY <1>1 DEF Unbound, Row
<1>4. IsFiniteSet(l.devices) /\ Cardinality(l.devices) <= l.seats
  BY DEF LicenseOK
<1>5. IsFiniteSet(l.devices \ {d}) /\ Cardinality(l.devices \ {d}) <= Cardinality(l.devices)
  BY <1>4, FS_Subset
<1>6. Cardinality(l.devices \ {d}) \in Nat /\ Cardinality(l.devices) \in Nat /\ l.seats \in Nat
  BY <1>4, <1>5, FS_CardinalityType, LicenseFields
<1>7. Cardinality(l.devices \ {d}) <= l.seats
  BY <1>4, <1>5, <1>6
<1> QED
  BY <1>2, <1>3, <1>5, <1>7 DEF LicenseOK

LEMMA ExpiredOK ==
  ASSUME NEW l, LicenseOK(l)
  PROVE  /\ LicenseOK([l EXCEPT !.status = "expired"])
         /\ [l EXCEPT !.status = "expired"].status = "expired"
         /\ [l EXCEPT !.status = "expired"].devices = l.devices
         /\ [l EXCEPT !.status = "expired"].activated = l.activated
         /\ [l EXCEPT !.status = "expired"].validity = l.validity
         /\ [l EXCEPT !.status = "expired"].created = l.created
         /\ [l EXCEPT !.status = "expired"].expires = l.expires
<1> DEFINE m == [l EXCEPT !.status = "expired"]
<1>1. l \in Row
  BY DEF LicenseOK
<1>2. m \in Row
  BY <1>1 DEF Row
<1>3. /\ m.devices = l.devices /\ m.seats = l.seats /\ m.activated = l.activated /\ m.status = "expired"
      /\ m.validity = l.validity /\ m.created = l.created /\ m.expires = l.expires
  BY <1>1 DEF Row
<1> HIDE DEF m
<1>4. LicenseOK(m)
  BY <1>2, <1>3 DEF LicenseOK
<1> QED
  BY <1>3, <1>4 DEF m

-----------------------------------------------------------------------------
(* What requests know, and the shape of the state.                         *)

OrderRow == [type : {"new", "renewal"}, status : {"pending", "paid"}]

\* What a request knows of the orders, the charges and the license's validity.
RequestOK(os, cs, v, r) ==
  /\ r.kind \in {"pay", "paid"} => r.order \in DOMAIN os /\ r.row = Pending(os[r.order].type)
  /\ r.kind \in {"paid", "license", "extend"} => r.order \in cs
  /\ r.kind \in {"license", "extend"} => r.at \in Nat
  /\ r.kind \in {"extend", "activate", "deactivate", "expire"} => LicenseOK(r.read) /\ r.read.validity = v
  /\ r.kind \in {"activate", "deactivate"} => r.device \in Devices
  /\ r.kind = "activate" => Cardinality(r.read.devices) < r.read.seats

Rows ==
  /\ now \in 0..MaxTime
  /\ license # NoLicense => LicenseOK(license)
  /\ orders \in Seq(OrderRow)
  /\ \A o \in DOMAIN orders : orders[o].type = "renewal" => license.validity # "lifetime"
  /\ \A url \in urls : url.order \in DOMAIN orders
  /\ settled \subseteq charged /\ charged \subseteq DOMAIN orders
  /\ told \subseteq Devices
  /\ overwritten \in BOOLEAN /\ faults \in Nat

Requests ==
  /\ open = [w \in Workers |-> open[w]]
  /\ \A w \in Workers : RequestOK(orders, charged, license.validity, open[w])

\* Nothing is there before the license is.
Fresh == license = NoLicense => orders = <<>> /\ told = {} /\ \A w \in Workers : open[w] = Idle

Applying == {"license", "extend"}

\* A save that would make a paid order pending again is seen.
PaidStays ==
  ~overwritten =>
    /\ \A o \in settled : orders[o].status = "paid"
    /\ \A w \in Workers : open[w].kind \in Applying => orders[open[w].order].status = "paid"

\* The paid orders that no request has still to apply.
Applied == {o \in DOMAIN orders : /\ orders[o].status = "paid"
                                  /\ \A w \in Workers : open[w].kind \in Applying => open[w].order # o}
Renewed == {o \in Applied : orders[o].type = "renewal"}

\* What a license is, given the orders that are applied.
Has(l, applied, renewed, ds) ==
  /\ l.validity # "lifetime" => l.expires - l.created >= Length(l.validity) * (1 + Cardinality(renewed))
  /\ l.status = "inactive" /\ applied # {} => l.activated
  /\ l.devices # {} => l.activated
  /\ ds = l.devices

Given == license # NoLicense /\ ~overwritten /\ faults = 0 => Has(license, Applied, Renewed, told)

\* The inductive invariant.
IInv == Rows /\ Requests /\ Fresh /\ PaidStays /\ Given

-----------------------------------------------------------------------------
(* Every step keeps the shapes.                                            *)

LEMMA RequestIdle ==
  ASSUME NEW os, NEW cs, NEW v PROVE RequestOK(os, cs, v, Idle)
  BY DEF RequestOK, Idle

\* Orders and charges are only added to.
LEMMA RequestKept ==
  ASSUME NEW os, NEW ps, NEW cs, NEW ds, NEW v, NEW r, RequestOK(os, cs, v, r),
         DOMAIN os \subseteq DOMAIN ps, \A o \in DOMAIN os : ps[o].type = os[o].type,
         cs \subseteq ds
  PROVE  RequestOK(ps, ds, v, r)
  BY DEF RequestOK

\* A worker's request changes, the others keep theirs.
LEMMA RequestsTaken ==
  ASSUME Requests, NEW w \in Workers, NEW r, open' = [open EXCEPT ![w] = r],
         RequestOK(orders', charged', license'.validity, r),
         license'.validity = license.validity, charged \subseteq charged',
         DOMAIN orders \subseteq DOMAIN orders', \A o \in DOMAIN orders : orders'[o].type = orders[o].type
  PROVE  Requests'
<1>1. open' = [x \in Workers |-> IF x = w THEN r ELSE open[x]]
  BY DEF Requests
<1>2. ASSUME NEW x \in Workers PROVE RequestOK(orders', charged', license'.validity, open'[x])
  <2>1. RequestOK(orders, charged, license'.validity, open[x])
    BY DEF Requests
  <2>2. RequestOK(orders', charged', license'.validity, open[x])
    BY <2>1, RequestKept
  <2> QED
    BY <1>1, <2>2
<1> QED
  BY <1>1, <1>2 DEF Requests

LEMMA RequestsKept ==
  ASSUME Requests, open' = open,
         license'.validity = license.validity, charged \subseteq charged',
         DOMAIN orders \subseteq DOMAIN orders', \A o \in DOMAIN orders : orders'[o].type = orders[o].type
  PROVE  Requests'
<1>1. ASSUME NEW x \in Workers PROVE RequestOK(orders', charged', license'.validity, open'[x])
  <2>1. RequestOK(orders, charged, license'.validity, open[x])
    BY DEF Requests
  <2> QED
    BY <2>1, RequestKept
<1> QED
  BY <1>1 DEF Requests

\* What a worker holds.
LEMMA RequestOf ==
  ASSUME Requests, NEW w \in Workers
  PROVE  RequestOK(orders, charged, license.validity, open[w])
  BY DEF Requests

LEMMA PendingRow ==
  ASSUME NEW type \in {"new", "renewal"}
  PROVE  /\ Pending(type) \in OrderRow /\ Pending(type).type = type /\ Pending(type).status = "pending"
         /\ [Pending(type) EXCEPT !.status = "paid"] \in OrderRow
         /\ [Pending(type) EXCEPT !.status = "paid"].type = type
         /\ [Pending(type) EXCEPT !.status = "paid"].status = "paid"
  BY DEF Pending, OrderRow

\* An order's row is written over with one of its type.
LEMMA OrderWritten ==
  ASSUME orders \in Seq(OrderRow), NEW o \in DOMAIN orders, NEW row \in OrderRow, row.type = orders[o].type,
         orders' = [orders EXCEPT ![o] = row]
  PROVE  /\ orders' \in Seq(OrderRow) /\ DOMAIN orders' = DOMAIN orders
         /\ orders'[o] = row /\ \A i \in DOMAIN orders : i # o => orders'[i] = orders[i]
         /\ \A i \in DOMAIN orders : orders'[i].type = orders[i].type
         /\ row = orders[o] => orders' = orders
<1>1. orders' \in Seq(OrderRow) /\ DOMAIN orders' = DOMAIN orders
  BY ExceptSeq
<1>2. orders'[o] = row /\ \A i \in DOMAIN orders : i # o => orders'[i] = orders[i]
  OBVIOUS
<1>3. row = orders[o] => orders' = orders
  OBVIOUS
<1> QED
  BY <1>1, <1>2, <1>3

\* An order's row that is read while it is pending.
LEMMA PendingOrder ==
  ASSUME orders \in Seq(OrderRow), NEW o \in DOMAIN orders
  PROVE  /\ orders[o] \in OrderRow /\ orders[o].type \in {"new", "renewal"}
         /\ orders[o].status \in {"pending", "paid"}
         /\ orders[o].status = "pending" => orders[o] = Pending(orders[o].type)
<1>1. orders[o] \in OrderRow
  BY ElementOfSeq, LenProperties
<1> QED
  BY <1>1 DEF OrderRow, Pending

-----------------------------------------------------------------------------
(* Steps that write neither the license nor an order.                      *)

\* The fewer orders are applied, the less the license has to be.
LEMMA HasFewer ==
  ASSUME NEW l, LicenseOK(l), NEW A, NEW R, IsFiniteSet(R), NEW B, NEW S, NEW ds,
         Has(l, A, R, ds), B \subseteq A, S \subseteq R
  PROVE  Has(l, B, S, ds)
<1>1. Cardinality(S) \in Nat /\ Cardinality(R) \in Nat /\ Cardinality(S) <= Cardinality(R)
  BY FS_Subset, FS_CardinalityType
<1>2. PICK len \in Nat : len = Length(l.validity)
  BY LengthType
<1>3. ASSUME l.validity # "lifetime"
      PROVE  l.expires - l.created >= Length(l.validity) * (1 + Cardinality(S))
  <2>1. PICK a \in Nat, b \in Nat : a = Cardinality(S) /\ b = Cardinality(R)
    BY <1>1
  <2>2. PICK paid \in Int : paid = l.expires - l.created
    BY <1>3, LicenseFields
  <2>3. paid >= len * (1 + b)
    BY <1>2, <1>3, <2>1, <2>2 DEF Has
  <2>4. len * (1 + a) <= len * (1 + b)
    BY <1>1, <2>1
  <2>5. len * (1 + a) \in Int /\ len * (1 + b) \in Int
    OBVIOUS
  <2> QED
    BY <1>2, <2>1, <2>2, <2>3, <2>4, <2>5
<1> QED
  BY <1>3 DEF Has

\* Finitely many orders.
LEMMA RenewedFinite ==
  ASSUME Rows
  PROVE  IsFiniteSet(Renewed) /\ Renewed \subseteq Applied /\ Applied \subseteq DOMAIN orders
<1>1. IsFiniteSet(1..Len(orders)) /\ DOMAIN orders = 1..Len(orders)
  BY FS_Interval, LenProperties DEF Rows
<1>2. Renewed \subseteq Applied /\ Applied \subseteq DOMAIN orders
  BY DEF Renewed, Applied
<1> QED
  BY <1>1, <1>2, FS_Subset

\* What was given stays given while nothing more is applied.
LEMMA GivenStays ==
  ASSUME Rows, Given, license' = license, told = license.devices => told' = told,
         ~overwritten' => ~overwritten, faults' = 0 => faults = 0,
         ~overwritten' /\ faults' = 0 => Applied' \subseteq Applied /\ Renewed' \subseteq Renewed
  PROVE  Given'
<1>1. ASSUME license # NoLicense, ~overwritten', faults' = 0
      PROVE  Has(license, Applied', Renewed', told')
  <2>1. Has(license, Applied, Renewed, told)
    BY <1>1 DEF Given
  <2>2. LicenseOK(license)
    BY <1>1 DEF Rows
  <2>3. Applied' \subseteq Applied /\ Renewed' \subseteq Renewed
    BY <1>1
  <2>4. told' = told
    BY <2>1 DEF Has
  <2> QED
    BY <2>1, <2>2, <2>3, <2>4, RenewedFinite, HasFewer
<1> QED
  BY <1>1 DEF Given

\* Charges, changes of the registry, and time.
LEMMA QuietStep ==
  ASSUME IInv, UNCHANGED <<license, orders, open, told, overwritten, settled, faults, urls>>,
         charged \subseteq charged', charged' \subseteq DOMAIN orders, now' \in 0..MaxTime
  PROVE  IInv'
<1>1. Rows'
  BY DEF IInv, Rows
<1>2. Requests'
  BY RequestsKept DEF IInv
<1>3. Fresh' /\ PaidStays'
  BY DEF IInv, Fresh, PaidStays
<1>4. Applied' = Applied /\ Renewed' = Renewed
  BY DEF Applied, Renewed
<1>5. Given'
  BY <1>4 DEF IInv, Given
<1> QED
  BY <1>1, <1>2, <1>3, <1>5 DEF IInv

\* A worker takes a request, or goes from one part of it to the next.
LEMMA TakeStep ==
  ASSUME IInv, license # NoLicense, UNCHANGED <<license, orders, overwritten, faults, urls, charged, now>>,
         told' \subseteq Devices, told = license.devices => told' = told,
         settled' \subseteq charged, settled \subseteq settled',
         \A o \in settled' \ settled : orders[o].status = "paid",
         NEW w \in Workers, NEW r, open' = [open EXCEPT ![w] = r],
         RequestOK(orders, charged, license.validity, r),
         r.kind \in Applying => open[w].kind \in Applying,
         open[w].kind \in Applying => r.kind \in Applying /\ r.order = open[w].order
  PROVE  IInv'
<1>1. Rows'
  BY DEF IInv, Rows
<1>2. Requests'
  BY RequestsTaken DEF IInv
<1>3. Fresh'
  BY DEF Fresh
<1>4. open' = [x \in Workers |-> IF x = w THEN r ELSE open[x]]
  BY DEF IInv, Requests
<1>5. PaidStays'
  BY <1>4 DEF IInv, PaidStays
<1>6. Applied' \subseteq Applied
  BY <1>4 DEF Applied
<1>7. Renewed' \subseteq Renewed
  BY <1>6 DEF Renewed
<1>8. Given'
  BY <1>6, <1>7, GivenStays DEF IInv
<1> QED
  BY <1>1, <1>2, <1>3, <1>5, <1>8 DEF IInv

\* A request that ends without its write, a restart: a fault is counted.
LEMMA FaultStep ==
  ASSUME IInv, UNCHANGED <<license, orders, told, overwritten, urls, charged, now>>,
         faults' = faults + 1, settled' \subseteq charged, settled \subseteq settled',
         ~overwritten => \A o \in settled' \ settled : orders[o].status = "paid",
         open' = [w \in Workers |-> open'[w]], \A w \in Workers : open'[w] = open[w] \/ open'[w] = Idle
  PROVE  IInv'
<1>1. Rows' /\ faults' # 0
  BY DEF IInv, Rows
<1>2. ASSUME NEW w \in Workers PROVE RequestOK(orders', charged', license'.validity, open'[w])
  <2>1. RequestOK(orders, charged, license.validity, open[w])
    BY DEF IInv, Requests
  <2>2. RequestOK(orders, charged, license.validity, Idle)
    BY RequestIdle
  <2> QED
    BY <2>1, <2>2
<1>3. Requests'
  BY <1>2 DEF Requests
<1>4. Fresh'
  BY DEF IInv, Fresh
<1>5. Idle.kind \notin Applying
  BY DEF Idle, Applying
<1>6. PaidStays'
  BY <1>5 DEF IInv, PaidStays
<1>7. Given'
  BY <1>1 DEF Given
<1> QED
  BY <1>1, <1>3, <1>4, <1>6, <1>7 DEF IInv

-----------------------------------------------------------------------------
(* Steps that write an order.                                              *)

\* A payment is opened: the row that was read is put back, which is seen if it
\* undoes anything.
LEMMA CreatePaymentStep ==
  ASSUME IInv, NEW w \in Workers, CreatePayment(w)
  PROVE  IInv'
<1> DEFINE o == open[w].order
           row == open[w].row
<1>1. /\ open[w].kind = "pay" /\ orders' = [orders EXCEPT ![o] = row]
      /\ overwritten' = (overwritten \/ orders[o].status # row.status)
      /\ urls' = urls \cup {[order |-> o, notify |-> registry[open[w].provider].notify]}
      /\ open' = [open EXCEPT ![w] = Idle]
      /\ UNCHANGED <<now, license, charged, settled, told, faults>>
  BY DEF CreatePayment, Ends
<1>2. o \in DOMAIN orders /\ row = Pending(orders[o].type)
  BY <1>1, RequestOf DEF IInv, RequestOK
<1>3. orders \in Seq(OrderRow)
  BY DEF IInv, Rows
<1>4. /\ orders[o] \in OrderRow /\ orders[o].type \in {"new", "renewal"}
      /\ orders[o].status = "pending" => orders[o] = row
      /\ orders[o].status \in {"pending", "paid"}
  BY <1>2, <1>3, PendingOrder
<1>5. row \in OrderRow /\ row.type = orders[o].type /\ row.status = "pending"
  BY <1>2, <1>4, PendingRow
<1> HIDE DEF o, row
<1>6. /\ orders' \in Seq(OrderRow) /\ DOMAIN orders' = DOMAIN orders
      /\ \A i \in DOMAIN orders : orders'[i].type = orders[i].type
      /\ row = orders[o] => orders' = orders
  BY <1>1, <1>2, <1>3, <1>5, OrderWritten
<1>7. ~overwritten' => ~overwritten /\ orders' = orders
  BY <1>1, <1>4, <1>5, <1>6
<1>8. open' = [x \in Workers |-> IF x = w THEN Idle ELSE open[x]]
  BY <1>1 DEF IInv, Requests
<1>9. Rows'
  <2>1. \A url \in urls' : url.order \in DOMAIN orders'
    BY <1>1, <1>2, <1>6 DEF IInv, Rows
  <2>2. overwritten' \in BOOLEAN
    BY <1>1 DEF IInv, Rows
  <2> QED
    BY <1>1, <1>6, <2>1, <2>2 DEF IInv, Rows
<1>10. Requests'
  <2>1. RequestOK(orders', charged', license'.validity, Idle)
    BY RequestIdle
  <2> QED
    BY <1>1, <1>6, <2>1, RequestsTaken DEF IInv
<1>11. license # NoLicense
  BY <1>1 DEF IInv, Fresh, Idle
<1>12. Fresh'
  BY <1>1, <1>11 DEF Fresh
<1>13. Idle.kind \notin Applying /\ open[w].kind \notin Applying
  BY <1>1 DEF Idle, Applying
<1>14. PaidStays'
  BY <1>1, <1>7, <1>8, <1>13 DEF IInv, PaidStays
<1>15. ~overwritten' => Applied' \subseteq Applied /\ Renewed' \subseteq Renewed
  BY <1>7, <1>8, <1>13 DEF Applied, Renewed
<1>16. Given'
  BY <1>1, <1>7, <1>15, GivenStays DEF IInv
<1> QED
  BY <1>9, <1>10, <1>12, <1>14, <1>16 DEF IInv

\* A callback marks the order that it read pending.
LEMMA MarkPaidStep ==
  ASSUME IInv, NEW w \in Workers, MarkPaid(w)
  PROVE  IInv'
<1> DEFINE o == open[w].order
           row == [open[w].row EXCEPT !.status = "paid"]
           next == [kind |-> "license", order |-> o, at |-> now]
<1>1. /\ open[w].kind = "paid" /\ orders' = [orders EXCEPT ![o] = row]
      /\ overwritten' = (overwritten \/ orders[o].status # open[w].row.status)
      /\ open' = [open EXCEPT ![w] = next]
      /\ UNCHANGED <<now, license, urls, charged, settled, told, faults>>
  BY DEF MarkPaid
<1>2. o \in DOMAIN orders /\ open[w].row = Pending(orders[o].type) /\ o \in charged
  BY <1>1, RequestOf DEF IInv, RequestOK
<1>3. orders \in Seq(OrderRow) /\ now \in Nat
  BY DEF IInv, Rows
<1>4. orders[o].type \in {"new", "renewal"} /\ orders[o].status \in {"pending", "paid"}
  BY <1>2, <1>3, PendingOrder
<1>5. /\ row \in OrderRow /\ row.type = orders[o].type /\ row.status = "paid"
      /\ open[w].row.status = "pending"
  BY <1>2, <1>4, PendingRow
<1>6. next.kind = "license" /\ next.order = o /\ next.at = now
  OBVIOUS
<1> HIDE DEF o, row, next
<1>7. /\ orders' \in Seq(OrderRow) /\ DOMAIN orders' = DOMAIN orders
      /\ orders'[o] = row /\ \A i \in DOMAIN orders : i # o => orders'[i] = orders[i]
      /\ \A i \in DOMAIN orders : orders'[i].type = orders[i].type
  BY <1>1, <1>2, <1>3, <1>5, OrderWritten
<1>8. open' = [x \in Workers |-> IF x = w THEN next ELSE open[x]]
  BY <1>1 DEF IInv, Requests
<1>9. Rows'
  <2>1. overwritten' \in BOOLEAN
    BY <1>1 DEF IInv, Rows
  <2> QED
    BY <1>1, <1>7, <2>1 DEF IInv, Rows
<1>10. Requests'
  <2>1. RequestOK(orders', charged', license'.validity, next)
    BY <1>1, <1>2, <1>3, <1>6 DEF RequestOK
  <2> QED
    BY <1>1, <1>7, <2>1, RequestsTaken DEF IInv
<1>11. license # NoLicense
  BY <1>1 DEF IInv, Fresh, Idle
<1>12. Fresh'
  BY <1>1, <1>11 DEF Fresh
<1>13. /\ ~overwritten' => ~overwritten
       /\ \A i \in DOMAIN orders : orders[i].status = "paid" => orders'[i].status = "paid"
       /\ orders'[o].status = "paid"
  BY <1>1, <1>2, <1>5, <1>7
<1>14. /\ settled \subseteq DOMAIN orders
       /\ \A x \in Workers : open[x].kind \in Applying => open[x].order \in DOMAIN orders
  BY DEF IInv, Rows, Requests, RequestOK, Applying
<1>15. PaidStays'
  BY <1>1, <1>6, <1>8, <1>13, <1>14 DEF IInv, PaidStays
<1>16. Applied' \subseteq Applied
  <2>1. next.kind \in Applying /\ open[w].kind \notin Applying
    BY <1>1, <1>6 DEF Applying
  <2>2. w \in Workers /\ open'[w] = next
    BY <1>8
  <2>3. o \notin Applied'
    BY <1>6, <2>1, <2>2 DEF Applied
  <2>4. ASSUME NEW i \in Applied' PROVE i \in Applied
    <3>1. i # o /\ i \in DOMAIN orders /\ orders[i].status = "paid"
      BY <1>7, <2>3 DEF Applied
    <3>2. \A x \in Workers : open[x].kind \in Applying => x # w /\ open'[x] = open[x]
      BY <1>8, <2>1
    <3> QED
      BY <3>1, <3>2 DEF Applied
  <2> QED
    BY <2>4
<1>17. Renewed' \subseteq Renewed
  BY <1>7, <1>16, RenewedFinite DEF Renewed, IInv
<1>18. Given'
  BY <1>1, <1>13, <1>16, <1>17, GivenStays DEF IInv
<1> QED
  BY <1>9, <1>10, <1>12, <1>15, <1>18 DEF IInv

\* The license and its first order.
LEMMA CreateStep ==
  ASSUME IInv, NEW v \in Validities, Create(v)
  PROVE  IInv'
<1>1. /\ license = NoLicense /\ license' = NewLicense(v) /\ orders' = <<Pending("new")>>
      /\ UNCHANGED <<now, urls, charged, settled, open, told, overwritten, faults>>
  BY DEF Create
<1>2. orders = <<>> /\ told = {} /\ \A w \in Workers : open[w] = Idle
  BY <1>1 DEF IInv, Fresh
<1>3. now \in Nat
  BY DEF IInv, Rows
<1>4. /\ LicenseOK(license') /\ license' # NoLicense /\ license'.devices = {}
      /\ v # "lifetime" => license'.expires - license'.created = Length(v)
  BY <1>1, <1>3, NewLicenseOK
<1>5. Pending("new") \in OrderRow /\ Pending("new").type = "new" /\ Pending("new").status = "pending"
  BY PendingRow
<1>6. /\ orders' \in Seq(OrderRow) /\ DOMAIN orders' = {1} /\ orders'[1] = Pending("new")
      /\ DOMAIN orders = {}
  BY <1>1, <1>2, <1>5
<1>7. Rows'
  BY <1>1, <1>4, <1>5, <1>6 DEF IInv, Rows
<1>8. Requests'
  <2>1. ASSUME NEW w \in Workers PROVE RequestOK(orders', charged', license'.validity, open'[w])
    BY <1>1, <1>2, RequestIdle
  <2> QED
    BY <1>1, <2>1 DEF IInv, Requests
<1>9. Fresh'
  BY <1>4 DEF Fresh
<1>10. PaidStays'
  <2>1. settled = {}
    BY <1>6 DEF IInv, Rows
  <2>2. Idle.kind \notin Applying
    BY DEF Idle, Applying
  <2> QED
    BY <1>1, <1>2, <2>1, <2>2 DEF PaidStays
<1>11. Applied' = {} /\ Renewed' = {}
  BY <1>5, <1>6 DEF Applied, Renewed
<1>12. Has(license', {}, {}, {})
  <2>1. license'.validity = v
    BY <1>1 DEF NewLicense
  <2>2. PICK len \in Nat : len = Length(v)
    BY LengthType
  <2>3. len >= len * (1 + 0)
    OBVIOUS
  <2> QED
    BY <1>4, <2>1, <2>2, <2>3, FS_EmptySet DEF Has
<1>13. Given'
  BY <1>1, <1>2, <1>11, <1>12 DEF Given
<1> QED
  BY <1>7, <1>8, <1>9, <1>10, <1>13 DEF IInv

\* One more order of a license that has an end.
LEMMA CreateRenewalStep ==
  ASSUME IInv, CreateRenewal
  PROVE  IInv'
<1>1. /\ license # NoLicense /\ license.validity # "lifetime"
      /\ orders' = Append(orders, Pending("renewal"))
      /\ UNCHANGED <<now, license, urls, charged, settled, open, told, overwritten, faults>>
  BY DEF CreateRenewal
<1>2. Pending("renewal") \in OrderRow /\ Pending("renewal").type = "renewal" /\ Pending("renewal").status = "pending"
  BY PendingRow
<1>3. /\ orders' \in Seq(OrderRow) /\ DOMAIN orders \subseteq DOMAIN orders'
      /\ \A i \in DOMAIN orders : orders'[i] = orders[i]
      /\ \A i \in DOMAIN orders' : i \in DOMAIN orders \/ orders'[i] = Pending("renewal")
  <2>1. orders \in Seq(OrderRow)
    BY DEF IInv, Rows
  <2> QED
    BY <1>1, <1>2, <2>1, AppendProperties, LenProperties
<1>4. Rows'
  BY <1>1, <1>3 DEF IInv, Rows
<1>5. Requests'
  BY <1>1, <1>3, RequestsKept DEF IInv
<1>6. Fresh'
  BY <1>1 DEF Fresh
<1>7. /\ settled \subseteq DOMAIN orders
      /\ \A x \in Workers : open[x].kind \in Applying => open[x].order \in DOMAIN orders
  BY DEF IInv, Rows, Requests, RequestOK, Applying
<1>8. PaidStays'
  BY <1>1, <1>3, <1>7 DEF IInv, PaidStays
<1>9. Applied' \subseteq Applied
  BY <1>1, <1>2, <1>3 DEF Applied
<1>10. Renewed' \subseteq Renewed
  BY <1>3, <1>9, RenewedFinite DEF Renewed, IInv
<1>11. Given'
  BY <1>1, <1>9, <1>10, GivenStays DEF IInv
<1> QED
  BY <1>4, <1>5, <1>6, <1>8, <1>11 DEF IInv

-----------------------------------------------------------------------------
(* Steps that save the license.                                            *)

\* What is saved for l by a machine or by the expiry check: the same end, and no
\* license becomes inactive that has not been active.
Carries(l, m) ==
  /\ LicenseOK(m)
  /\ m.validity = l.validity /\ m.created = l.created /\ m.expires = l.expires
  /\ l.activated => m.activated
  /\ m.devices # {} => m.activated \/ l.devices # {}
  /\ m.status = "inactive" => l.status = "inactive" \/ l.devices # {}

LEMMA HasCarries ==
  ASSUME NEW l, NEW m, Carries(l, m), NEW A, NEW R, Has(l, A, R, l.devices)
  PROVE  Has(m, A, R, m.devices)
  BY DEF Has, Carries

LEMMA SaveStep ==
  ASSUME IInv, NEW w \in Workers, open[w].kind \in {"activate", "deactivate", "expire"},
         NEW m, Carries(open[w].read, m), Save(open[w].read, m), open' = [open EXCEPT ![w] = Idle],
         told' \subseteq Devices, told = open[w].read.devices => told' = m.devices,
         UNCHANGED <<now, orders, urls, charged, settled, faults>>
  PROVE  IInv'
<1> DEFINE l == open[w].read
<1>1. license' = m /\ overwritten' = (overwritten \/ license # l)
  BY DEF Save
<1>2. LicenseOK(l) /\ l.validity = license.validity
  BY RequestOf DEF IInv, RequestOK
<1>3. Carries(l, m)
  OBVIOUS
<1> HIDE DEF l
<1>4. LicenseOK(m) /\ m # NoLicense /\ m.validity = license.validity
  BY <1>2, <1>3, NoLicenseAssumption, LicenseAssumption DEF Carries, LicenseOK
<1>5. Rows'
  <2>1. overwritten' \in BOOLEAN
    BY <1>1 DEF IInv, Rows
  <2> QED
    BY <1>1, <1>4, <2>1 DEF IInv, Rows
<1>6. Requests'
  <2>1. RequestOK(orders', charged', license'.validity, Idle)
    BY RequestIdle
  <2>2. license'.validity = license.validity
    BY <1>1, <1>4
  <2> QED
    BY <2>1, <2>2, RequestsTaken DEF IInv
<1>7. Fresh'
  BY <1>1, <1>4 DEF Fresh
<1>8. open' = [x \in Workers |-> IF x = w THEN Idle ELSE open[x]]
  BY DEF IInv, Requests
<1>9. Idle.kind \notin Applying /\ open[w].kind \notin Applying
  BY DEF Idle, Applying
<1>10. ~overwritten' => ~overwritten /\ license = l
  BY <1>1
<1>11. PaidStays'
  BY <1>8, <1>9, <1>10 DEF IInv, PaidStays
<1>12. Applied' = Applied /\ Renewed' = Renewed
  <2>1. Applied' = Applied
    BY <1>8, <1>9 DEF Applied
  <2> QED
    BY <2>1 DEF Renewed
<1>13. ASSUME ~overwritten', faults' = 0 PROVE Has(m, Applied', Renewed', told')
  <2>1. ~overwritten /\ license = l /\ faults = 0 /\ license # NoLicense
    BY <1>8, <1>10, <1>13 DEF IInv, Fresh, Idle
  <2>2. Has(l, Applied, Renewed, told)
    BY <2>1 DEF IInv, Given
  <2>3. told = l.devices
    BY <2>2 DEF Has
  <2>4. told' = m.devices
    BY <2>3 DEF l
  <2>5. Has(m, Applied, Renewed, m.devices)
    BY <1>3, <2>2, <2>3, HasCarries
  <2> QED
    BY <1>12, <2>4, <2>5
<1>14. Given'
  BY <1>1, <1>13 DEF Given
<1> QED
  BY <1>5, <1>6, <1>7, <1>11, <1>14 DEF IInv

\* One more renewal, one more period.
LEMMA HasMore ==
  ASSUME NEW l, LicenseOK(l), NEW m, LicenseOK(m), m.validity = l.validity, m.created = l.created,
         l.validity # "lifetime", m.expires >= l.expires + Length(l.validity),
         NEW R, IsFiniteSet(R), NEW o, NEW S, S \subseteq R \cup {o},
         l.expires - l.created >= Length(l.validity) * (1 + Cardinality(R))
  PROVE  m.expires - m.created >= Length(m.validity) * (1 + Cardinality(S))
<1>1. /\ IsFiniteSet(R \cup {o}) /\ Cardinality(R) \in Nat /\ Cardinality(S) \in Nat
      /\ Cardinality(S) <= Cardinality(R) + 1
  <2>1. IsFiniteSet(R \cup {o}) /\ Cardinality(R \cup {o}) <= Cardinality(R) + 1 /\ Cardinality(R) \in Nat
    <3>1. Cardinality(R) \in Nat /\ IsFiniteSet(R \cup {o}) /\ Cardinality(R \cup {o}) \in {Cardinality(R), Cardinality(R) + 1}
      BY FS_AddElement, FS_CardinalityType
    <3> QED
      BY <3>1
  <2>2. IsFiniteSet(S) /\ Cardinality(S) <= Cardinality(R \cup {o})
    BY <2>1, FS_Subset
  <2>3. Cardinality(S) \in Nat /\ Cardinality(R \cup {o}) \in Nat
    BY <2>1, <2>2, FS_CardinalityType
  <2> QED
    BY <2>1, <2>2, <2>3
<1>2. PICK a \in Nat, b \in Nat, len \in Nat : a = Cardinality(S) /\ b = Cardinality(R) /\ len = Length(l.validity)
  BY <1>1, LengthType
<1>3. PICK e \in Int, f \in Int, c \in Int : e = l.expires /\ f = m.expires /\ c = l.created
  BY LicenseFields
<1>4. e - c >= len * (1 + b) /\ f >= e + len
  BY <1>2, <1>3
<1>5. len * (1 + (b + 1)) = len * (1 + b) + len
  OBVIOUS
<1>6. len * (1 + a) <= len * (1 + (b + 1))
  BY <1>1, <1>2
<1>7. len * (1 + a) \in Int /\ len * (1 + b) \in Int /\ len * (1 + (b + 1)) \in Int
  OBVIOUS
<1>8. f - c >= len * (1 + a)
  BY <1>4, <1>5, <1>6, <1>7
<1> QED
  BY <1>2, <1>3, <1>8

\* The license is saved for a paid order.
LEMMA AppliedStep ==
  ASSUME IInv, NEW w \in Workers, open[w].kind = "extend",
         Save(open[w].read, Extended(open[w].read, orders[open[w].order].type, open[w].at)),
         open' = [open EXCEPT ![w] = Idle], settled' = settled \cup {open[w].order},
         UNCHANGED <<now, orders, urls, charged, told, faults>>
  PROVE  IInv'
<1> DEFINE l == open[w].read
           o == open[w].order
           t == open[w].at
           type == orders[o].type
           m == Extended(l, type, t)
<1>1. license' = m /\ overwritten' = (overwritten \/ license # l)
  BY DEF Save
<1>2. LicenseOK(l) /\ l.validity = license.validity /\ t \in Nat /\ o \in charged
  BY RequestOf DEF IInv, RequestOK
<1>3. o \in DOMAIN orders /\ (type = "renewal" => l.validity # "lifetime")
  BY <1>2 DEF IInv, Rows
<1>4. settled' = settled \cup {o} /\ open[w].kind \in Applying /\ open[w].order = o
  BY DEF Applying
<1> HIDE DEF l, o, t
<1>5. /\ LicenseOK(m) /\ m.status = "active" /\ m.validity = l.validity /\ m.created = l.created
      /\ m.devices = l.devices /\ m.activated = l.activated
      /\ type = "renewal" => m.expires >= l.expires + Length(l.validity)
      /\ type # "renewal" => m.expires = l.expires
  BY <1>2, <1>3, ExtendedOK
<1> HIDE DEF m
<1>6. m # NoLicense
  BY <1>5, NoLicenseAssumption, LicenseAssumption DEF LicenseOK
<1>7. Rows'
  <2>1. overwritten' \in BOOLEAN
    BY <1>1 DEF IInv, Rows
  <2> QED
    BY <1>1, <1>2, <1>4, <1>5, <2>1 DEF IInv, Rows
<1>8. Requests'
  <2>1. RequestOK(orders', charged', license'.validity, Idle)
    BY RequestIdle
  <2>2. license'.validity = license.validity
    BY <1>1, <1>2, <1>5
  <2> QED
    BY <2>1, <2>2, RequestsTaken DEF IInv
<1>9. Fresh'
  BY <1>1, <1>6 DEF Fresh
<1>10. open' = [x \in Workers |-> IF x = w THEN Idle ELSE open[x]]
  BY DEF IInv, Requests
<1>11. Idle.kind \notin Applying
  BY DEF Idle, Applying
<1>12. ~overwritten' => ~overwritten /\ license = l /\ orders[o].status = "paid"
  BY <1>1, <1>4 DEF IInv, PaidStays
<1>13. PaidStays'
  BY <1>4, <1>10, <1>11, <1>12 DEF IInv, PaidStays
<1>14. Applied' \subseteq Applied \cup {o}
  BY <1>4, <1>10 DEF Applied
<1>15. /\ Renewed' \subseteq Renewed \cup {o}
       /\ type # "renewal" => Renewed' \subseteq Renewed
  BY <1>14 DEF Renewed
<1>16. ASSUME ~overwritten', faults' = 0 PROVE Has(m, Applied', Renewed', told')
  <2>1. ~overwritten /\ license = l /\ faults = 0 /\ license # NoLicense
    BY <1>4, <1>12, <1>16 DEF IInv, Fresh, Idle, Applying
  <2>2. Has(l, Applied, Renewed, told)
    BY <2>1 DEF IInv, Given
  <2>3. IsFiniteSet(Renewed) /\ LicenseOK(l)
    BY <1>2, RenewedFinite DEF IInv
  <2>4. ASSUME m.validity # "lifetime"
        PROVE  m.expires - m.created >= Length(m.validity) * (1 + Cardinality(Renewed'))
    <3>1. l.validity # "lifetime" /\ l.expires - l.created >= Length(l.validity) * (1 + Cardinality(Renewed))
      BY <1>5, <2>2, <2>4 DEF Has
    <3>2. CASE type = "renewal"
      BY <1>5, <1>15, <2>3, <3>1, <3>2, HasMore
    <3>3. CASE type # "renewal"
      <4>1. Has(l, Applied, Renewed', told)
        BY <1>15, <2>2, <2>3, <3>3, HasFewer
      <4> QED
        BY <1>5, <3>1, <3>3, <4>1 DEF Has
    <3> QED
      BY <3>2, <3>3
  <2>5. told' = m.devices /\ (m.devices # {} => m.activated)
    BY <1>5, <2>2 DEF Has
  <2> QED
    BY <1>5, <2>4, <2>5 DEF Has
<1>17. Given'
  BY <1>1, <1>16 DEF Given
<1> QED
  BY <1>7, <1>8, <1>9, <1>13, <1>17 DEF IInv

-----------------------------------------------------------------------------
(* The theorems.                                                           *)

LEMMA InitIInv == Init => IInv
<1> SUFFICES ASSUME Init PROVE IInv
  OBVIOUS
<1>1. /\ now = 0 /\ license = NoLicense /\ orders = <<>> /\ urls = {} /\ charged = {} /\ settled = {}
      /\ open = [w \in Workers |-> Idle] /\ told = {} /\ overwritten = FALSE /\ faults = 0
  BY DEF Init
<1>2. Rows
  <2>1. <<>> \in Seq(OrderRow) /\ DOMAIN <<>> = {} /\ 0 \in 0..MaxTime
    BY EmptySeq, LicenseAssumption
  <2> QED
    BY <1>1, <2>1 DEF Rows
<1>3. Requests
  BY <1>1, RequestIdle DEF Requests
<1>4. Fresh /\ PaidStays
  BY <1>1 DEF Fresh, PaidStays, Idle, Applying
<1>5. Given
  BY <1>1 DEF Given
<1> QED
  BY <1>2, <1>3, <1>4, <1>5 DEF IInv

\* A request that was waiting leaves a license behind.
LEMMA Licensed ==
  ASSUME IInv, NEW w \in Workers, open[w] # Idle \/ DOMAIN orders # {}
  PROVE  license # NoLicense /\ LicenseOK(license)
<1>1. DOMAIN <<>> = {}
  OBVIOUS
<1> QED
  BY <1>1 DEF IInv, Fresh, Rows

\* The requests that one worker opens, answers or loses.
LEMMA WorkerStep ==
  ASSUME IInv, NEW w \in Workers,
         \/ \E o \in 1..MaxOrders, p \in Providers : AskPayment(w, o, p)
         \/ \E o \in 1..MaxOrders : Callback(w, o)
         \/ \E d \in Devices : AskSeat(w, d) \/ LeaveSeat(w, d)
         \/ ListActive(w)
         \/ Handle(w) \/ Die(w)
  PROVE  IInv'
<1>1. Idle.kind = "idle" /\ Idle.kind \notin Applying /\ open = [x \in Workers |-> open[x]]
  BY DEF Idle, Applying, IInv, Requests
<1>2. settled \subseteq charged /\ orders \in Seq(OrderRow) /\ told \subseteq Devices
  BY DEF IInv, Rows
<1>3. ASSUME NEW o \in 1..MaxOrders, NEW p \in Providers, AskPayment(w, o, p) PROVE IInv'
  <2> DEFINE r == [kind |-> "pay", order |-> o, provider |-> p, row |-> orders[o]]
  <2>1. /\ o \in DOMAIN orders /\ orders[o].status = "pending" /\ open[w] = Idle /\ open' = [open EXCEPT ![w] = r]
        /\ UNCHANGED <<now, license, orders, urls, charged, settled, told, overwritten, faults>>
    BY <1>3 DEF AskPayment, Takes
  <2>2. RequestOK(orders, charged, license.validity, r)
    BY <1>2, <2>1, PendingOrder DEF RequestOK
  <2>3. r.kind \notin Applying
    BY DEF Applying
  <2> HIDE DEF r
  <2>4. license # NoLicense
    BY <2>1, Licensed
  <2> QED
    BY <1>1, <1>2, <2>1, <2>2, <2>3, <2>4, TakeStep
<1>4. ASSUME NEW o \in 1..MaxOrders, Callback(w, o) PROVE IInv'
  <2>1. o \in charged /\ o \in DOMAIN orders
    BY <1>4 DEF Callback, Reported, IInv, Rows
  <2>2. /\ open[w] = Idle
        /\ UNCHANGED <<now, license, orders, urls, charged, told, overwritten, faults>>
        /\ license # NoLicense
    BY <1>4, <2>1, Licensed DEF Callback
  <2>3. CASE orders[o].status = "paid"
    <3>1. settled' = settled \cup {o} /\ open' = open
      BY <1>4, <2>3 DEF Callback
    <3>2. open' = [open EXCEPT ![w] = open[w]]
      BY <1>1, <3>1
    <3>3. /\ RequestOK(orders, charged, license.validity, open[w])
          /\ settled' \subseteq charged /\ \A i \in settled' \ settled : orders[i].status = "paid"
      BY <1>2, <2>1, <2>3, <3>1, RequestOf DEF IInv
    <3> QED
      BY <1>1, <1>2, <2>2, <3>1, <3>2, <3>3, TakeStep
  <2>4. CASE orders[o].status # "paid"
    <3> DEFINE r == [kind |-> "paid", order |-> o, row |-> orders[o]]
    <3>1. settled' = settled /\ open' = [open EXCEPT ![w] = r]
      BY <1>4, <2>4 DEF Callback, Takes
    <3>2. RequestOK(orders, charged, license.validity, r)
      BY <1>2, <2>1, <2>4, PendingOrder DEF RequestOK
    <3>3. r.kind \notin Applying
      BY DEF Applying
    <3> HIDE DEF r
    <3> QED
      BY <1>1, <1>2, <2>1, <2>2, <3>1, <3>2, <3>3, TakeStep
  <2> QED
    BY <2>3, <2>4
<1>5. ASSUME NEW d \in Devices, AskSeat(w, d) PROVE IInv'
  <2>1. /\ license # NoLicense
        /\ UNCHANGED <<now, license, orders, urls, charged, settled, overwritten, faults>>
    BY <1>5 DEF AskSeat
  <2>2. LicenseOK(license)
    BY <2>1 DEF IInv, Rows
  <2>3. CASE d \in license.devices /\ open' = open /\ Told(d, TRUE)
    <3>1. open' = [open EXCEPT ![w] = open[w]]
      BY <1>1, <2>3
    <3>2. told' = told \cup {d}
      BY <2>3 DEF Told
    <3>3. told' \subseteq Devices /\ (told = license.devices => told' = told)
      BY <2>3, <3>2 DEF IInv, Rows
    <3>4. RequestOK(orders, charged, license.validity, open[w])
      BY RequestOf DEF IInv
    <3> QED
      BY <2>1, <3>1, <3>3, <3>4, <1>2, TakeStep
  <2>4. CASE open[w] = Idle /\ Seated(license, d) /\ Takes(w, [kind |-> "activate", device |-> d, read |-> license]) /\ told' = told
    <3> DEFINE r == [kind |-> "activate", device |-> d, read |-> license]
    <3>1. open' = [open EXCEPT ![w] = r] /\ Cardinality(license.devices) < license.seats
      BY <2>4 DEF Takes, Seated
    <3>2. RequestOK(orders, charged, license.validity, r)
      BY <2>2, <3>1 DEF RequestOK
    <3>3. r.kind \notin Applying
      BY DEF Applying
    <3>4. told' \subseteq Devices
      BY <2>4 DEF IInv, Rows
    <3> HIDE DEF r
    <3> QED
      BY <1>1, <1>2, <2>1, <2>4, <3>1, <3>2, <3>3, <3>4, TakeStep
  <2> QED
    BY <1>5, <2>3, <2>4 DEF AskSeat, Takes
<1>6. ASSUME NEW d \in Devices, LeaveSeat(w, d) PROVE IInv'
  <2> DEFINE r == [kind |-> "deactivate", device |-> d, read |-> license]
  <2>1. /\ license # NoLicense /\ open[w] = Idle /\ open' = [open EXCEPT ![w] = r]
        /\ UNCHANGED <<now, license, orders, urls, charged, settled, told, overwritten, faults>>
    BY <1>6 DEF LeaveSeat, Takes
  <2>2. RequestOK(orders, charged, license.validity, r) /\ told' \subseteq Devices
    BY <2>1 DEF RequestOK, IInv, Rows
  <2>3. r.kind \notin Applying
    BY DEF Applying
  <2> HIDE DEF r
  <2> QED
    BY <1>1, <1>2, <2>1, <2>2, <2>3, TakeStep
<1>7. ASSUME ListActive(w) PROVE IInv'
  <2> DEFINE r == [kind |-> "expire", read |-> license]
  <2>1. /\ license # NoLicense /\ open[w] = Idle /\ open' = [open EXCEPT ![w] = r]
        /\ UNCHANGED <<now, license, orders, urls, charged, settled, told, overwritten, faults>>
    BY <1>7 DEF ListActive, Takes
  <2>2. RequestOK(orders, charged, license.validity, r) /\ told' \subseteq Devices
    BY <2>1 DEF RequestOK, IInv, Rows
  <2>3. r.kind \notin Applying
    BY DEF Applying
  <2> HIDE DEF r
  <2> QED
    BY <1>1, <1>2, <2>1, <2>2, <2>3, TakeStep
<1>8. ASSUME ReadLicense(w) PROVE IInv'
  <2> DEFINE r == [kind |-> "extend", order |-> open[w].order, read |-> license, at |-> open[w].at]
  <2>1. /\ open[w].kind = "license" /\ open' = [open EXCEPT ![w] = r]
        /\ UNCHANGED <<now, license, orders, urls, charged, settled, told, overwritten, faults>>
    BY <1>8 DEF ReadLicense
  <2>2. license # NoLicense /\ LicenseOK(license)
    BY <1>1, <2>1, Licensed
  <2>3. open[w].order \in charged /\ open[w].at \in Nat
    BY <2>1, RequestOf DEF IInv, RequestOK
  <2>4. RequestOK(orders, charged, license.validity, r) /\ told' \subseteq Devices
    BY <2>1, <2>2, <2>3 DEF RequestOK, IInv, Rows
  <2>5. r.kind \in Applying /\ open[w].kind \in Applying /\ r.order = open[w].order
    BY <2>1 DEF Applying
  <2> HIDE DEF r
  <2> QED
    BY <1>2, <2>1, <2>2, <2>4, <2>5, TakeStep
<1>9. ASSUME Apply(w) PROVE IInv'
  <2>1. /\ open[w].kind = "extend" /\ open' = [open EXCEPT ![w] = Idle] /\ settled' = settled \cup {open[w].order}
        /\ UNCHANGED <<now, orders, urls, charged, told>>
    BY <1>9 DEF Apply, Ends
  <2>2. CASE Save(open[w].read, Extended(open[w].read, orders[open[w].order].type, open[w].at)) /\ faults' = faults
    BY <2>1, <2>2, AppliedStep
  <2>3. CASE Fault /\ license' = license /\ overwritten' = overwritten
    <3>1. faults' = faults + 1
      BY <2>3 DEF Fault
    <3>2. open[w].order \in charged /\ (~overwritten => orders[open[w].order].status = "paid")
      BY <2>1, RequestOf DEF IInv, RequestOK, PaidStays, Applying
    <3>3. open' = [x \in Workers |-> IF x = w THEN Idle ELSE open[x]]
      BY <1>1, <2>1
    <3> QED
      BY <1>2, <2>1, <2>3, <3>1, <3>2, <3>3, FaultStep
  <2> QED
    BY <1>9, <2>2, <2>3 DEF Apply
<1>10. ASSUME Activate(w) PROVE IInv'
  <2> DEFINE l == open[w].read
             d == open[w].device
  <2>1. /\ open[w].kind = "activate" /\ Save(l, Bound(l, d)) /\ told' = told \cup {d}
        /\ open' = [open EXCEPT ![w] = Idle]
        /\ UNCHANGED <<now, orders, urls, charged, settled, faults>>
    BY <1>10 DEF Activate, Bound, Told, Ends
  <2>2. LicenseOK(l) /\ d \in Devices /\ Cardinality(l.devices) < l.seats
    BY <2>1, RequestOf DEF IInv, RequestOK
  <2>3. told' \subseteq Devices
    BY <2>1, <2>2 DEF IInv, Rows
  <2>4. Carries(l, Bound(l, d)) /\ Bound(l, d).devices = l.devices \cup {d}
    <3> HIDE DEF l, d
    <3> QED BY <2>2, BoundOK DEF Carries
  <2> QED
    BY <2>1, <2>3, <2>4, SaveStep
<1>11. ASSUME Deactivate(w) PROVE IInv'
  <2> DEFINE l == open[w].read
             d == open[w].device
  <2>1. /\ open[w].kind = "deactivate" /\ Save(l, Unbound(l, d)) /\ told' = told \ {d}
        /\ open' = [open EXCEPT ![w] = Idle]
        /\ UNCHANGED <<now, orders, urls, charged, settled, faults>>
    BY <1>11 DEF Deactivate, Told, Ends
  <2>2. LicenseOK(l)
    BY <2>1, RequestOf DEF IInv, RequestOK
  <2>3. told' \subseteq Devices
    BY <2>1 DEF IInv, Rows
  <2>4. Carries(l, Unbound(l, d)) /\ Unbound(l, d).devices = l.devices \ {d}
    <3> HIDE DEF l, d
    <3> QED BY <2>2, UnboundOK DEF Carries
  <2> QED
    BY <2>1, <2>3, <2>4, SaveStep
<1>12. ASSUME CheckExpiry(w) PROVE IInv'
  <2> DEFINE l == open[w].read
             m == [l EXCEPT !.status = "expired"]
  <2>1. /\ open[w].kind = "expire" /\ Save(l, m) /\ told' = told
        /\ open' = [open EXCEPT ![w] = Idle]
        /\ UNCHANGED <<now, orders, urls, charged, settled, faults>>
    BY <1>12 DEF CheckExpiry, Ends
  <2>2. LicenseOK(l)
    BY <2>1, RequestOf DEF IInv, RequestOK
  <2>3. told' \subseteq Devices
    BY <2>1 DEF IInv, Rows
  <2>4. Carries(l, m) /\ m.devices = l.devices
    <3> HIDE DEF l
    <3>1. /\ LicenseOK(m) /\ m.status = "expired" /\ m.devices = l.devices /\ m.activated = l.activated
          /\ m.validity = l.validity /\ m.created = l.created /\ m.expires = l.expires
      BY <2>2, ExpiredOK
    <3> QED BY <3>1 DEF Carries
  <2> HIDE DEF m
  <2> QED
    BY <2>1, <2>3, <2>4, SaveStep
<1>13. ASSUME Die(w) PROVE IInv'
  <2>1. /\ faults' = faults + 1 /\ open' = [open EXCEPT ![w] = Idle]
        /\ UNCHANGED <<now, license, orders, urls, charged, settled, told, overwritten>>
    BY <1>13 DEF Die, Fault, Ends
  <2>2. open' = [x \in Workers |-> IF x = w THEN Idle ELSE open[x]]
    BY <1>1, <2>1
  <2> QED
    BY <1>2, <2>1, <2>2, FaultStep
<1>14. (CreatePayment(w) => IInv') /\ (MarkPaid(w) => IInv')
  BY CreatePaymentStep, MarkPaidStep
<1> QED
  BY <1>3, <1>4, <1>5, <1>6, <1>7, <1>8, <1>9, <1>10, <1>11, <1>12, <1>13, <1>14 DEF Handle

\* Every step preserves the invariant.
LEMMA StepIInv == IInv /\ [Next]_vars => IInv'
<1> SUFFICES ASSUME IInv, [Next]_vars PROVE IInv'
  OBVIOUS
<1>1. charged \subseteq DOMAIN orders /\ now \in 0..MaxTime /\ settled \subseteq charged
  BY DEF IInv, Rows
<1>2. ASSUME NEW url \in urls, Charge(url) PROVE IInv'
  <2>1. url.order \in DOMAIN orders
    BY DEF IInv, Rows
  <2>2. /\ charged' = charged \cup {url.order} /\ now' = now
        /\ UNCHANGED <<license, orders, open, told, overwritten, settled, faults, urls>>
    BY <1>2 DEF Charge
  <2> QED
    BY <1>1, <2>1, <2>2, QuietStep
<1>3. ASSUME NEW p \in Providers, NEW adapter, Swap(p, adapter) PROVE IInv'
  <2>1. /\ charged' = charged /\ now' = now
        /\ UNCHANGED <<license, orders, open, told, overwritten, settled, faults, urls>>
    BY <1>3 DEF Swap
  <2> QED
    BY <1>1, <2>1, QuietStep
<1>4. ASSUME NEW p \in Providers,
             UpdateConfig(p) \/ \E notify \in BOOLEAN : SwitchToMock(p, notify) \/ ImportProvider(p, notify)
      PROVE  IInv'
  BY <1>3, <1>4 DEF UpdateConfig, SwitchToMock, ImportProvider
<1>5. ASSUME NEW mocks \in SUBSET Providers, Restart(mocks) PROVE IInv'
  <2>1. /\ faults' = faults + 1 /\ open' = [w \in Workers |-> Idle]
        /\ UNCHANGED <<now, license, orders, urls, charged, settled, told, overwritten>>
    BY <1>5 DEF Restart
  <2> QED
    BY <1>1, <2>1, FaultStep
<1>6. ASSUME Tick PROVE IInv'
  <2>1. now < MaxTime /\ now' = now + 1 /\ charged' = charged
    BY <1>6 DEF Tick
  <2>2. now' \in 0..MaxTime
    BY <1>1, <2>1, LicenseAssumption
  <2>3. UNCHANGED <<license, orders, open, told, overwritten, settled, faults, urls>>
    BY <1>6 DEF Tick
  <2> QED
    BY <1>1, <2>1, <2>2, <2>3, QuietStep
<1>7. ASSUME UNCHANGED vars PROVE IInv'
  <2>1. /\ charged' = charged /\ now' = now
        /\ UNCHANGED <<license, orders, open, told, overwritten, settled, faults, urls>>
    BY <1>7 DEF vars
  <2> QED
    BY <1>1, <2>1, QuietStep
<1>8. ASSUME Next PROVE IInv'
  BY <1>2, <1>4, <1>5, <1>6, <1>8, WorkerStep, CreateStep, CreateRenewalStep DEF Next
<1> QED
  BY <1>7, <1>8

\* Whatever saves overlap, no license has more machines than seats, and all rows
\* keep their types.
THEOREM LicenseTypes == Spec => []TypeOK
<1>1. IInv => TypeOK
  <2> SUFFICES ASSUME IInv PROVE TypeOK
    OBVIOUS
  <2>1. ASSUME NEW o \in DOMAIN orders PROVE orders[o].status \in {"pending", "paid"}
    BY PendingOrder DEF IInv, Rows
  <2> QED
    BY <2>1 DEF IInv, Rows, LicenseOK, TypeOK
<1> QED
  BY InitIInv, StepIInv, <1>1, PTL DEF Spec

\* As long as no save has undone another one, what the provider was told is paid is
\* paid; if nothing failed either, each renewal has added its period, a paid license
\* has been active, and machines and answers agree.
THEOREM PaidLicensesAreGiven == Spec => []PaidIsGiven
<1>1. IInv => PaidIsGiven
  <2> SUFFICES ASSUME IInv PROVE PaidIsGiven
    OBVIOUS
  <2>1. ~overwritten => \A o \in settled : orders[o].status = "paid"
    BY DEF IInv, PaidStays
  <2> SUFFICES ASSUME license # NoLicense, ~overwritten, faults = 0
               PROVE
       /\ license.validity # "lifetime" =>
            license.expires - license.created >=
              Length(license.validity) * (1 + Cardinality(PaidOrders("renewal") \ Handling))
       /\ license.status = "inactive" /\ (PaidOrders("new") \cup PaidOrders("renewal")) \ Handling # {} =>
            license.activated
       /\ told = license.devices
       /\ \A d \in Devices : Verify(license, d, now) => LicenseStatus(license, now) = [status |-> "active", isExpired |-> FALSE]
       /\ license.status = "active" /\ LicenseStatus(license, now).status = "grace" => ExpiringSoon(license, 0, now)
    BY <2>1 DEF PaidIsGiven
  <2>2. LicenseOK(license) /\ Has(license, Applied, Renewed, told)
    BY DEF IInv, Rows, Given
  <2>3. ASSUME NEW type PROVE PaidOrders(type) \ Handling \subseteq Applied
    BY DEF PaidOrders, Handling, Applied, Applying
  <2>4. PaidOrders("renewal") \ Handling \subseteq Renewed
    BY <2>3 DEF Renewed, PaidOrders
  <2>5. Has(license, Applied, PaidOrders("renewal") \ Handling, told)
    BY <2>2, <2>4, RenewedFinite, HasFewer DEF IInv
  <2>6. license.status = "inactive" /\ (PaidOrders("new") \cup PaidOrders("renewal")) \ Handling # {} =>
            license.activated
    BY <2>2, <2>3 DEF Has
  <2>7. \A d \in Devices : Verify(license, d, now) => LicenseStatus(license, now) = [status |-> "active", isExpired |-> FALSE]
    <3> TAKE d \in Devices
    <3>1. CASE Past(license, now)
      BY <3>1 DEF Verify
    <3>2. CASE ~Past(license, now)
      <4>1. LicenseStatus(license, now) = [status |-> license.status, isExpired |-> FALSE]
        BY <3>2 DEF LicenseStatus, Past
      <4> QED
        BY <4>1 DEF Verify
    <3> QED
      BY <3>1, <3>2
  <2>8. license.status = "active" /\ LicenseStatus(license, now).status = "grace" => ExpiringSoon(license, 0, now)
    <3>1. now \in Nat /\ license.expires \in Int \cup {Never}
      BY <2>2, LicenseFields DEF IInv, Rows
    <3> QED
      BY <3>1 DEF LicenseStatus, ExpiringSoon, Past
  <2> QED
    BY <2>5, <2>6, <2>7, <2>8 DEF Has
<1> QED
  BY InitIInv, StepIInv, <1>1, PTL DEF Spec
=============================================================================
