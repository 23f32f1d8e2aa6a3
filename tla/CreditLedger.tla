---------------------------- MODULE CreditLedger ----------------------------
(***************************************************************************)
(* Walnut Credits: the account, bucket, reservation and ledger tables of   *)
(* internal/service/credit.go and credit_bucket.go, and the refund         *)
(* clawback of internal/service/payment_adjustment.go.                     *)
(*                                                                         *)
(* Every call of the service runs in one database transaction, and SQLite  *)
(* lets one writing transaction commit at a time: a transaction that read  *)
(* a snapshot another one has since overwritten fails and is rolled back.  *)
(* So a call is one atomic action; a call that fails or is rolled back,    *)
(* and a replay of a call whose idempotency key is on record (it returns   *)
(* the stored row), change nothing and are stuttering steps.               *)
(***************************************************************************)
EXTENDS Sums, Sequences, FiniteSets

CONSTANTS
  Users,           \* accounts: one per user
  Keys,            \* idempotency keys chosen by the callers of the API
  Orders,          \* paid orders whose fulfillment grants credits
  GrantAmounts,    \* amounts a grant may name
  HoldAmounts,     \* amounts a reservation may name
  HoldExpiries,    \* expiry times a reservation may name, or Never
  SweepTimes,      \* times an expiry call may name
  OrderTerms,      \* credit terms of the fulfillment rules: see TermsType
  Limits,          \* row limits of the expiry call, 0 for none
  MaxTime,         \* bound on the clock
  MaxBuckets,      \* bound on the number of grants
  LegacyBalance,   \* balances that predate credit buckets
  Never            \* "no expiry", a nil *time.Time

Times == 0..MaxTime
BucketIds == 1..MaxBuckets
ExplicitTypes == {"admin", "legacy", "topup", "subscription_period"}

\* What an order's credit rule says: an explicit bucket type or "", and the
\* end of the paid period (Never for a rule without a duration).
TermsType == [type : ExplicitTypes \cup {""}, end : Times \cup {Never}]

ASSUME BoundsAssumption == MaxTime \in Nat /\ MaxBuckets \in Nat
ASSUME AmountsAssumption == GrantAmounts \cup HoldAmounts \subseteq Nat \ {0}
ASSUME TimesAssumption == SweepTimes \subseteq Times /\ HoldExpiries \subseteq Times \cup {Never}
ASSUME TermsAssumption == OrderTerms \subseteq TermsType
ASSUME LimitsAssumption == Limits \subseteq Nat
ASSUME LegacyAssumption == LegacyBalance \in [Users -> Nat]
ASSUME NeverAssumption == Never \notin Int

VARIABLES
  now,           \* the server's clock
  balance,       \* CreditAccount.Balance
  reserved,      \* CreditAccount.Reserved
  buckets,       \* CreditBucket rows in creation order; the index is the id
  reservations,  \* CreditReservation rows in creation order
  ledger         \* CreditTransaction rows in creation order

vars == <<now, balance, reserved, buckets, reservations, ledger>>

-----------------------------------------------------------------------------
(* Rows.                                                                   *)

\* The unique idempotency keys of ledger rows, one shape per caller: a client
\* key serves grants and finalizations alike; the others are derived keys.
ClientKey(k)   == <<"client", k>>
OrderKey(o)    == <<"fulfillment", o>>
ReserveKey(k)  == <<"reserve", k>>
ExpireKey(b)   == <<"expire", b>>
ClawbackKey(o) == <<"refund:clawback", o>>

RowKeys == ({"client", "reserve"} \X Keys)
             \cup ({"fulfillment", "refund:clawback"} \X Orders)
             \cup ({"expire"} \X BucketIds)

Bucket == [user : Users, type : ExplicitTypes, expiresAt : Times \cup {Never},
           granted : Nat, remaining : Nat, reserved : Nat,
           status : {"active", "expired", "depleted"}]

Reservation == [user : Users, amount : Nat, key : Keys,
                expiresAt : Times \cup {Never},
                status : {"pending", "committed", "released"},
                alloc : [BucketIds -> Nat],      \* BucketAllocations
                finalizedAt : Times]             \* CommittedAt or ReleasedAt

RowTypes == {"grant", "reserve", "commit", "release", "clawback", "expire"}

Row == [user : Users, type : RowTypes, amount : Int, key : RowKeys,
        balanceAfter : Nat, reservedAfter : Nat,
        bucket : Nat, reservation : Nat]

NewRow(u, type, amount, key, balanceAfter, reservedAfter, b, r) ==
  [user |-> u, type |-> type, amount |-> amount, key |-> key,
   balanceAfter |-> balanceAfter, reservedAfter |-> reservedAfter,
   bucket |-> b, reservation |-> r]

Recorded(key) == \E i \in DOMAIN ledger : ledger[i].key = key

-----------------------------------------------------------------------------
(* Buckets.                                                                *)

\* creditBucketTypeForFulfillment: the rule's own type, else a period bucket
\* for a rule with a duration, else a top-up.
TermsBucketType(terms) ==
  IF terms.type # "" THEN terms.type
  ELSE IF terms.end # Never THEN "subscription_period"
  ELSE "topup"

\* newCreditBucketFromGrant with the period that creditFulfillmentPeriodEnd
\* passes: only the credits of a subscription period expire.
TermsExpiry(terms) ==
  IF TermsBucketType(terms) = "subscription_period" THEN terms.end ELSE Never

NewBucket(u, type, expiresAt, a) ==
  [user |-> u, type |-> type, expiresAt |-> expiresAt, granted |-> a,
   remaining |-> a, reserved |-> 0, status |-> "active"]

\* A time that is not yet reached: expires_at IS NULL OR expires_at > now.
After(expiry, t) == IF expiry = Never THEN TRUE ELSE expiry > t

Live(b, t) == After(b.expiresAt, t)

Spendable(b, t) == b.status = "active" /\ b.remaining > 0 /\ Live(b, t)
Due(b, t)       == b.status = "active" /\ b.remaining > 0 /\ ~Live(b, t)

\* Mutation: NULLs sort first.
Before_NullsFirst(i, j) ==
  LET x == buckets[i].expiresAt
      y == buckets[j].expiresAt
  IN  \/ y # Never /\ (x = Never \/ x < y)
      \/ x = y /\ i < j

\* ORDER BY expires_at (NULLs last), created_at, and the same order again in
\* earliestExpiringBucketAllocationStrategy.
Before(i, j) ==
  LET x == buckets[i].expiresAt
      y == buckets[j].expiresAt
  IN  \/ x # Never /\ (y = Never \/ x < y)
      \/ x = y /\ i < j

\* The set S of bucket ids as the one sequence in that order.
Ordered(S) ==
  {s \in [1..Cardinality(S) -> S] :
     \A i, j \in 1..Cardinality(S) : i < j => Before(s[i], s[j])}

\* A bucket that has nothing left and nothing held is closed.
Closed(b, t) ==
  IF b.remaining + b.reserved > 0 THEN b
  ELSE [b EXCEPT !.status = IF Live(b, t) THEN "depleted" ELSE "expired"]

-----------------------------------------------------------------------------
(* expireCreditBucket applied to the buckets of s one after the other: the *)
(* balances before the first and after each of them, the ledger rows they  *)
(* append, and the buckets they leave.                                     *)

Swept(bal, b) == [bal EXCEPT ![b.user] = @ - Lesser(b.remaining, @)]

SweepBalance(s) ==
  LET bal[i \in 0..Len(s)] ==
        IF i = 0 THEN balance ELSE Swept(bal[i-1], buckets[s[i]])
  IN  bal

\* Mutation: every row of a sweep starts from the balance before the sweep.
SweepRows_StaleBalance(s) ==
  [i \in 1..Len(s) |->
     LET b == buckets[s[i]]
     IN  NewRow(b.user, "expire", -b.remaining, ExpireKey(s[i]),
                balance[b.user] - b.remaining, reserved[b.user], s[i], 0)]

SweepRows(s) ==
  LET bal == SweepBalance(s)
  IN  [i \in 1..Len(s) |->
         LET u == buckets[s[i]].user
         IN  NewRow(u, "expire", bal[i][u] - bal[i-1][u], ExpireKey(s[i]),
                    bal[i][u], reserved[u], s[i], 0)]

SweepBuckets(s) ==
  [b \in DOMAIN buckets |->
     IF \E i \in 1..Len(s) : s[i] = b
     THEN [buckets[b] EXCEPT !.remaining = 0, !.status = "expired"]
     ELSE buckets[b]]

\* earliestExpiringBucketAllocationStrategy.Allocate: drain the buckets of s
\* in order until the amount is met; what they cannot cover stays unallocated
\* (it is paid from a balance that predates buckets).
Drawn(alloc, b, a) ==
  [alloc EXCEPT ![b] = Lesser(buckets[b].remaining, a - Sum(alloc, MaxBuckets))]

Allocation(s, a) ==
  LET draw[i \in 0..Len(s)] ==
        IF i = 0 THEN [b \in BucketIds |-> 0] ELSE Drawn(draw[i-1], s[i], a)
  IN  draw[Len(s)]

-----------------------------------------------------------------------------
(* The operations.                                                         *)

\* grantCreditsWithRepos for a key that is not on record.
GrantCredits(u, a, key, type, expiresAt) ==
  /\ ~Recorded(key)
  /\ Len(buckets) < MaxBuckets
  /\ balance' = [balance EXCEPT ![u] = @ + a]
  /\ buckets' = Append(buckets, NewBucket(u, type, expiresAt, a))
  /\ ledger' = Append(ledger, NewRow(u, "grant", a, key, balance[u] + a,
                                     reserved[u], Len(buckets) + 1, 0))
  /\ UNCHANGED <<now, reserved, reservations>>

\* An administrator's grant carries no period.
Grant(u, k, a) == GrantCredits(u, a, ClientKey(k), "admin", Never)

\* The credits of a paid order, from its fulfillment rule.
FulfillCredits(u, o, a, terms) ==
  GrantCredits(u, a, OrderKey(o), TermsBucketType(terms), TermsExpiry(terms))

\* Mutation: the balance is checked before the sweep.
Reserve_ChecksBeforeSweep(u, k, a, expiresAt) ==
  /\ After(expiresAt, now)
  /\ \A r \in DOMAIN reservations : reservations[r].key # k
  /\ balance[u] >= a
  /\ \E s \in Ordered({b \in DOMAIN buckets : buckets[b].user = u /\ Due(buckets[b], now)}) :
       LET left == SweepBalance(s)[Len(s)]
       IN  /\ balance' = [left EXCEPT ![u] = @ - a]
           /\ buckets' = SweepBuckets(s)
           /\ ledger' = ledger \o Append(SweepRows(s),
                NewRow(u, "reserve", -a, ReserveKey(k), left[u] - a, reserved[u] + a,
                       0, Len(reservations) + 1))
  /\ reserved' = [reserved EXCEPT ![u] = @ + a]
  /\ reservations' = Append(reservations,
       [user |-> u, amount |-> a, key |-> k, expiresAt |-> expiresAt,
        status |-> "pending", alloc |-> [b \in BucketIds |-> 0], finalizedAt |-> 0])
  /\ UNCHANGED now

\* Reserve: expire the account's due buckets, then hold the amount, drawn
\* from the buckets that expire first.
Reserve(u, k, a, expiresAt) ==
  /\ After(expiresAt, now)
  /\ \A r \in DOMAIN reservations : reservations[r].key # k
  /\ \E s \in Ordered({b \in DOMAIN buckets : buckets[b].user = u /\ Due(buckets[b], now)}) :
     \E q \in Ordered({b \in DOMAIN buckets : buckets[b].user = u /\ Spendable(buckets[b], now)}) :
       LET left  == SweepBalance(s)[Len(s)]
           swept == SweepBuckets(s)
           alloc == Allocation(q, a)
       IN
       /\ \A i \in DOMAIN s : ~Recorded(ExpireKey(s[i]))
       /\ left[u] >= a
       /\ balance' = [left EXCEPT ![u] = @ - a]
       /\ reserved' = [reserved EXCEPT ![u] = @ + a]
       /\ buckets' = [b \in DOMAIN buckets |->
            [swept[b] EXCEPT !.remaining = @ - alloc[b], !.reserved = @ + alloc[b]]]
       /\ reservations' = Append(reservations,
            [user |-> u, amount |-> a, key |-> k, expiresAt |-> expiresAt,
             status |-> "pending", alloc |-> alloc, finalizedAt |-> 0])
       /\ ledger' = ledger \o Append(SweepRows(s),
            NewRow(u, "reserve", -a, ReserveKey(k), left[u] - a, reserved[u] + a,
                   0, Len(reservations) + 1))
  /\ UNCHANGED now

\* Mutation: a reservation that has ended can be finalized again.
Finalizable_AnyStatus(r, k) ==
  /\ ~Recorded(ClientKey(k))
  /\ reserved[reservations[r].user] >= reservations[r].amount

\* finalizeReservation, up to the choice between commit and release.
Finalizable(r, k) ==
  LET res == reservations[r]
  IN  /\ ~Recorded(ClientKey(k))
      /\ res.status = "pending"
      /\ reserved[res.user] >= res.amount
      /\ \A b \in DOMAIN buckets : buckets[b].reserved >= res.alloc[b]

Finalize(r, k, status, type, restored) ==
  LET res == reservations[r]
      u   == res.user
  IN  /\ balance' = [balance EXCEPT ![u] = @ + restored]
      /\ reserved' = [reserved EXCEPT ![u] = @ - res.amount]
      /\ reservations' = [reservations EXCEPT ![r].status = status,
                                              ![r].finalizedAt = now]
      /\ ledger' = Append(ledger, NewRow(u, type, restored, ClientKey(k),
                            balance[u] + restored, reserved[u] - res.amount, 0, r))
      /\ UNCHANGED now

\* Commit: the held credits are spent.  An expired reservation is refused.
Commit(r, k) ==
  LET res == reservations[r]
  IN  /\ Finalizable(r, k)
      /\ After(res.expiresAt, now)
      /\ buckets' = [b \in DOMAIN buckets |->
           IF res.alloc[b] = 0 THEN buckets[b]
           ELSE Closed([buckets[b] EXCEPT !.reserved = @ - res.alloc[b]], now)]
      /\ Finalize(r, k, "committed", "commit", 0)

\* Mutation: a release refills a bucket that has expired.
ReturnTo_Expired(b, amount) ==
  [b EXCEPT !.reserved = @ - amount, !.remaining = @ + amount, !.status = "active"]

\* A held amount goes back to a bucket that is still live, and is lost with
\* one that has expired.
ReturnTo(b, amount) ==
  IF Live(b, now)
  THEN [b EXCEPT !.reserved = @ - amount, !.remaining = @ + amount, !.status = "active"]
  ELSE [b EXCEPT !.reserved = @ - amount]

\* What a release gives back: the unallocated part and the live buckets' part.
Restored(res) ==
  LET live == [b \in BucketIds |->
                 IF b \in DOMAIN buckets /\ Live(buckets[b], now) THEN res.alloc[b] ELSE 0]
      back == res.amount - Sum(res.alloc, MaxBuckets) + Sum(live, MaxBuckets)
  IN  IF back < 0 THEN 0 ELSE back

Release(r, k) ==
  LET res == reservations[r]
  IN  /\ Finalizable(r, k)
      /\ buckets' = [b \in DOMAIN buckets |->
           IF res.alloc[b] = 0 THEN buckets[b]
           ELSE Closed(ReturnTo(buckets[b], res.alloc[b]), now)]
      /\ Finalize(r, k, "released", "release", Restored(res))

\* ExpireBuckets: all accounts at once, up to limit rows, at the time the
\* caller names (the request's "now", the clock when it names none).
ExpireBuckets(at, limit) ==
  LET due == {b \in DOMAIN buckets : Due(buckets[b], at)}
  IN  /\ due # {}
      /\ \E s \in Ordered(due) :
           LET batch == SubSeq(s, 1, IF limit = 0 THEN Len(s) ELSE Lesser(limit, Len(s)))
           IN  /\ \A i \in DOMAIN batch : ~Recorded(ExpireKey(batch[i]))
               /\ balance' = SweepBalance(batch)[Len(batch)]
               /\ buckets' = SweepBuckets(batch)
               /\ ledger' = ledger \o SweepRows(batch)
      /\ UNCHANGED <<now, reserved, reservations>>

\* Mutation: the refund is limited by the account's balance alone.
ClawbackRow_WholeGrant(o, i) ==
  LET u == ledger[i].user
      b == ledger[i].bucket
      taken == Lesser(ledger[i].amount, balance[u])
  IN  /\ balance' = [balance EXCEPT ![u] = @ - taken]
      /\ buckets' = [buckets EXCEPT ![b].remaining = @ - taken]
      /\ ledger' = Append(ledger, NewRow(u, "clawback", -taken, ClawbackKey(o),
                                         balance[u] - taken, reserved[u], b, 0))

\* clawbackFulfilledCredits: a refund takes back what is left of the bucket
\* that the order's grant row i created.  The row is written even for 0.
ClawbackRow(o, i) ==
  LET u == ledger[i].user
      b == ledger[i].bucket
      taken == Lesser(Lesser(ledger[i].amount, balance[u]), buckets[b].remaining)
      cut == [buckets[b] EXCEPT !.remaining = @ - taken]
  IN  /\ balance' = [balance EXCEPT ![u] = @ - taken]
      /\ buckets' = [buckets EXCEPT ![b] =
           IF taken > 0 /\ cut.remaining + cut.reserved = 0
           THEN [cut EXCEPT !.status = "depleted"] ELSE cut]
      /\ ledger' = Append(ledger, NewRow(u, "clawback", -taken, ClawbackKey(o),
                                         balance[u] - taken, reserved[u], b, 0))

Clawback(o) ==
  /\ ~Recorded(ClawbackKey(o))
  /\ \E i \in DOMAIN ledger : ledger[i].key = OrderKey(o) /\ ClawbackRow(o, i)
  /\ UNCHANGED <<now, reserved, reservations>>

Tick ==
  /\ now < MaxTime
  /\ now' = now + 1
  /\ UNCHANGED <<balance, reserved, buckets, reservations, ledger>>

-----------------------------------------------------------------------------
Init ==
  /\ now = 0
  /\ balance = LegacyBalance
  /\ reserved = [u \in Users |-> 0]
  /\ buckets = <<>>
  /\ reservations = <<>>
  /\ ledger = <<>>

Next ==
  \/ \E u \in Users, k \in Keys, a \in GrantAmounts : Grant(u, k, a)
  \/ \E u \in Users, o \in Orders, a \in GrantAmounts, terms \in OrderTerms :
       FulfillCredits(u, o, a, terms)
  \/ \E u \in Users, k \in Keys, a \in HoldAmounts, t \in HoldExpiries :
       Reserve(u, k, a, t)
  \/ \E r \in DOMAIN reservations, k \in Keys : Commit(r, k)
  \/ \E r \in DOMAIN reservations, k \in Keys : Release(r, k)
  \/ \E at \in SweepTimes, limit \in Limits : ExpireBuckets(at, limit)
  \/ \E o \in Orders : Clawback(o)
  \/ Tick

Spec == Init /\ [][Next]_vars

-----------------------------------------------------------------------------
(* Properties.                                                             *)

\* Types of the tables; no balance, hold or bucket is ever overdrawn.
TypeOK ==
  /\ now \in Times
  /\ balance \in [Users -> Nat]
  /\ reserved \in [Users -> Nat]
  /\ buckets \in Seq(Bucket) /\ Len(buckets) <= MaxBuckets
  /\ reservations \in Seq(Reservation)
  /\ ledger \in Seq(Row)

\* The balance of u after the first n ledger rows.
Replay(u, n) ==
  LegacyBalance[u] + Sum([i \in 1..n |-> IF ledger[i].user = u THEN ledger[i].amount ELSE 0], n)

\* The ledger explains the account: every row's balance_after is what the
\* rows up to it add up to, and the account's balance is what they all do,
\* also through the rows a reserve or an expiry batch writes together.
LedgerExplainsBalance ==
  /\ \A i \in DOMAIN ledger : ledger[i].balanceAfter = Replay(ledger[i].user, i)
  /\ \A u \in Users : balance[u] = Replay(u, Len(ledger))

Pending == {r \in DOMAIN reservations : reservations[r].status = "pending"}

\* What is held is what pending reservations hold: per account, and in each
\* bucket, so that no finalization is ever refused for want of held credits.
HoldsMatchPending ==
  /\ \A u \in Users :
       reserved[u] = Sum([r \in DOMAIN reservations |->
                            IF r \in Pending /\ reservations[r].user = u
                            THEN reservations[r].amount ELSE 0], Len(reservations))
  /\ \A b \in DOMAIN buckets :
       buckets[b].reserved = Sum([r \in DOMAIN reservations |->
                                    IF r \in Pending THEN reservations[r].alloc[b] ELSE 0],
                                 Len(reservations))

\* Sum over the rows of one type that name bucket b.
RowSum(b, type) ==
  Sum([i \in DOMAIN ledger |->
         IF ledger[i].type = type /\ ledger[i].bucket = b THEN ledger[i].amount ELSE 0],
      Len(ledger))

\* The credits of bucket b that reservations of the given status took out of
\* it for good: spent by a commit, or released after the bucket expired.
Consumed(b) ==
  Sum([r \in DOMAIN reservations |->
         LET res == reservations[r]
         IN  IF \/ res.status = "committed"
                \/ res.status = "released" /\ ~Live(buckets[b], res.finalizedAt)
             THEN res.alloc[b] ELSE 0], Len(reservations))

\* Every granted credit is in exactly one place: left, held, spent, lost to
\* an expiry, or taken back by a refund.  None is created or counted twice.
BucketsConserve ==
  \A b \in DOMAIN buckets :
    buckets[b].granted = buckets[b].remaining + buckets[b].reserved + Consumed(b)
                           - RowSum(b, "expire") - RowSum(b, "clawback")

\* CreditAccount.Balance never falls behind the buckets it aggregates, so a
\* sweep or a refund never has to take less than a bucket holds.
BalanceCoversBuckets ==
  \A u \in Users :
    balance[u] >= Sum([b \in DOMAIN buckets |->
                         IF buckets[b].user = u THEN buckets[b].remaining ELSE 0], Len(buckets))

\* A reservation has one reserve row, and one commit or release row exactly
\* when it has that status: never both, and never one of them twice.
FinalizedOnce ==
  \A r \in DOMAIN reservations :
    LET rowsOf(type) == {i \in DOMAIN ledger : ledger[i].reservation = r /\ ledger[i].type = type}
        has(type, n) == Cardinality(rowsOf(type)) = n
    IN  /\ has("reserve", 1)
        /\ has("commit", IF reservations[r].status = "committed" THEN 1 ELSE 0)
        /\ has("release", IF reservations[r].status = "released" THEN 1 ELSE 0)

\* Every credit is accounted for, in the holds, in the buckets, in the balance
\* and in the ledger's rows of each reservation.
CreditsAddUp ==
  HoldsMatchPending /\ BucketsConserve /\ BalanceCoversBuckets /\ FinalizedOnce

\* A new reservation draws first on what expires first: it never takes from
\* a bucket while one that is due earlier keeps credits, nor from one that
\* has expired.
Sooner(x, y) == x # Never /\ (y = Never \/ x < y)

SpendsEarliestFirst ==
  [][\A r \in DOMAIN reservations' \ DOMAIN reservations :
       LET res == reservations'[r]
       IN  \A b, c \in DOMAIN buckets :
             /\ res.alloc[c] > 0 => Live(buckets[c], now)
             /\ /\ res.alloc[c] > 0 /\ buckets[b].user = res.user
                /\ Sooner(buckets[b].expiresAt, buckets[c].expiresAt)
                => ~Spendable(buckets'[b], now)]_vars

\* The service implements the wallet of module Wallet: credits are used only
\* through holds, a hold ends once, and nothing but a grant adds credits.
Ended(status) == {r \in DOMAIN reservations : reservations[r].status = status}

W == INSTANCE Wallet WITH
       available <- balance,
       holds     <- [r \in Pending |-> [user   |-> reservations[r].user,
                                        amount |-> reservations[r].amount]],
       spent     <- Ended("committed"),
       returned  <- Ended("released")

ImplementsWallet == W!Spec

=============================================================================
