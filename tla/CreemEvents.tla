----------------------------- MODULE CreemEvents -----------------------------
(***************************************************************************)
(* What becomes of a webhook of Creem whose signature is verified: the     *)
(* event the adapter makes of its payload, internal/payment/creem.go, and  *)
(* the comparison of its money with the order's.                           *)
(*                                                                         *)
(* A payload is its event type and the texts and numbers found at paths    *)
(* below "object"; Creem puts the same fact in other places for other      *)
(* events.  A date is the time it names, Nil if it names none.             *)
(***************************************************************************)
EXTENDS Integers, Sequences

CONSTANT Nil     \* a nil *time.Time

\* The places of the list that hold something, in the order of the list.
Places(payload, paths) == SelectSeq(paths, LAMBDA path : path \in DOMAIN payload.at)

\* The first text that is not empty, and the first positive number.
FirstText(payload, paths) ==
  LET full == SelectSeq(Places(payload, paths), LAMBDA path : payload.at[path] # "")
  IN  IF full = <<>> THEN "" ELSE payload.at[Head(full)]

FirstPositive(payload, paths) ==
  LET full == SelectSeq(Places(payload, paths), LAMBDA path : payload.at[path] > 0)
  IN  IF full = <<>> THEN 0 ELSE payload.at[Head(full)]

\* The number under which Walnut opened the order, "" if the payload has none.
OutTradeNo(payload) ==
  FirstText(payload,
    << <<"request_id">>, <<"checkout", "request_id">>,
       <<"metadata", "walnut_out_trade_no">>,
       <<"checkout", "metadata", "walnut_out_trade_no">>,
       <<"subscription", "metadata", "walnut_out_trade_no">>,
       <<"dispute", "metadata", "walnut_out_trade_no">>,
       <<"chargeback", "metadata", "walnut_out_trade_no">>,
       <<"metadata", "request_id">>, <<"metadata", "order_id">> >>)

\* The places that the money of an event is read from.
MoneyAt(field, refundField) ==
  << <<"order", field>>, <<"transaction", field>>, <<refundField>>,
     <<"dispute", field>>, <<"chargeback", field>>, <<field>> >>

Amount(payload) ==
  FirstPositive(payload, Append(MoneyAt("amount", "refund_amount"), <<"product", "price">>))

Currency(payload) ==
  FirstText(payload, Append(MoneyAt("currency", "refund_currency"), <<"product", "currency">>))

\* A date is taken before a number, also one that does not parse.
PeriodTime(payload, dateField, numberField) ==
  LET dates  == Places(payload, << <<dateField>>, <<"subscription", dateField>> >>)
      number == FirstPositive(payload, << <<numberField>>, <<"order", numberField>> >>)
  IN  CASE dates # <<>> -> payload.at[Head(dates)]
        [] dates = <<>> /\ number > 0 -> number
        [] OTHER -> Nil

\* Every event but a completed checkout must name an order; one that does not,
\* or that Walnut does not know, keeps the name Creem gave it and is ignored.
Kind(payload) ==
  CASE payload.type = "checkout.completed" -> "paid"
    [] payload.type # "checkout.completed" /\ OutTradeNo(payload) = "" -> "other"
    [] OTHER ->
         CASE payload.type = "refund.created" -> "refunded"
           [] payload.type \in {"dispute.created", "chargeback.created"} -> "disputed"
           [] payload.type = "subscription.paid" -> "renewal_paid"
           [] payload.type = "subscription.past_due" -> "renewal_failed"
           [] payload.type = "subscription.expired" -> "subscription_expired"
           [] payload.type \in {"subscription.cancelled", "subscription.canceled"} -> "cancelled"
           [] OTHER -> "other"

VerifiedEvent(payload) ==
  [order    |-> OutTradeNo(payload),
   type     |-> Kind(payload),
   amount   |-> Amount(payload),
   currency |-> Currency(payload),
   start    |-> PeriodTime(payload, "current_period_start_date", "period_start"),
   end      |-> PeriodTime(payload, "current_period_end_date", "period_end")]

-----------------------------------------------------------------------------
(* The order processor compares what is known of both.                     *)

AmountMatches(event, order) ==
  event.amount > 0 /\ order.amount > 0 => event.amount = order.amount

\* The code compares without regard to case; a currency has one spelling here.
CurrencyMatches(event, order) ==
  event.currency # "" /\ order.currency # "" => event.currency = order.currency
=============================================================================
