------------------------- MODULE MCPaymentPipeline -------------------------
(* Instances of PaymentPipeline: the events of each are named in its .cfg. *)
EXTENDS PaymentPipeline, CreemEvents, TLC

CONSTANTS o1, o2, p1, p2, wrong, c1, r1, d1, x1, legacy

\* What each event the instances use says.
MCEvent(e) ==
  [order |-> IF e = legacy THEN o2 ELSE o1,
   type |-> CASE e \in {p1, p2, wrong, legacy} -> "paid"
              [] e = c1 -> "cancelled"
              [] e = r1 -> "refunded"
              [] e = d1 -> "disputed"
              [] OTHER  -> "other",
   matches |-> e # wrong]

MCEventOf == [e \in Events |-> MCEvent(e)]

\* The payloads, as in the fixtures of creem_fixtures_test.go: where the order's
\* number and the money stand depends on the event.
Payload(e) ==
  CASE e \in {p1, p2, wrong, legacy} ->
         [type |-> "checkout.completed",
          at |-> <<"request_id">> :> MCEvent(e).order
              @@ <<"order", "amount">> :> (IF e = wrong THEN 1 ELSE 500)
              @@ <<"order", "currency">> :> "USD"
              @@ <<"metadata", "walnut_out_trade_no">> :> MCEvent(e).order]
    [] e = r1 ->
         [type |-> "refund.created",
          at |-> <<"refund_amount">> :> 500 @@ <<"refund_currency">> :> "USD"
              @@ <<"metadata", "walnut_out_trade_no">> :> o1]
    [] e = d1 ->
         [type |-> "dispute.created",
          at |-> <<"dispute", "amount">> :> 500 @@ <<"dispute", "currency">> :> "USD"
              @@ <<"dispute", "metadata", "walnut_out_trade_no">> :> o1]
    [] OTHER ->
         [type |-> IF e = c1 THEN "subscription.cancelled" ELSE "subscription.active",
          at |-> <<"subscription", "metadata", "walnut_out_trade_no">> :> o1
              @@ <<"order", "amount">> :> 500 @@ <<"order", "currency">> :> "USD"]

Price == [amount |-> 500, currency |-> "USD"]

\* What the adapter makes of each payload is what Creem means by it.
ASSUME PayloadsAssumption ==
  \A e \in Events :
    LET event == VerifiedEvent(Payload(e))
    IN  MCEvent(e) = [order |-> event.order, type |-> event.type,
                      matches |-> AmountMatches(event, Price) /\ CurrencyMatches(event, Price)]

\* Two configurations: reversals and disputes that are acted on or reviewed.
MixedPolicy == [inWindow |-> {"auto_refund", "manual_review"}, outOfWindow |-> "reject",
                dispute |-> "auto_refund", cancel |-> "auto_refund"]

ReviewPolicy == [inWindow |-> {"auto_refund", "manual_review"}, outOfWindow |-> "reject",
                 dispute |-> "manual_review", cancel |-> "auto_refund"]

Symmetry == Permutations(Workers)
=============================================================================
