------------------------------ MODULE MCRenewal ------------------------------
(* Instances of Renewal: the events of each are named in its .cfg.  A period *)
(* is 3 units of time long; the first one starts at 0.                       *)
EXTENDS Renewal, CreemEvents, TLC

CONSTANTS c0, s0, s1, l1, f1, x1

\* What each event the instances use says: c0 and s0 are the first payment,
\* s1 the second, l1 a late second one whose period starts when it is made;
\* f1 and x1 say that the second one failed and that the subscription expired.
MCEvent(e) ==
  [type |-> CASE e = c0             -> "paid"
              [] e \in {s0, s1, l1} -> "renewal_paid"
              [] e = f1             -> "renewal_failed"
              [] OTHER              -> "subscription_expired",
   start |-> CASE e = s1 -> 3 [] e = l1 -> 4 [] OTHER -> 0,
   end |-> CASE e = s1 -> 6 [] e = l1 -> 7 [] OTHER -> 3]

MCEventOf == [e \in Events |-> MCEvent(e)]

\* The payloads, as in the fixtures of creem_fixtures_test.go. A renewal's has the
\* period as dates and as numbers, a checkout's below its subscription.
Payload(e) ==
  CASE e = c0 ->
         [type |-> "checkout.completed",
          at |-> <<"request_id">> :> Checkout
              @@ <<"subscription", "current_period_start_date">> :> MCEvent(e).start
              @@ <<"subscription", "current_period_end_date">> :> MCEvent(e).end]
    [] OTHER ->
         [type |-> CASE MCEvent(e).type = "renewal_paid"   -> "subscription.paid"
                     [] MCEvent(e).type = "renewal_failed" -> "subscription.past_due"
                     [] OTHER                            -> "subscription.expired",
          at |-> <<"subscription", "metadata", "walnut_out_trade_no">> :> Checkout
              @@ <<"order", "period_start">> :> MCEvent(e).start
              @@ <<"order", "period_end">> :> MCEvent(e).end
              @@ <<"current_period_start_date">> :> MCEvent(e).start
              @@ <<"current_period_end_date">> :> MCEvent(e).end]

\* What the adapter makes of each payload is what Creem means by it.
ASSUME PayloadsAssumption ==
  \A e \in Events :
    LET event == VerifiedEvent(Payload(e))
    IN  MCEvent(e) = [type |-> event.type, start |-> event.start, end |-> event.end]

Symmetry == Permutations(Requests)
=============================================================================
