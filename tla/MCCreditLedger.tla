--------------------------- MODULE MCCreditLedger ---------------------------
(***************************************************************************)
(* Small instances of CreditLedger for TLC.                                *)
(***************************************************************************)
EXTENDS CreditLedger, TLC

\* A rule for a period of credits that ends at time 1, and one for a top-up.
MCOrderTerms == {[type |-> "", end |-> 1], [type |-> "topup", end |-> 1]}

\* Every user starts with one credit that belongs to no bucket.
MCLegacyBalance == [u \in Users |-> 1]

Symmetry == Permutations(Keys) \cup Permutations(Orders) \cup Permutations(Users)
=============================================================================
