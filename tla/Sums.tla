-------------------------------- MODULE Sums --------------------------------
(***************************************************************************)
(* The sum of the first n values of a function on the integers.  It is     *)
(* written as a recursive function, not with the folds of the community    *)
(* modules, so that CreditLedgerProofs can unfold it one index at a time.  *)
(***************************************************************************)
EXTENDS Integers

Sum(f, n) ==
  LET upTo[i \in 0..n] == IF i = 0 THEN 0 ELSE upTo[i-1] + f[i]
  IN  upTo[n]

Lesser(a, b) == IF a < b THEN a ELSE b
=============================================================================
