-------------------------- MODULE MCEntitlements --------------------------
(* Two purchases, a trial and a grant of the administrator within two paid *)
(* months, so that each kind of grant runs with, before and after every    *)
(* other.                                                                  *)
EXTENDS Entitlements, TLC

MCManualEnds == {1, Never}
=============================================================================
