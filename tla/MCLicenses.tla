----------------------------- MODULE MCLicenses -----------------------------
(* One license with a seat, two machines, its first order and a renewal,   *)
(* and two requests that can be open together.                             *)
EXTENDS Licenses, TLC

Symmetry == Permutations(Devices) \cup Permutations(Workers)
=============================================================================
