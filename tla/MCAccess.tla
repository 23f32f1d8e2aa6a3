------------------------------ MODULE MCAccess ------------------------------
(* Instances of Access: one user with two devices.                           *)
EXTENDS Access, TLC

CONSTANTS k1, k2, k3, e1, e2, d1, d2, q1, q2, v1, v2

MCKeyOf == [k \in Keys |-> [email |-> e1,
                            device |-> IF k = k1 THEN d1 ELSE d2]]

Symmetry == Permutations(Creators) \cup Permutations(Verifiers)
=============================================================================
