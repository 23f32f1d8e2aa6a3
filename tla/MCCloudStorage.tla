--------------------------- MODULE MCCloudStorage ---------------------------
(* Two projects whose uploads can each fill the quota, so that commits     *)
(* that overlap overrun it; an upload that is too large; and resources     *)
(* with one path.                                                          *)
EXTENDS CloudPages, TLC

CONSTANTS p1, p2, a, b, c, k1, k2

MCProjects == {p1, p2}
MCResources == {a, b, c}
MCObjectKeys == MCProjects \X {"ac", "b"}
MCKeyOf == [p \in MCProjects |-> [r \in MCResources |-> <<p, IF r = b THEN "b" ELSE "ac">>]]
MCSizeOf == [r \in MCResources |-> IF r = b THEN 5 ELSE 2]
MCContents == {{a, c}, {b}, {a, b}}
MCQuotaOf == [l \in Plans |-> IF l = "none" THEN 0 ELSE 5]
Symmetry == Permutations(MCProjects) \cup Permutations({k1, k2})
=============================================================================
