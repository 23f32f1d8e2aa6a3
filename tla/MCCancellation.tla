--------------------------- MODULE MCCancellation ---------------------------
(* Scripts of calls for model-checking Cancellation.                       *)
EXTENDS Cancellation

CONSTANTS k1, k2, r1, r2, w1, w2

Cancel(k) == [kind |-> "cancel", key |-> k]
Resume(k) == [kind |-> "resume", key |-> k]

\* New keys, resumes without a key, and the key of an earlier cancel given to a
\* later one.
MCScripts == {
  <<Cancel(k1), Resume(r1), Cancel(k2), Resume(r2)>>,
  <<Cancel(k1), Resume(NoKey), Cancel(k2), Resume(NoKey)>>,
  <<Cancel(k1), Resume(r1), Cancel(k1), Resume(r2)>> }

=============================================================================
