---------------------------- MODULE Cancellation ----------------------------
(***************************************************************************)
(* Cancelling and resuming one monthly subscription.  A request reads what *)
(* it needs, calls the payment provider, and then writes the cancellation  *)
(* row and the mark on the latest order in one transaction; the provider's *)
(* state and Walnut's can come apart in between.                           *)
(*                                                                         *)
(* The user follows a script of calls, each with its idempotency key, and  *)
(* sends a call again, possibly while the first try still runs, until it   *)
(* is answered with success; only then comes the next call.                *)
(***************************************************************************)
EXTENDS Plans

CONSTANTS
  Workers,      \* requests that can be open together
  Scripts,      \* the sequences of calls [kind, key] a user may follow
  NoKey,        \* an idempotency key that is left empty
  Period,       \* length of a paid period
  MaxTime,
  MaxFaults     \* bound: failures of the provider, the database or the server

ASSUME PeriodAssumption == Period \in Nat \ {0} /\ MaxTime \in Nat /\ MaxFaults \in Nat

ASSUME ScriptsAssumption ==
  \A s \in Scripts : Len(s) \in Nat /\ DOMAIN s = 1..Len(s)
                     /\ \A i \in DOMAIN s : s[i].kind \in {"cancel", "resume"}

VARIABLES
  now,
  grants,       \* the user's grants of the monthly SKU
  orders,       \* the marks on the subscription's orders, oldest first
  rows,         \* the cancellation rows, oldest first
  provider,     \* the provider's subscription: active | scheduled (to end)
  billed,       \* the provider has charged a period that Walnut has not heard of
  script, turn, \* the user's calls and the one that is under way
  answered,     \* it has been answered with success
  open,         \* [Workers -> what a request is about to do]
  faults

vars == <<now, grants, orders, rows, provider, billed, script, turn, answered, open, faults>>

Idle == "idle"
Mark == {"none", "cancel_at_period_end", "active"}

Call == script[turn]
Keyed(i, field) == rows[i][field] = Call.key /\ Call.key # NoKey

\* The rows under the call's key: at most one, as long as the client does not
\* give one key to two resumes.
RowOf(field) == {i \in DOMAIN rows : Keyed(i, field)}

HasPeriod == CancellableGrants(grants, now) # {}
PeriodEnd == Latest(CancellableGrants(grants, now))

Projected == Projection(grants, rows, now).status
Wanted == IF Call.kind = "cancel" THEN "cancel_at_period_end" ELSE "active"

-----------------------------------------------------------------------------
Grant(from) == [entitlement |-> "editorial_studio", source |-> "fulfillment", status |-> "active",
                starts |-> from, expires |-> from + Period]

Init ==
  /\ now = 0
  /\ grants = {Grant(0)}
  /\ orders = <<"none">>
  /\ rows = <<>>
  /\ provider = "active"
  /\ billed = FALSE
  /\ script \in Scripts /\ turn = 1
  /\ answered = FALSE
  /\ open = [w \in Workers |-> Idle]
  /\ faults = 0

Goes(w, pc) == open' = [open EXCEPT ![w] = pc]
Ends(w) == open' = [open EXCEPT ![w] = Idle]
Fault == faults < MaxFaults /\ faults' = faults + 1

\* Mutation: the key alone decides, whatever became of its row since.
AlreadyRecorded_AnyStatus == RowOf(IF Call.kind = "cancel" THEN "key" ELSE "resumeKey") # {}

\* The provider need not be told of what is already recorded under the call's key.
AlreadyRecorded ==
  IF Call.kind = "cancel"
    THEN \E i \in RowOf("key") : rows[i].active
    ELSE \E i \in RowOf("resumeKey") : ~rows[i].active

\* A request arrives and reads what it needs before the provider's call.  A
\* call that finds no period, or a resume with nothing to resume, is refused.
Prepare(w) ==
  /\ turn <= Len(script) /\ ~answered
  /\ open[w] = Idle
  /\ HasPeriod \/ (Call.kind = "cancel" /\ AlreadyRecorded)
  /\ AlreadyRecorded \/ Call.kind = "cancel" \/ FindActive(rows, now) # {}
  /\ Goes(w, IF AlreadyRecorded THEN "record" ELSE "tell")
  /\ UNCHANGED <<now, grants, orders, rows, provider, billed, script, turn, answered, faults>>

\* The provider does what it is asked for; asking again changes nothing.
Tell(w) ==
  /\ open[w] = "tell"
  /\ provider' = IF Call.kind = "cancel" THEN "scheduled" ELSE "active"
  /\ Goes(w, "record")
  /\ UNCHANGED <<now, grants, orders, rows, billed, script, turn, answered, faults>>

\* The provider refuses, or it obeys and its answer is lost: an error for the
\* caller either way, and nothing is written.
TellFails(w) ==
  /\ open[w] = "tell"
  /\ Fault
  /\ provider' \in {provider, IF Call.kind = "cancel" THEN "scheduled" ELSE "active"}
  /\ Ends(w)
  /\ UNCHANGED <<now, grants, orders, rows, billed, script, turn, answered>>

MarkOrder == orders' = [orders EXCEPT ![Len(orders)] = Wanted]

DefaultKey(kind) == <<kind, PeriodEnd>>

Activated(row) == [row EXCEPT !.active = TRUE, !.periodEnd = PeriodEnd]

NewRow == [key |-> IF Call.key = NoKey THEN DefaultKey("cancel") ELSE Call.key,
           resumeKey |-> NoKey, active |-> TRUE, periodEnd |-> PeriodEnd]

\* What is committed stays, also when the answer does not reach the user.
Answers ==
  \/ answered' = TRUE /\ UNCHANGED faults
  \/ Fault /\ UNCHANGED answered

\* Mutation: a row is added without a look at the key.
RecordCancel_AlwaysNew(w) ==
  /\ open[w] = "record" /\ Call.kind = "cancel"
  /\ HasPeriod
  /\ MarkOrder
  /\ rows' = Append(rows, NewRow)
  /\ Answers
  /\ Ends(w)
  /\ UNCHANGED <<now, grants, provider, billed, script, turn>>

\* Mutation: the row under the key is answered as it is, also after a resume.
RecordCancel_NotReactivated(w) ==
  /\ open[w] = "record" /\ Call.kind = "cancel"
  /\ HasPeriod
  /\ MarkOrder
  /\ rows' = IF \E i \in DOMAIN rows : rows[i].key = NewRow.key THEN rows ELSE Append(rows, NewRow)
  /\ Answers
  /\ Ends(w)
  /\ UNCHANGED <<now, grants, provider, billed, script, turn>>

\* The transaction of a cancel.  When the new row's key is taken, the row that
\* has it is answered as it is.
RecordCancel(w) ==
  /\ open[w] = "record" /\ Call.kind = "cancel"
  /\ HasPeriod
  /\ MarkOrder
  /\ \/ \E i \in RowOf("key") : rows' = IF rows[i].active THEN rows ELSE [rows EXCEPT ![i] = Activated(rows[i])]
     \/ /\ RowOf("key") = {}
        /\ rows' = IF \E i \in DOMAIN rows : rows[i].key = NewRow.key THEN rows ELSE Append(rows, NewRow)
  /\ Answers
  /\ Ends(w)
  /\ UNCHANGED <<now, grants, provider, billed, script, turn>>

\* Mutation: a resume leaves the row's flag.
Deactivated_KeepsFlag(row) == [row EXCEPT !.resumeKey = Call.key]

Deactivated(row) ==
  [row EXCEPT !.active = FALSE,
              !.resumeKey = IF Call.key = NoKey THEN <<"resume", row.periodEnd>> ELSE Call.key]

\* Mutation: a resume is looked up by its key only.
Resumable_KeyOnly == RowOf("resumeKey")

\* The row a resume is about: the one under its key, else the one FindActive returns.
Resumable == IF RowOf("resumeKey") # {} THEN RowOf("resumeKey") ELSE FindActive(rows, now)

\* The transaction of a resume.
RecordResume(w) ==
  /\ open[w] = "record" /\ Call.kind = "resume"
  /\ HasPeriod
  /\ \E i \in Resumable :
       rows' = IF rows[i].active THEN [rows EXCEPT ![i] = Deactivated(rows[i])] ELSE rows
  /\ MarkOrder
  /\ Answers
  /\ Ends(w)
  /\ UNCHANGED <<now, grants, provider, billed, script, turn>>

\* The transaction finds no period, or nothing to resume, and is rolled back.
RecordRefused(w) ==
  /\ open[w] = "record"
  /\ ~HasPeriod \/ (Call.kind = "resume" /\ Resumable = {})
  /\ Ends(w)
  /\ UNCHANGED <<now, grants, orders, rows, provider, billed, script, turn, answered, faults>>

\* The transaction fails, or the server dies before it: the provider keeps what
\* it was told.
RecordFails(w) ==
  /\ open[w] = "record"
  /\ Fault
  /\ Ends(w)
  /\ UNCHANGED <<now, grants, orders, rows, provider, billed, script, turn, answered>>

\* The user goes on to the next call once this one is answered and none of its
\* tries is left.
NextCall ==
  /\ turn <= Len(script)
  /\ \A w \in Workers : open[w] = Idle
  /\ answered
  /\ turn' = turn + 1
  /\ answered' = FALSE
  /\ UNCHANGED <<now, grants, orders, rows, provider, billed, script, open, faults>>

-----------------------------------------------------------------------------
(* The provider charges the next period just before the end of this one,   *)
(* and Walnut hears of it then or later; Renewal models what it then does. *)

LastEnd == Latest(grants)

Bill ==
  /\ provider = "active" /\ ~billed
  /\ now + 1 = LastEnd
  /\ billed' = TRUE
  /\ UNCHANGED <<now, grants, orders, rows, provider, script, turn, answered, open, faults>>

Renewed ==
  /\ billed
  /\ grants' = grants \cup {Grant(LastEnd)}
  /\ orders' = Append(orders, "none")
  /\ billed' = FALSE
  /\ UNCHANGED <<now, rows, provider, script, turn, answered, open, faults>>

Tick ==
  /\ now < MaxTime
  /\ now' = now + 1
  /\ UNCHANGED <<grants, orders, rows, provider, billed, script, turn, answered, open, faults>>

Next ==
  \/ \E w \in Workers : \/ Prepare(w) \/ Tell(w) \/ TellFails(w)
                        \/ RecordCancel(w) \/ RecordResume(w) \/ RecordRefused(w) \/ RecordFails(w)
  \/ NextCall
  \/ Bill \/ Renewed \/ Tick

Spec == Init /\ [][Next]_vars

\* The user tries again until the call is answered, a request that is under way
\* goes on, and a webhook of the provider arrives some time; time may stop.
FairSpec ==
  /\ Spec
  /\ \A w \in Workers : WF_vars(Prepare(w) \/ Tell(w) \/ RecordCancel(w) \/ RecordResume(w) \/ RecordRefused(w))
  /\ WF_vars(NextCall)
  /\ WF_vars(Renewed)

-----------------------------------------------------------------------------
(* Properties.                                                             *)

\* Every variable has its type; the key of a row is unique.
TypeOK ==
  /\ now \in 0..MaxTime
  /\ orders \in Seq(Mark)
  /\ \A i \in DOMAIN rows : rows[i].active \in BOOLEAN /\ rows[i].periodEnd \in Nat
  /\ \A i, j \in DOMAIN rows : rows[i].key = rows[j].key => i = j
  /\ provider \in {"active", "scheduled"}
  /\ turn \in 1..Len(script) + 1
  /\ \A w \in Workers : open[w] \in {"idle", "tell", "record"}
  /\ faults \in 0..MaxFaults

\* When a call has been answered and none of its tries is left open, the
\* provider, the rows and the call agree, whatever failed on the way.
AnswerIsTrue ==
  answered /\ (\A w \in Workers : open[w] = Idle) =>
    /\ provider = IF Call.kind = "cancel" THEN "scheduled" ELSE "active"
    /\ (Call.kind = "cancel") <=> \E i \in DOMAIN rows : rows[i].active

\* Tries that overlap, retries and keys never leave two rows that both say the
\* subscription is cancelled: a resume could not lift both.
OneActiveRow == Cardinality({i \in DOMAIN rows : rows[i].active}) <= 1

\* Walnut never records that the subscription ends, or goes on, before the
\* provider has been told so.
ProviderFirst ==
  [][\A i \in DOMAIN rows' :
       (IF i \in DOMAIN rows THEN rows'[i].active # rows[i].active ELSE TRUE)
         => provider = IF rows'[i].active THEN "scheduled" ELSE "active"]_rows

\* A user who tries again until it works gets every call through, unless the
\* subscription runs out or, by the end of the old period, already is as wanted.
EveryCallSettles ==
  <>(turn > Len(script)) \/ <>[](turn \in DOMAIN script => ~HasPeriod \/ Projected = Wanted)
=============================================================================
