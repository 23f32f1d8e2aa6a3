------------------------- MODULE SubscriptionProofs -------------------------
(***************************************************************************)
(* The life of a subscription, in two halves that share nothing but this   *)
(* file.                                                                   *)
(*                                                                         *)
(* Cancellation.  For every number of requests, every script in which      *)
(* cancels and resumes alternate, and whatever fails: at most one row says *)
(* that the subscription is cancelled, an answered call is true of the     *)
(* provider and of the rows, and Walnut records nothing the provider has   *)
(* not been told.                                                          *)
(*                                                                         *)
(* Renewal (from PaidWhen on).  For every set of events and of requests,   *)
(* and whatever fails: a payment gets the buyer one period, what an event  *)
(* is reported to have done has been done, days of grace run their course, *)
(* and, as long as payments are fulfilled in time, the paid periods fit.   *)
(***************************************************************************)
EXTENDS Cancellation, Renewal, SequenceTheorems, FiniteSetTheorems,
        WellFoundedInduction, NaturalsInduction, TLAPS

\* How a user calls who only cancels what goes on and only resumes what ends:
\* cancels carry a key, a resume a new one or none, and no user's key is one of
\* those Walnut makes up.  A script otherwise may leave two active rows, or a
\* call that is answered and not recorded (README, Observations).
Alternates ==
  \A s \in Scripts :
    /\ \A i \in DOMAIN s : i + 1 \in DOMAIN s => s[i].kind # s[i + 1].kind
    /\ \A i \in DOMAIN s : s[i].kind = "cancel" => s[i].key # NoKey
    /\ \A i \in DOMAIN s : s[i].key \notin {"resume"} \X Nat
    /\ \A i, j \in DOMAIN s :
         s[i].kind = "resume" /\ s[j].kind = "resume" /\ s[i].key = s[j].key /\ i # j => s[i].key = NoKey

-----------------------------------------------------------------------------
(* The invariant.                                                          *)

RowKeys == {NoKey} \cup (UNION {{s[i].key : i \in DOMAIN s} : s \in Scripts})
             \cup ({"cancel"} \X Nat) \cup ({"resume"} \X Nat)

Row == [key : RowKeys, resumeKey : RowKeys, active : BOOLEAN, periodEnd : Nat]

\* The user's periods have ends, of which one is the last.
GrantsOK ==
  /\ \A g \in grants : /\ g.expires \in Nat
                       /\ g.source = "fulfillment" /\ g.status = "active" /\ Software(g)
  /\ \E h \in grants : \A g \in grants : g.expires <= h.expires

KeysUnique == \A i, j \in DOMAIN rows : rows[i].key = rows[j].key => i = j

Shapes ==
  /\ now \in 0..MaxTime /\ faults \in 0..MaxFaults
  /\ GrantsOK
  /\ orders \in Seq(Mark) /\ Len(orders) >= 1
  /\ rows \in Seq(Row) /\ KeysUnique
  /\ provider \in {"active", "scheduled"}
  /\ script \in Scripts /\ turn \in 1..Len(script) + 1
  /\ answered \in BOOLEAN
  /\ open \in [Workers -> {"idle", "tell", "record"}]
  /\ turn > Len(script) => ~answered /\ \A w \in Workers : open[w] = Idle

SomeActive == \E i \in DOMAIN rows : rows[i].active

AtMostOneActive == \A i, j \in DOMAIN rows : rows[i].active /\ rows[j].active => i = j

\* The key of a resume stands in no row before its turn.
ResumesPast ==
  \A i \in DOMAIN rows :
    \/ rows[i].resumeKey = NoKey
    \/ rows[i].resumeKey \in {"resume"} \X Nat
    \/ \E j \in DOMAIN script :
         j <= turn /\ script[j].kind = "resume" /\ rows[i].resumeKey = script[j].key

\* While the user cancels, a row that is active is the call's, and the provider
\* was told before.
Cancelling ==
  /\ \A i \in DOMAIN rows : rows[i].active => rows[i].key = Call.key
  /\ answered => SomeActive
  /\ SomeActive \/ (\E w \in Workers : open[w] = "record") => provider = "scheduled"

\* While the user resumes, the row with the call's key, or an answer, says that
\* nothing is active any more, and the provider was told before.
Resuming ==
  /\ answered \/ RowOf("resumeKey") # {} => ~SomeActive /\ provider = "active"
  /\ (\E w \in Workers : open[w] = "record") => provider = "active"

Turns ==
  /\ AtMostOneActive
  /\ ResumesPast
  /\ turn \in DOMAIN script /\ Call.kind = "cancel" => Cancelling
  /\ turn \in DOMAIN script /\ Call.kind = "resume" => Resuming

IInv == Shapes /\ Turns

-----------------------------------------------------------------------------
(* The calls and the periods.                                              *)

LEMMA CallKnown ==
  ASSUME Shapes
  PROVE  /\ Len(script) \in Nat /\ DOMAIN script = 1..Len(script)
         /\ turn \in Nat \ {0} /\ turn <= Len(script) + 1
         /\ turn \in DOMAIN script => Call.kind \in {"cancel", "resume"} /\ Call.key \in RowKeys
<1>1. script \in Scripts /\ turn \in 1..Len(script) + 1
  BY DEF Shapes
<1>2. Len(script) \in Nat /\ DOMAIN script = 1..Len(script)
      /\ \A i \in DOMAIN script : script[i].kind \in {"cancel", "resume"}
  BY <1>1, ScriptsAssumption
<1>3. \A i \in DOMAIN script : script[i].key \in RowKeys
  <2>1. ASSUME NEW i \in DOMAIN script PROVE script[i].key \in RowKeys
    <3>1. script[i].key \in {script[j].key : j \in DOMAIN script}
      OBVIOUS
    <3>2. script[i].key \in UNION {{s[j].key : j \in DOMAIN s} : s \in Scripts}
      BY <1>1, <3>1
    <3> QED
      BY <3>2, Zenon DEF RowKeys
  <2> QED
    BY <2>1
<1> QED
  BY <1>1, <1>2, <1>3 DEF Call

\* A request that is open belongs to a call.
LEMMA OpenCall ==
  ASSUME Shapes, NEW w \in Workers, open[w] # Idle
  PROVE  turn \in DOMAIN script
<1>1. Len(script) \in Nat /\ DOMAIN script = 1..Len(script) /\ turn \in 1..Len(script) + 1
  BY CallKnown DEF Shapes
<1>2. ~(turn > Len(script))
  BY DEF Shapes
<1> QED
  BY <1>1, <1>2

LEMMA GreatestOf ==
  ASSUME NEW S \in SUBSET Nat, NEW m \in S, \A x \in S : x <= m
  PROVE  Greatest(S) \in S /\ \A x \in S : x <= Greatest(S)
<1>1. \E y \in S : \A x \in S : x <= y
  OBVIOUS
<1> QED
  BY <1>1 DEF Greatest

LEMMA LastGrant ==
  ASSUME GrantsOK
  PROVE  LastEnd \in Nat /\ \A g \in grants : g.expires <= LastEnd
<1>1. PICK h \in grants : \A g \in grants : g.expires <= h.expires
  BY DEF GrantsOK
<1>2. PICK S : S = {g.expires : g \in grants}
  OBVIOUS
<1>3. S \in SUBSET Nat /\ h.expires \in S /\ \A x \in S : x <= h.expires
  BY <1>1, <1>2 DEF GrantsOK
<1>4. Greatest(S) \in S /\ \A x \in S : x <= Greatest(S)
  BY <1>3, GreatestOf
<1> QED
  BY <1>2, <1>3, <1>4 DEF LastEnd, Latest

LEMMA PeriodEnds ==
  ASSUME Shapes, HasPeriod PROVE PeriodEnd \in Nat
<1>1. PICK h \in grants : \A g \in grants : g.expires <= h.expires
  BY DEF Shapes, GrantsOK
<1>2. PICK G : G = CancellableGrants(grants, now)
  OBVIOUS
<1>3. G \subseteq grants /\ G # {} /\ \A g \in G : g.expires > now
  BY <1>2 DEF HasPeriod, CancellableGrants
<1>4. \A g \in grants : g.expires \in Nat /\ g.expires # Never /\ g.expires \in Int
  BY NeverAssumption DEF Shapes, GrantsOK
<1>5. now \in Int
  BY PeriodAssumption DEF Shapes
<1>6. h.expires > now
  <2>1. PICK g \in G : g.expires > now
    BY <1>3
  <2> QED
    BY <1>1, <1>3, <1>4, <1>5, <2>1
<1>7. h \in G
  BY <1>2, <1>4, <1>6 DEF CancellableGrants, Shapes, GrantsOK
<1>8. PICK S : S = {g.expires : g \in G}
  OBVIOUS
<1>9. S \in SUBSET Nat /\ h.expires \in S /\ \A x \in S : x <= h.expires
  BY <1>1, <1>3, <1>4, <1>7, <1>8
<1>10. Greatest(S) \in Nat
  BY <1>9, GreatestOf
<1> QED
  BY <1>2, <1>8, <1>10 DEF PeriodEnd, Latest

-----------------------------------------------------------------------------
(* Steps that write no row.                                                *)

\* What the provider is to be told in this call.
Target == IF Call.kind = "cancel" THEN "scheduled" ELSE "active"

LEMMA FaultCounts ==
  ASSUME Shapes, Fault PROVE faults' \in 0..MaxFaults
BY PeriodAssumption DEF Shapes, Fault

\* A request goes on or ends, and is about to write only when the provider does
\* what it is to be told.
LEMMA RequestKeeps ==
  ASSUME IInv, turn \in DOMAIN script, NEW w \in Workers, NEW pc \in {"idle", "tell", "record"}, Goes(w, pc),
         provider' = provider \/ provider' = Target,
         pc = "record" => provider' = Target,
         faults' \in 0..MaxFaults,
         UNCHANGED <<now, grants, orders, rows, billed, script, turn, answered>>
  PROVE  IInv'
<1>1. Shapes /\ Turns /\ Call' = Call
  BY DEF IInv, Call
<1>2. Call.kind \in {"cancel", "resume"} /\ ~(turn > Len(script))
  BY <1>1, CallKnown
<1>3. open' \in [Workers -> {"idle", "tell", "record"}]
  BY <1>1 DEF Goes, Shapes
<1>4. provider' \in {"active", "scheduled"}
  BY <1>1 DEF Target, Shapes
<1>5. Shapes'
  BY <1>1, <1>2, <1>3, <1>4 DEF Shapes, GrantsOK, KeysUnique
<1>6. AtMostOneActive' /\ ResumesPast' /\ (SomeActive' <=> SomeActive) /\ RowOf("resumeKey")' = RowOf("resumeKey")
  BY <1>1 DEF Turns, AtMostOneActive, ResumesPast, SomeActive, RowOf, Keyed, Call
<1>7. (\E u \in Workers : open'[u] = "record") => pc = "record" \/ \E u \in Workers : open[u] = "record"
  BY <1>1 DEF Goes, Shapes
<1>8. ASSUME Call.kind = "cancel" PROVE Cancelling'
  <2>1. Cancelling /\ Target = "scheduled"
    BY <1>1, <1>8 DEF Turns, Target
  <2>2. SomeActive \/ (\E u \in Workers : open'[u] = "record") => provider' = "scheduled"
    BY <1>7, <2>1 DEF Cancelling
  <2> QED
    BY <1>1, <1>6, <2>1, <2>2 DEF Cancelling
<1>9. ASSUME Call.kind = "resume" PROVE Resuming'
  <2>1. Resuming /\ Target = "active"
    BY <1>1, <1>9 DEF Turns, Target
  <2>2. (\E u \in Workers : open'[u] = "record") => provider' = "active"
    BY <1>7, <2>1 DEF Resuming
  <2>3. answered \/ RowOf("resumeKey") # {} => ~SomeActive /\ provider' = "active"
    BY <2>1 DEF Resuming
  <2> QED
    BY <1>6, <2>2, <2>3 DEF Resuming
<1> QED
  BY <1>1, <1>5, <1>6, <1>8, <1>9 DEF IInv, Turns

LEMMA PrepareKeeps ==
  ASSUME IInv, NEW w \in Workers, Prepare(w) PROVE IInv'
<1>1. Shapes /\ Turns
  BY DEF IInv
<1>2. turn \in DOMAIN script /\ Call.kind \in {"cancel", "resume"}
  BY <1>1, CallKnown DEF Prepare
<1>3. ASSUME AlreadyRecorded PROVE provider = Target
  <2>1. CASE Call.kind = "cancel"
    <3>1. SomeActive
      BY <1>3, <2>1 DEF AlreadyRecorded, RowOf, SomeActive
    <3> QED
      BY <1>1, <1>2, <2>1, <3>1 DEF Turns, Cancelling, Target
  <2>2. CASE Call.kind = "resume"
    <3>1. RowOf("resumeKey") # {}
      BY <1>3, <2>2 DEF AlreadyRecorded
    <3> QED
      BY <1>1, <1>2, <2>2, <3>1 DEF Turns, Resuming, Target
  <2> QED
    BY <1>2, <2>1, <2>2
<1>4. PICK pc \in {"tell", "record"} : pc = IF AlreadyRecorded THEN "record" ELSE "tell"
  OBVIOUS
<1>5. Goes(w, pc) /\ (pc = "record" => provider' = Target) /\ provider' = provider
  BY <1>3, <1>4 DEF Prepare
<1>6. faults' \in 0..MaxFaults
  BY <1>1 DEF Prepare, Shapes
<1> QED
  BY <1>2, <1>4, <1>5, <1>6, RequestKeeps DEF Prepare

LEMMA TellKeeps ==
  ASSUME IInv, NEW w \in Workers, Tell(w) \/ TellFails(w) PROVE IInv'
<1>1. Shapes
  BY DEF IInv
<1>2. turn \in DOMAIN script
  BY <1>1, OpenCall DEF Tell, TellFails, Idle
<1>3. UNCHANGED <<now, grants, orders, rows, billed, script, turn, answered>>
  BY DEF Tell, TellFails
<1>4. CASE Tell(w)
  <2>1. Goes(w, "record") /\ provider' = Target /\ faults' \in 0..MaxFaults
    BY <1>1, <1>4 DEF Tell, Target, Shapes
  <2> QED
    BY <1>2, <1>3, <2>1, RequestKeeps
<1>5. CASE TellFails(w)
  <2>1. Goes(w, "idle") /\ (provider' = provider \/ provider' = Target)
    BY <1>5 DEF TellFails, Target, Goes, Ends, Idle
  <2>2. faults' \in 0..MaxFaults
    BY <1>1, <1>5, FaultCounts DEF TellFails
  <2> QED
    BY <1>2, <1>3, <2>1, <2>2, RequestKeeps
<1> QED
  BY <1>4, <1>5

LEMMA RecordEndsKeeps ==
  ASSUME IInv, NEW w \in Workers, RecordRefused(w) \/ RecordFails(w) PROVE IInv'
<1>1. Shapes
  BY DEF IInv
<1>2. turn \in DOMAIN script
  BY <1>1, OpenCall DEF RecordRefused, RecordFails, Idle
<1>3. Goes(w, "idle") /\ provider' = provider
      /\ UNCHANGED <<now, grants, orders, rows, billed, script, turn, answered>>
  BY DEF RecordRefused, RecordFails, Goes, Ends, Idle
<1>4. faults' \in 0..MaxFaults
  <2>1. CASE RecordRefused(w)
    BY <1>1, <2>1 DEF RecordRefused, Shapes
  <2>2. CASE RecordFails(w)
    BY <1>1, <2>2, FaultCounts DEF RecordFails
  <2> QED
    BY <2>1, <2>2
<1> QED
  BY <1>2, <1>3, <1>4, RequestKeeps

-----------------------------------------------------------------------------
(* The transactions.                                                       *)

LEMMA RowWritten ==
  ASSUME rows \in Seq(Row), NEW i \in DOMAIN rows, NEW row \in Row, rows' = [rows EXCEPT ![i] = row]
  PROVE  /\ rows' \in Seq(Row) /\ DOMAIN rows' = DOMAIN rows
         /\ rows'[i] = row /\ \A j \in DOMAIN rows : j # i => rows'[j] = rows[j]
OBVIOUS

LEMMA RowAdded ==
  ASSUME rows \in Seq(Row), NEW row \in Row, rows' = Append(rows, row)
  PROVE  /\ rows' \in Seq(Row) /\ DOMAIN rows' = DOMAIN rows \cup {Len(rows) + 1}
         /\ Len(rows) + 1 \notin DOMAIN rows
         /\ rows'[Len(rows) + 1] = row /\ \A j \in DOMAIN rows : rows'[j] = rows[j]
OBVIOUS

LEMMA Marked ==
  ASSUME Shapes, MarkOrder PROVE orders' \in Seq(Mark) /\ Len(orders') >= 1
<1>1. PICK m \in Mark : m = Wanted
  BY DEF Wanted, Mark
<1>2. orders' = [orders EXCEPT ![Len(orders)] = m]
  BY <1>1 DEF MarkOrder
<1> QED
  BY <1>1, <1>2 DEF Shapes

LEMMA AnswersTyped ==
  ASSUME Shapes, Answers
  PROVE  faults' \in 0..MaxFaults /\ answered' \in BOOLEAN /\ (answered' => answered \/ answered' = TRUE)
<1>1. faults' \in 0..MaxFaults
  BY FaultCounts DEF Answers, Shapes
<1>2. answered' \in BOOLEAN
  BY Zenon DEF Answers, Shapes
<1> QED
  BY <1>1, <1>2

\* A request ends with the rows that its call wants.
LEMMA RecordKeeps ==
  ASSUME Shapes, NEW w \in Workers, open[w] = "record", rows' \in Seq(Row), KeysUnique',
         MarkOrder, Answers, Ends(w), UNCHANGED <<now, grants, provider, billed, script, turn>>
  PROVE  /\ Shapes' /\ turn \in DOMAIN script /\ Call' = Call
         /\ (\E u \in Workers : open'[u] = "record") => \E u \in Workers : open[u] = "record"
<1>1. turn \in DOMAIN script /\ Call' = Call
  BY OpenCall DEF Idle, Call
<1>2. ~(turn > Len(script))
  BY <1>1, CallKnown
<1>3. /\ open' \in [Workers -> {"idle", "tell", "record"}]
      /\ (\E u \in Workers : open'[u] = "record") => \E u \in Workers : open[u] = "record"
  BY DEF Shapes, Ends, Idle
<1>4. Shapes'
  BY <1>2, <1>3, Marked, AnswersTyped DEF Shapes, GrantsOK
<1> QED
  BY <1>1, <1>3, <1>4

\* A cancel's transaction leaves the call's row active, and no other.
LEMMA CancelWrites ==
  ASSUME Shapes, Turns, NEW w \in Workers, RecordCancel(w), Call.key # NoKey
  PROVE  /\ rows' \in Seq(Row) /\ KeysUnique'
         /\ \A j \in DOMAIN rows' : rows'[j].active => rows'[j].key = Call.key
         /\ \E j \in DOMAIN rows' : rows'[j].active
         /\ \A j \in DOMAIN rows' :
              \/ rows'[j].resumeKey = NoKey
              \/ j \in DOMAIN rows /\ rows'[j].resumeKey = rows[j].resumeKey
         /\ \A j \in DOMAIN rows' :
              rows'[j].active \/ (j \in DOMAIN rows /\ rows'[j].active = rows[j].active)
<1>1. rows \in Seq(Row) /\ KeysUnique /\ turn \in DOMAIN script
  BY OpenCall DEF Shapes, RecordCancel, Idle
<1>2. Cancelling /\ PeriodEnd \in Nat /\ Call.key \in RowKeys
  BY <1>1, PeriodEnds, CallKnown DEF Turns, RecordCancel
<1>3. ASSUME NEW i \in RowOf("key"), rows[i].active, rows' = rows
      PROVE  /\ \A j \in DOMAIN rows' : rows'[j].active => rows'[j].key = Call.key
             /\ \E j \in DOMAIN rows' : rows'[j].active
    BY <1>2, <1>3 DEF Cancelling, RowOf
<1>4. ASSUME NEW i \in RowOf("key"), ~rows[i].active, rows' = [rows EXCEPT ![i] = Activated(rows[i])]
      PROVE  /\ rows' \in Seq(Row) /\ KeysUnique' /\ DOMAIN rows' = DOMAIN rows
             /\ \A j \in DOMAIN rows' : rows'[j].active => rows'[j].key = Call.key
             /\ rows'[i].active /\ i \in DOMAIN rows
             /\ \A j \in DOMAIN rows : rows'[j].resumeKey = rows[j].resumeKey
             /\ \A j \in DOMAIN rows : j # i => rows'[j].active = rows[j].active
  <2>1. PICK row : row = Activated(rows[i])
    OBVIOUS
  <2>2. i \in DOMAIN rows /\ rows[i] \in Row /\ rows[i].key = Call.key
    BY <1>1, <1>4 DEF RowOf, Keyed
  <2>3. row \in Row /\ row.active /\ row.key = rows[i].key /\ row.resumeKey = rows[i].resumeKey
    BY <1>2, <2>1, <2>2 DEF Activated, Row
  <2>4. /\ rows' \in Seq(Row) /\ DOMAIN rows' = DOMAIN rows
        /\ rows'[i] = row /\ \A j \in DOMAIN rows : j # i => rows'[j] = rows[j]
    BY <1>1, <1>4, <2>1, <2>2, <2>3, RowWritten
  <2>5. \A j \in DOMAIN rows : rows'[j].key = rows[j].key
    BY <2>3, <2>4
  <2>6. KeysUnique'
    BY <1>1, <2>4, <2>5 DEF KeysUnique
  <2> QED
    BY <1>2, <2>2, <2>3, <2>4, <2>6 DEF Cancelling
<1>5. ASSUME RowOf("key") = {},
             rows' = IF \E i \in DOMAIN rows : rows[i].key = NewRow.key THEN rows ELSE Append(rows, NewRow)
      PROVE  /\ rows' \in Seq(Row) /\ KeysUnique'
             /\ DOMAIN rows' = DOMAIN rows \cup {Len(rows) + 1}
             /\ \A j \in DOMAIN rows' : rows'[j].active => rows'[j].key = Call.key
             /\ rows'[Len(rows) + 1].active /\ rows'[Len(rows) + 1].resumeKey = NoKey
             /\ \A j \in DOMAIN rows : rows'[j] = rows[j]
  <2>1. PICK row : row = NewRow
    OBVIOUS
  <2>2. /\ row.key = Call.key /\ row.active /\ row.resumeKey = NoKey /\ row \in Row
    BY <1>2, <2>1 DEF NewRow, Row, RowKeys
  <2>3. \A i \in DOMAIN rows : rows[i].key # row.key
    BY <1>5, <2>2 DEF RowOf, Keyed
  <2>4. rows' = Append(rows, row)
    BY <1>5, <2>1, <2>3
  <2>5. /\ rows' \in Seq(Row) /\ DOMAIN rows' = DOMAIN rows \cup {Len(rows) + 1}
        /\ rows'[Len(rows) + 1] = row /\ \A j \in DOMAIN rows : rows'[j] = rows[j]
    BY <1>1, <2>2, <2>4, RowAdded
  <2>6. KeysUnique'
    BY <1>1, <2>3, <2>5 DEF KeysUnique
  <2> QED
    BY <1>2, <2>2, <2>5, <2>6 DEF Cancelling
<1>6. \/ \E i \in RowOf("key") : rows' = IF rows[i].active THEN rows ELSE [rows EXCEPT ![i] = Activated(rows[i])]
      \/ /\ RowOf("key") = {}
         /\ rows' = IF \E i \in DOMAIN rows : rows[i].key = NewRow.key THEN rows ELSE Append(rows, NewRow)
  BY DEF RecordCancel
<1>7. CASE \E i \in RowOf("key") : rows[i].active /\ rows' = rows
  BY <1>1, <1>3, <1>7 DEF KeysUnique
<1>8. CASE \E i \in RowOf("key") : ~rows[i].active /\ rows' = [rows EXCEPT ![i] = Activated(rows[i])]
  BY <1>4, <1>8
<1>9. CASE RowOf("key") = {}
  BY <1>5, <1>6, <1>9
<1> QED
  BY <1>6, <1>7, <1>8, <1>9

LEMMA RecordCancelKeeps ==
  ASSUME Alternates, IInv, NEW w \in Workers, RecordCancel(w) PROVE IInv'
<1>1. Shapes /\ Turns
  BY DEF IInv
<1>2. open[w] = "record" /\ Call.kind = "cancel" /\ MarkOrder /\ Answers /\ Ends(w)
      /\ UNCHANGED <<now, grants, provider, billed, script, turn>>
  BY DEF RecordCancel
<1>3. turn \in DOMAIN script
  BY <1>1, <1>2, OpenCall DEF Idle
<1>4. Call.key # NoKey
  BY <1>1, <1>2, <1>3 DEF Alternates, Shapes, Call
<1>5. /\ rows' \in Seq(Row) /\ KeysUnique'
      /\ \A j \in DOMAIN rows' : rows'[j].active => rows'[j].key = Call.key
      /\ \E j \in DOMAIN rows' : rows'[j].active
      /\ \A j \in DOMAIN rows' :
           rows'[j].resumeKey = NoKey \/ (j \in DOMAIN rows /\ rows'[j].resumeKey = rows[j].resumeKey)
  BY <1>1, <1>4, CancelWrites
<1>6. Shapes' /\ Call' = Call
  BY <1>1, <1>2, <1>5, RecordKeeps
<1>7. AtMostOneActive'
  BY <1>5 DEF AtMostOneActive, KeysUnique
<1>8. ResumesPast'
  BY <1>1, <1>2, <1>5 DEF Turns, ResumesPast
<1>9. provider' = "scheduled"
  BY <1>1, <1>2, <1>3 DEF Turns, Cancelling
<1>10. Cancelling'
  BY <1>5, <1>6, <1>9 DEF Cancelling, SomeActive
<1> QED
  BY <1>2, <1>6, <1>7, <1>8, <1>10 DEF IInv, Turns

\* A resume's transaction leaves no row active.
LEMMA ResumeWrites ==
  ASSUME Shapes, Turns, NEW w \in Workers, RecordResume(w)
  PROVE  /\ rows' \in Seq(Row) /\ KeysUnique'
         /\ DOMAIN rows' = DOMAIN rows
         /\ \A j \in DOMAIN rows : ~rows'[j].active
         /\ \A j \in DOMAIN rows :
              \/ rows'[j].resumeKey = rows[j].resumeKey
              \/ rows'[j].resumeKey = Call.key
              \/ rows'[j].resumeKey \in {"resume"} \X Nat
<1>1. rows \in Seq(Row) /\ KeysUnique /\ AtMostOneActive /\ turn \in DOMAIN script
  BY OpenCall DEF Shapes, Turns, RecordResume, Idle
<1>2. Resuming /\ Call.key \in RowKeys
  BY <1>1, CallKnown DEF Turns, RecordResume
<1>3. PICK i \in Resumable :
        rows' = IF rows[i].active THEN [rows EXCEPT ![i] = Deactivated(rows[i])] ELSE rows
  BY DEF RecordResume
<1>4. CASE RowOf("resumeKey") # {}
  <2>1. ~SomeActive
    BY <1>2, <1>4 DEF Resuming
  <2>2. i \in DOMAIN rows /\ ~rows[i].active
    BY <1>4, <2>1 DEF Resumable, RowOf, SomeActive
  <2>3. rows' = rows
    BY <1>3, <2>2
  <2> QED
    BY <1>1, <2>1, <2>3 DEF SomeActive, KeysUnique
<1>5. CASE RowOf("resumeKey") = {}
  <2>1. i \in DOMAIN rows /\ rows[i].active
    BY <1>5 DEF Resumable, FindActive
  <2>2. rows[i] \in Row
    BY <1>1, <2>1
  <2>3. PICK row : row = Deactivated(rows[i])
    OBVIOUS
  <2>4. PICK key : key = IF Call.key = NoKey THEN <<"resume", rows[i].periodEnd>> ELSE Call.key
    OBVIOUS
  <2>5. row = [rows[i] EXCEPT !.active = FALSE, !.resumeKey = key]
    BY <2>3, <2>4 DEF Deactivated
  <2>6. key = Call.key \/ key \in {"resume"} \X Nat
    BY <2>2, <2>4 DEF Row
  <2>7. key \in RowKeys
    BY <1>2, <2>6 DEF RowKeys
  <2>8. row \in Row /\ ~row.active /\ row.key = rows[i].key /\ row.resumeKey = key
    BY <2>2, <2>5, <2>7 DEF Row
  <2>9. rows' = [rows EXCEPT ![i] = row]
    BY <1>3, <2>1, <2>3
  <2>10. /\ rows' \in Seq(Row) /\ DOMAIN rows' = DOMAIN rows
         /\ rows'[i] = row /\ \A j \in DOMAIN rows : j # i => rows'[j] = rows[j]
    BY <1>1, <2>1, <2>8, <2>9, RowWritten
  <2>11. \A j \in DOMAIN rows : rows'[j].key = rows[j].key
    BY <2>8, <2>10
  <2>12. KeysUnique'
    BY <1>1, <2>10, <2>11 DEF KeysUnique
  <2>13. \A j \in DOMAIN rows : ~rows'[j].active
    BY <1>1, <2>1, <2>8, <2>10 DEF AtMostOneActive
  <2> QED
    BY <2>6, <2>8, <2>10, <2>12, <2>13
<1> QED
  BY <1>4, <1>5

LEMMA RecordResumeKeeps ==
  ASSUME IInv, NEW w \in Workers, RecordResume(w) PROVE IInv'
<1>1. Shapes /\ Turns
  BY DEF IInv
<1>2. open[w] = "record" /\ Call.kind = "resume" /\ MarkOrder /\ Answers /\ Ends(w)
      /\ UNCHANGED <<now, grants, provider, billed, script, turn>>
  BY DEF RecordResume
<1>3. turn \in DOMAIN script
  BY <1>1, <1>2, OpenCall DEF Idle
<1>4. /\ rows' \in Seq(Row) /\ KeysUnique' /\ DOMAIN rows' = DOMAIN rows
      /\ \A j \in DOMAIN rows : ~rows'[j].active
      /\ \A j \in DOMAIN rows :
           \/ rows'[j].resumeKey = rows[j].resumeKey
           \/ rows'[j].resumeKey = Call.key
           \/ rows'[j].resumeKey \in {"resume"} \X Nat
  BY <1>1, ResumeWrites
<1>5. Shapes' /\ Call' = Call
  BY <1>1, <1>2, <1>4, RecordKeeps
<1>6. AtMostOneActive' /\ ~SomeActive'
  BY <1>4 DEF AtMostOneActive, SomeActive
<1>7. ResumesPast'
  <2>1. turn <= turn /\ script[turn] = Call
    BY <1>1, CallKnown DEF Call
  <2>2. ASSUME NEW j \in DOMAIN rows
        PROVE  \/ rows'[j].resumeKey = NoKey
               \/ rows'[j].resumeKey \in {"resume"} \X Nat
               \/ \E i \in DOMAIN script :
                    i <= turn /\ script[i].kind = "resume" /\ rows'[j].resumeKey = script[i].key
    <3>1. CASE rows'[j].resumeKey = rows[j].resumeKey
      BY <1>1, <3>1 DEF Turns, ResumesPast
    <3>2. CASE rows'[j].resumeKey = Call.key
      BY <1>2, <1>3, <2>1, <3>2
    <3> QED
      BY <1>4, <3>1, <3>2
  <2> QED
    BY <1>2, <1>4, <2>2 DEF ResumesPast
<1>8. provider' = "active"
  BY <1>1, <1>2, <1>3 DEF Turns, Resuming
<1>9. Resuming'
  BY <1>6, <1>8 DEF Resuming
<1> QED
  BY <1>2, <1>5, <1>6, <1>7, <1>9 DEF IInv, Turns

-----------------------------------------------------------------------------
(* The next call, and the provider's renewals.                             *)

\* Before a resume's turn its key stands in no row.
LEMMA ResumeIsNew ==
  ASSUME Alternates, Shapes, ResumesPast, turn + 1 \in DOMAIN script,
         script[turn + 1].kind = "resume", NEW i \in DOMAIN rows,
         rows[i].resumeKey = script[turn + 1].key
  PROVE  script[turn + 1].key = NoKey
<1>1. script \in Scripts /\ turn \in Nat
  BY CallKnown DEF Shapes
<1>2. script[turn + 1].key \notin {"resume"} \X Nat
  BY <1>1 DEF Alternates
<1>3. CASE \E j \in DOMAIN script :
             j <= turn /\ script[j].kind = "resume" /\ rows[i].resumeKey = script[j].key
  <2>1. PICK j \in DOMAIN script :
          j <= turn /\ script[j].kind = "resume" /\ script[turn + 1].key = script[j].key
    BY <1>3
  <2>2. j # turn + 1
    BY <1>1, <2>1, CallKnown
  <2> QED
    BY <1>1, <2>1, <2>2 DEF Alternates
<1> QED
  BY <1>2, <1>3 DEF ResumesPast

LEMMA NextCallKeeps ==
  ASSUME Alternates, IInv, NextCall PROVE IInv'
<1>1. Shapes /\ Turns /\ script \in Scripts
  BY DEF IInv, Shapes
<1>2. /\ Len(script) \in Nat /\ DOMAIN script = 1..Len(script)
      /\ turn \in Nat \ {0} /\ turn <= Len(script)
      /\ turn \in DOMAIN script /\ Call.kind \in {"cancel", "resume"}
  BY <1>1, CallKnown DEF NextCall
<1>3. /\ turn' = turn + 1 /\ answered /\ answered' = FALSE /\ \A w \in Workers : open[w] = Idle
      /\ UNCHANGED <<now, grants, orders, rows, provider, billed, script, open, faults>>
  BY DEF NextCall
<1>4. Shapes'
  <2>1. answered' \in BOOLEAN /\ ~answered'
    BY <1>3
  <2>2. turn' \in 1..Len(script) + 1 /\ \A w \in Workers : open'[w] = Idle
    BY <1>2, <1>3
  <2>3. GrantsOK' /\ KeysUnique'
    BY <1>1, <1>3 DEF Shapes, GrantsOK, KeysUnique
  <2> QED
    BY <1>1, <1>3, <2>1, <2>2, <2>3 DEF Shapes
<1>5. AtMostOneActive'
  BY <1>1, <1>3 DEF Turns, AtMostOneActive
<1>6. ResumesPast'
  <2>1. \A j \in DOMAIN script : j <= turn => j <= turn + 1
    BY <1>2
  <2> QED
    BY <1>1, <1>3, <2>1 DEF Turns, ResumesPast
<1>7. Call' = script[turn + 1] /\ ~(\E w \in Workers : open'[w] = "record")
  BY <1>3 DEF Call, Idle
<1>8. ASSUME turn + 1 \in DOMAIN script, script[turn + 1].kind = "cancel" PROVE Cancelling'
  <2>1. Call.kind = "resume"
    BY <1>1, <1>2, <1>8 DEF Alternates, Call
  <2>2. ~SomeActive
    BY <1>1, <1>2, <1>3, <2>1 DEF Turns, Resuming
  <2> QED
    BY <1>3, <1>7, <2>2 DEF Cancelling, SomeActive
<1>9. ASSUME turn + 1 \in DOMAIN script, script[turn + 1].kind = "resume" PROVE Resuming'
  <2>1. \A i \in DOMAIN rows : rows[i].resumeKey = script[turn + 1].key => script[turn + 1].key = NoKey
    BY <1>1, <1>9, ResumeIsNew DEF Turns
  <2>2. RowOf("resumeKey")' = {}
    BY <1>3, <1>7, <2>1 DEF RowOf, Keyed
  <2> QED
    BY <1>3, <1>7, <2>2 DEF Resuming
<1> QED
  BY <1>3, <1>4, <1>5, <1>6, <1>7, <1>8, <1>9 DEF IInv, Turns

\* What goes on beside the calls.
LEMMA BesideKeeps ==
  ASSUME IInv, now' \in 0..MaxTime, GrantsOK', orders' \in Seq(Mark), Len(orders') >= 1,
         UNCHANGED <<rows, provider, script, turn, answered, open, faults>>
  PROVE  IInv'
<1>1. Shapes /\ Turns
  BY DEF IInv
<1>2. Shapes'
  BY <1>1 DEF Shapes, KeysUnique
<1>3. Turns'
  BY <1>1 DEF Turns, AtMostOneActive, ResumesPast, Cancelling, Resuming, SomeActive, RowOf, Keyed, Call
<1> QED
  BY <1>2, <1>3 DEF IInv

LEMMA NewGrant ==
  ASSUME NEW from \in Nat
  PROVE  LET g == Grant(from)
         IN  g.expires \in Nat /\ g.expires = from + Period
             /\ g.source = "fulfillment" /\ g.status = "active" /\ Software(g)
BY PeriodAssumption DEF Grant, Software, CurrentEntitlements

LEMMA RenewedKeeps ==
  ASSUME IInv, Renewed PROVE IInv'
<1>1. Shapes /\ GrantsOK
  BY DEF IInv, Shapes
<1>2. LastEnd \in Nat /\ \A g \in grants : g.expires <= LastEnd
  BY <1>1, LastGrant
<1>3. PICK new : new = Grant(LastEnd)
  OBVIOUS
<1>4. /\ new.expires \in Nat /\ new.expires = LastEnd + Period
      /\ new.source = "fulfillment" /\ new.status = "active" /\ Software(new)
  BY <1>2, <1>3, NewGrant
<1>5. grants' = grants \cup {new} /\ orders' = Append(orders, "none")
  BY <1>3 DEF Renewed
<1>6. \A g \in grants' : g.expires <= new.expires
  <2>1. Period \in Nat /\ \A g \in grants : g.expires \in Nat
    BY <1>1, PeriodAssumption DEF GrantsOK
  <2> QED
    BY <1>2, <1>4, <1>5, <2>1
<1>7. GrantsOK'
  BY <1>1, <1>4, <1>5, <1>6 DEF GrantsOK
<1>8. "none" \in Mark
  BY DEF Mark
<1>9. orders' \in Seq(Mark) /\ Len(orders') >= 1
  BY <1>1, <1>5, <1>8 DEF Shapes
<1>10. now' \in 0..MaxTime
  BY <1>1 DEF Renewed, Shapes
<1> QED
  BY <1>7, <1>9, <1>10, BesideKeeps DEF Renewed

LEMMA QuietKeeps ==
  ASSUME IInv, Bill \/ Tick \/ UNCHANGED vars PROVE IInv'
<1>1. Shapes
  BY DEF IInv
<1>2. UNCHANGED <<grants, orders, rows, provider, script, turn, answered, open, faults>>
  BY DEF Bill, Tick, vars
<1>3. now' = now \/ (now < MaxTime /\ now' = now + 1)
  BY DEF Bill, Tick, vars
<1>4. now' \in 0..MaxTime
  BY <1>1, <1>3, PeriodAssumption DEF Shapes
<1>5. GrantsOK' /\ orders' \in Seq(Mark) /\ Len(orders') >= 1
  BY <1>1, <1>2 DEF Shapes, GrantsOK
<1> QED
  BY <1>2, <1>4, <1>5, BesideKeeps

-----------------------------------------------------------------------------
LEMMA InitHolds == ASSUME Init PROVE IInv
<1>1. Len(script) \in Nat /\ script \in Scripts
  BY ScriptsAssumption DEF Init
<1>2. GrantsOK
  <2>1. PICK g : g = Grant(0)
    OBVIOUS
  <2>2. /\ g.expires \in Nat /\ g.source = "fulfillment" /\ g.status = "active" /\ Software(g)
    BY <2>1, NewGrant
  <2>3. grants = {g}
    BY <2>1 DEF Init
  <2> QED
    BY <2>2, <2>3 DEF GrantsOK
<1>3. orders \in Seq(Mark) /\ Len(orders) >= 1 /\ rows \in Seq(Row) /\ DOMAIN rows = {}
  BY DEF Init, Mark
<1>4. now \in 0..MaxTime /\ faults \in 0..MaxFaults /\ turn \in 1..Len(script) + 1
  BY <1>1, PeriodAssumption DEF Init
<1>5. open \in [Workers -> {"idle", "tell", "record"}] /\ \A w \in Workers : open[w] = Idle
  BY DEF Init, Idle
<1>6. ~answered /\ answered \in BOOLEAN /\ provider \in {"active", "scheduled"}
  BY DEF Init
<1>7. Shapes
  BY <1>1, <1>2, <1>3, <1>4, <1>5, <1>6 DEF Shapes, KeysUnique
<1>8. Turns
  BY <1>3, <1>5, <1>6 DEF Turns, AtMostOneActive, ResumesPast, Cancelling, Resuming, SomeActive, RowOf, Idle
<1> QED
  BY <1>7, <1>8 DEF IInv

LEMMA NextKeeps == ASSUME Alternates, IInv, [Next]_vars PROVE IInv'
<1>1. ASSUME NEW w \in Workers,
             \/ Prepare(w) \/ Tell(w) \/ TellFails(w)
             \/ RecordCancel(w) \/ RecordResume(w) \/ RecordRefused(w) \/ RecordFails(w)
      PROVE  IInv'
  BY <1>1, PrepareKeeps, TellKeeps, RecordCancelKeeps, RecordResumeKeeps, RecordEndsKeeps
<1>2. CASE NextCall
  BY <1>2, NextCallKeeps
<1>3. CASE Renewed
  BY <1>3, RenewedKeeps
<1>4. CASE Bill \/ Tick \/ UNCHANGED vars
  BY <1>4, QuietKeeps
<1> QED
  BY <1>1, <1>2, <1>3, <1>4 DEF Next

LEMMA AtMostOne ==
  ASSUME NEW S, \A x, y \in S : x = y PROVE Cardinality(S) <= 1
<1>1. CASE S = {}
  BY <1>1, FS_EmptySet
<1>2. CASE S # {}
  <2>1. PICK x : x \in S
    BY <1>2
  <2>2. S = {x}
    BY <2>1
  <2> QED
    BY <2>2, FS_Singleton
<1> QED
  BY <1>1, <1>2

LEMMA InvGives == ASSUME IInv PROVE TypeOK /\ AnswerIsTrue /\ OneActiveRow
<1>1. Shapes /\ Turns
  BY DEF IInv
<1>2. TypeOK
  <2>1. \A i \in DOMAIN rows : rows[i].active \in BOOLEAN /\ rows[i].periodEnd \in Nat
    <3> SUFFICES ASSUME NEW i \in DOMAIN rows PROVE rows[i].active \in BOOLEAN /\ rows[i].periodEnd \in Nat
      OBVIOUS
    <3>1. rows[i] \in Row
      BY <1>1 DEF Shapes
    <3>2. rows[i].active \in BOOLEAN
      BY <3>1, Zenon DEF Row
    <3>3. rows[i].periodEnd \in Nat
      BY <3>1 DEF Row
    <3> QED
      BY <3>2, <3>3
  <2> QED
    BY <1>1, <2>1 DEF Shapes, TypeOK, KeysUnique
<1>3. AnswerIsTrue
  <2> SUFFICES ASSUME answered, \A w \in Workers : open[w] = Idle
               PROVE  /\ provider = IF Call.kind = "cancel" THEN "scheduled" ELSE "active"
                      /\ (Call.kind = "cancel") <=> SomeActive
    BY DEF AnswerIsTrue, SomeActive
  <2>1. turn \in DOMAIN script /\ Call.kind \in {"cancel", "resume"}
    <3>1. ~(turn > Len(script))
      BY <1>1 DEF Shapes
    <3> QED
      BY <1>1, <3>1, CallKnown
  <2>2. CASE Call.kind = "cancel"
    BY <1>1, <2>1, <2>2 DEF Turns, Cancelling
  <2>3. CASE Call.kind = "resume"
    BY <1>1, <2>1, <2>3 DEF Turns, Resuming
  <2> QED
    BY <2>1, <2>2, <2>3
<1>4. OneActiveRow
  <2>1. PICK S : S = {i \in DOMAIN rows : rows[i].active}
    OBVIOUS
  <2>2. \A i, j \in S : i = j
    BY <1>1, <2>1 DEF Turns, AtMostOneActive
  <2>3. Cardinality(S) <= 1
    BY <2>2, AtMostOne
  <2> QED
    BY <2>1, <2>3 DEF OneActiveRow
<1> QED
  BY <1>2, <1>3, <1>4

\* A row changes only when a transaction ends, after the provider was told.
Follows ==
  \A i \in DOMAIN rows' :
    (IF i \in DOMAIN rows THEN rows'[i].active # rows[i].active ELSE TRUE)
      => provider = IF rows'[i].active THEN "scheduled" ELSE "active"

LEMMA RowsFollow == ASSUME Alternates, IInv, [Next]_vars PROVE rows' = rows \/ Follows
<1>1. Shapes /\ Turns
  BY DEF IInv
<1>2. ASSUME NEW w \in Workers, RecordCancel(w) PROVE Follows
  <2>1. open[w] = "record" /\ Call.kind = "cancel"
    BY <1>2 DEF RecordCancel
  <2>2. turn \in DOMAIN script
    BY <1>1, <2>1, OpenCall DEF Idle
  <2>3. Call.key # NoKey
    BY <1>1, <2>1, <2>2 DEF Alternates, Shapes, Call
  <2>4. provider = "scheduled"
    BY <1>1, <2>1, <2>2 DEF Turns, Cancelling
  <2>5. \A j \in DOMAIN rows' : rows'[j].active \/ (j \in DOMAIN rows /\ rows'[j].active = rows[j].active)
    BY <1>1, <1>2, <2>3, CancelWrites
  <2> QED
    BY <2>4, <2>5 DEF Follows
<1>3. ASSUME NEW w \in Workers, RecordResume(w) PROVE Follows
  <2>1. open[w] = "record" /\ Call.kind = "resume"
    BY <1>3 DEF RecordResume
  <2>2. turn \in DOMAIN script
    BY <1>1, <2>1, OpenCall DEF Idle
  <2>3. provider = "active"
    BY <1>1, <2>1, <2>2 DEF Turns, Resuming
  <2>4. DOMAIN rows' = DOMAIN rows /\ \A j \in DOMAIN rows : ~rows'[j].active
    BY <1>1, <1>3, ResumeWrites
  <2> QED
    BY <2>3, <2>4 DEF Follows
<1>4. ASSUME NEW w \in Workers,
             Prepare(w) \/ Tell(w) \/ TellFails(w) \/ RecordRefused(w) \/ RecordFails(w)
      PROVE  rows' = rows
  BY <1>4 DEF Prepare, Tell, TellFails, RecordRefused, RecordFails
<1>5. CASE NextCall \/ Bill \/ Renewed \/ Tick \/ UNCHANGED vars
  BY <1>5 DEF NextCall, Bill, Renewed, Tick, vars
<1> QED
  BY <1>2, <1>3, <1>4, <1>5 DEF Next

\* The user who cancels and resumes in turn finds that every variable has its
\* type and that the key of a row is unique (TypeOK).
THEOREM CancellationTypes == ASSUME Alternates PROVE Spec => []TypeOK
<1>1. Init => IInv
  BY InitHolds
<1>2. IInv /\ [Next]_vars => IInv'
  BY NextKeeps
<1>3. IInv => TypeOK
  BY InvGives
<1> QED
  BY <1>1, <1>2, <1>3, PTL DEF Spec

\* When a call has been answered and none of its tries is left open, the
\* provider, the rows and the call agree: whatever the provider, the database
\* or the server did to the tries before (AnswerIsTrue).
THEOREM AnswersAreTrue == ASSUME Alternates PROVE Spec => []AnswerIsTrue
<1>1. Init => IInv
  BY InitHolds
<1>2. IInv /\ [Next]_vars => IInv'
  BY NextKeeps
<1>3. IInv => AnswerIsTrue
  BY InvGives
<1> QED
  BY <1>1, <1>2, <1>3, PTL DEF Spec

\* However many tries overlap, one row at most says that the subscription is
\* cancelled (OneActiveRow).
THEOREM OneRowIsActive == ASSUME Alternates PROVE Spec => []OneActiveRow
<1>1. Init => IInv
  BY InitHolds
<1>2. IInv /\ [Next]_vars => IInv'
  BY NextKeeps
<1>3. IInv => OneActiveRow
  BY InvGives
<1> QED
  BY <1>1, <1>2, <1>3, PTL DEF Spec

\* Walnut records an end, or that the subscription goes on, only of a provider
\* that has been told so (ProviderFirst).
THEOREM ProviderIsFirst == ASSUME Alternates PROVE Spec => ProviderFirst
<1>1. Init => IInv
  BY InitHolds
<1>2. IInv /\ [Next]_vars => IInv'
  BY NextKeeps
<1>3. IInv /\ [Next]_vars => [Follows]_rows
  BY RowsFollow
<1> QED
  BY <1>1, <1>2, <1>3, PTL DEF Spec, ProviderFirst, Follows

-----------------------------------------------------------------------------
(* Renewal.  The invariant is about the rows, and about what each request  *)
(* has found out and still has to do.                                      *)

\* A time at which the order is paid: the first payment's when it is made,
\* within the tolerance; a later one's is the start of its period.
PaidWhen(o, at) ==
  /\ at \in Nat /\ at <= clock
  /\ o = Checkout => at >= FirstStart /\ at <= FirstStart + Tolerance
  /\ o # Checkout => at = o

\* A payment has its order's goods, a failed renewal its days of grace.
Effect(e) ==
  /\ Type(e) \in {"paid", "renewal_paid"} => periods[OrderOf(e)] # None
  /\ Type(e) = "renewal_failed" => graces[CycleKey(e)] # None

\* What is received has been announced, and no event is in hand that is not
\* received.
Announced ==
  /\ \A e \in Events : received[e] # None => received[e] <= clock /\ AnnouncedAt(e) <= clock
  /\ \A w \in Requests : requests[w].pc # "idle" => received[requests[w].event] # None

\* The order a request is at is the one its event pays for, and what it holds
\* to write fits that order.
OnItsWay(w) ==
  LET r == requests[w]
      e == r.event
  IN  /\ r.pc = "read" => Type(e) = "paid"
      /\ r.pc \in {"route", "nested", "apply", "lookup", "create"} => Type(e) = "renewal_paid"
      /\ r.pc = "nested" => OrderOf(e) = Checkout
      /\ r.pc \in {"lookup", "create"} => OrderOf(e) = CycleKey(e)
      /\ r.pc = "tx" => Type(e) \in {"renewal_failed", "subscription_expired"}
      /\ r.pc \in {"write", "fulfill"} =>
           Type(e) \in {"paid", "renewal_paid"} /\ r.order = OrderOf(e) /\ orderRows[r.order] # None
      /\ r.pc = "write" => r.row.status = "paid" /\ PaidWhen(r.order, r.row.paidAt)
      /\ r.pc = "settle" /\ r.outcome = "processed" => Effect(e)

\* An order's row and the goods it has given agree.
RowFits(o) ==
  /\ periods[o] # None => orderRows[o] # None /\ orderRows[o].status \in {"paid", "fulfilled"}
  /\ orderRows[o] # None =>
       /\ orderRows[o].paidAt # None => PaidWhen(o, orderRows[o].paidAt)
       /\ orderRows[o].status = "fulfilled" => periods[o] # None

\* The first payment is on record by the deadline.
FirstRecorded ==
  \A t \in Deadlines :
    FirstStart <= t /\ t <= FirstStart + Tolerance /\ orderRows[Checkout].paidAt = None => clock <= t

\* The period that an order's goods are paid for by.
PeriodOf(o) == IF o = Checkout THEN FirstStart ELSE o

GivenForPay ==
  \A o \in Granted : PeriodOf(o) \in PaidPeriods /\ (o # Checkout => o # FirstStart)

GracesRun ==
  \A c \in Cycles : graces[c] # None /\ graces[c].status = "active" =>
    graces[c].end = graces[c].start + GracePeriod

\* Each paid period begins when its cycle does, or earlier, or where another ends.
PeriodsBegin ==
  \A o \in Granted :
    \/ periods[o] - BillingPeriod <= LatestBegin(o)
    \/ \E p \in Granted : periods[p] = periods[o] - BillingPeriod

\* There is a last paid period.
PeriodsEnd == \E b \in Nat : \A o \in Granted : periods[o] <= b

RenewalFits ==
  /\ RenewalsTyped
  /\ Announced
  /\ \A w \in Requests : OnItsWay(w)
  /\ \A o \in Orders : RowFits(o)
  /\ FirstRecorded
  /\ \A e \in Events : inbox[e] = "processed" => Effect(e)
  /\ GivenForPay
  /\ GracesRun
  /\ PeriodsBegin
  /\ PeriodsEnd

-----------------------------------------------------------------------------
(* Events, orders and times.                                               *)

LEMMA LeastIs ==
  ASSUME NEW S \in SUBSET Nat, S # {}
  PROVE  Min(S) \in S /\ \A x \in S : Min(S) <= x
<1>1. IsWellFoundedOn(OpToRel(<, Nat), Nat)
  BY NatLessThanWellFounded
<1>2. PICK m \in S : \A x \in S : ~(<<x, m>> \in OpToRel(<, Nat))
  BY <1>1, WFMin
<1>3. m \in Nat /\ \A x \in S : x \in Nat
  OBVIOUS
<1>4. \A x \in S : ~(x < m)
  BY <1>2, <1>3 DEF OpToRel
<1>5. \A x \in S : m <= x
  BY <1>3, <1>4
<1> QED
  BY <1>5 DEF Min

\* A bounded set of natural numbers has a greatest element.
LEMMA LargestIs ==
  ASSUME NEW S \in SUBSET Nat, S # {}, NEW b \in Nat, \A x \in S : x <= b
  PROVE  Max(S) \in S /\ \A x \in S : x <= Max(S)
<1> DEFINE U == {u \in Nat : \A x \in S : x <= u}
<1>1. Min(U) \in U /\ \A u \in U : Min(U) <= u
  <2>1. U \in SUBSET Nat /\ U # {}
    OBVIOUS
  <2> HIDE DEF U
  <2> QED
    BY <2>1, LeastIs
<1>2. Min(U) \in S
  <2> SUFFICES ASSUME Min(U) \notin S PROVE FALSE
    OBVIOUS
  <2>1. PICK m : m = Min(U)
    OBVIOUS
  <2>2. m \in Nat /\ \A x \in S : x < m
    BY <1>1, <2>1
  <2>3. m > 0
    <3>1. PICK x \in S : x \in Nat
      OBVIOUS
    <3> QED
      BY <2>2, <3>1
  <2>4. m - 1 \in U
    BY <2>2, <2>3
  <2> QED
    BY <1>1, <2>1, <2>2, <2>4
<1>3. \E y \in S : \A x \in S : y >= x
  BY <1>1, <1>2
<1> QED
  BY <1>3 DEF Max

\* What an event says.
LEMMA EventIs ==
  ASSUME NEW e \in Events
  PROVE  /\ Type(e) \in {"paid", "renewal_paid", "renewal_failed", "subscription_expired"}
         /\ EventOf[e].start \in Nat /\ EventOf[e].end \in Nat
         /\ CycleKey(e) \in Nat /\ CycleKey(e) # Checkout
         /\ CycleKey(e) \in Cycles /\ CycleKey(e) \in Orders
         /\ Type(e) \in {"paid", "renewal_paid"} => CycleKey(e) = EventOf[e].start
         /\ Type(e) \in {"renewal_failed", "subscription_expired"} => CycleKey(e) = EventOf[e].end
<1>1. EventOf[e] \in EventType
  BY EventsAssumption
<1>2. /\ Type(e) \in {"paid", "renewal_paid", "renewal_failed", "subscription_expired"}
      /\ EventOf[e].start \in Nat /\ EventOf[e].end \in Nat
  BY <1>1 DEF EventType, Type
<1>3. CycleKey(e) \in Cycles /\ CycleKey(e) \in Orders
  BY DEF Cycles, Orders
<1> QED
  BY <1>2, <1>3, NoneAssumption DEF CycleKey

LEMMA FirstIs == FirstStart \in Nat /\ \A e \in Events : FirstStart <= EventOf[e].start
<1>1. PICK S : S = {EventOf[e].start : e \in Events}
  OBVIOUS
<1>2. S \in SUBSET Nat /\ S # {}
  BY <1>1, EventIs, EventsAssumption
<1>3. Min(S) \in S /\ \A x \in S : Min(S) <= x
  BY <1>2, LeastIs
<1>4. FirstStart = Min(S)
  BY <1>1 DEF FirstStart
<1> QED
  BY <1>1, <1>2, <1>3, <1>4

\* The order of a payment: the checkout order pays for the first period.
LEMMA OrderIs ==
  ASSUME NEW e \in Events, Type(e) \in {"paid", "renewal_paid"}
  PROVE  /\ OrderOf(e) \in Orders
         /\ EventOf[e].start = FirstStart => OrderOf(e) = Checkout
         /\ EventOf[e].start # FirstStart =>
              /\ Type(e) = "renewal_paid" /\ EventOf[e].start > FirstStart + 2 * Tolerance
              /\ OrderOf(e) = CycleKey(e) /\ OrderOf(e) = EventOf[e].start
         /\ PeriodOf(OrderOf(e)) = EventOf[e].start
<1>1. FirstStart \in Nat /\ EventOf[e].start \in Nat /\ Tolerance \in Nat
  BY FirstIs, EventIs, LengthsAssumption
<1>2. CycleKey(e) \in Orders /\ CycleKey(e) # Checkout /\ CycleKey(e) = EventOf[e].start
  BY EventIs
<1>3. CASE EventOf[e].start = FirstStart
  <2>1. OrderOf(e) = Checkout
    BY <1>1, <1>3 DEF OrderOf, SameBillingInstant
  <2> QED
    BY <1>3, <2>1 DEF PeriodOf, Orders
<1>4. CASE EventOf[e].start # FirstStart
  <2>1. Type(e) = "renewal_paid" /\ EventOf[e].start > FirstStart + 2 * Tolerance
    BY <1>4, BillingAssumption
  <2>2. OrderOf(e) = CycleKey(e)
    BY <1>1, <2>1 DEF OrderOf, SameBillingInstant
  <2> QED
    BY <1>2, <1>4, <2>1, <2>2 DEF PeriodOf
<1> QED
  BY <1>3, <1>4

\* A row of an order or of days of grace.
LEMMA OrderRow ==
  ASSUME NEW row \in Order
  PROVE  /\ row # None /\ row.status \in {"pending", "paid", "fulfilled", "failed"}
         /\ row.paidAt # None => row.paidAt \in Nat
  BY NoRowAssumption DEF Order

LEMMA GraceRow ==
  ASSUME NEW g \in Grace
  PROVE  g # None /\ g.start \in Nat /\ g.end \in Nat /\ g.status \in {"active", "expired"}
  BY NoRowAssumption DEF Grace

LEMMA RowsAre ==
  ASSUME RenewalsTyped
  PROVE  /\ clock \in Nat
         /\ orderRows[Checkout] \in Order
         /\ \A o \in Orders :
              /\ orderRows[o] # None => /\ orderRows[o] \in Order
                                        /\ orderRows[o].status \in {"paid", "fulfilled"}
                                             => orderRows[o].paidAt \in Nat
              /\ periods[o] # None => periods[o] \in Nat
         /\ \A c \in Cycles : graces[c] # None => graces[c] \in Grace
         /\ \A e \in Events : received[e] # None => received[e] \in Nat
<1>1. clock \in Nat /\ \A t \in Times : t \in Nat
  BY BoundsAssumption DEF RenewalsTyped, Times
<1>2. Checkout \in Orders
  BY DEF Orders
<1>3. \A o \in Orders : orderRows[o] # None => orderRows[o] \in Order
  BY DEF RenewalsTyped
<1>4. \A o \in Orders : orderRows[o] # None =>
        (orderRows[o].status \in {"paid", "fulfilled"} => orderRows[o].paidAt \in Nat)
  BY <1>3, OrderRow DEF RenewalsTyped
<1>5. \A o \in Orders : periods[o] # None => periods[o] \in Nat
  BY DEF RenewalsTyped
<1>6. \A c \in Cycles : graces[c] # None => graces[c] \in Grace
  BY DEF RenewalsTyped
<1>7. \A e \in Events : received[e] # None => received[e] \in Nat
  BY <1>1 DEF RenewalsTyped
<1> QED
  BY <1>1, <1>2, <1>3, <1>4, <1>5, <1>6, <1>7 DEF RenewalsTyped

-----------------------------------------------------------------------------
(* Requests.                                                               *)

\* What a request holds at each step.
LEMMA HeldIs ==
  ASSUME NEW r \in Request
  PROVE  /\ r.pc \in {"idle", "read", "route", "nested", "apply", "lookup", "create", "tx",
                      "write", "fulfill", "settle"}
         /\ r.pc # "idle" => r.event \in Events
         /\ r.pc \in {"write", "fulfill"} => r.order \in Orders
         /\ r.pc = "write" => r.row \in Order
         /\ r.pc = "settle" => r.outcome \in {"processed", "failed"}
  BY SMTT(30) DEF Request

\* A request moves on, and the others stay where they are.
Moves(w, r) ==
  /\ requests' \in [Requests -> Request] /\ requests'[w] = r
  /\ \A v \in Requests \ {w} : requests'[v] = requests[v]

LEMMA MovesTo ==
  ASSUME requests \in [Requests -> Request], NEW w \in Requests, NEW r \in Request,
         requests' = [requests EXCEPT ![w] = r]
  PROVE  Moves(w, r)
  BY DEF Moves

LEMMA GoesTo ==
  ASSUME requests \in [Requests -> Request], NEW w \in Requests, NEW e \in Events,
         NEW pc \in {"read", "route", "nested", "apply", "lookup", "create", "tx"}, Goto(w, pc, e)
  PROVE  Moves(w, [pc |-> pc, event |-> e])
<1>1. [pc |-> pc, event |-> e] \in
        [pc : {"read", "route", "nested", "apply", "lookup", "create", "tx"}, event : Events]
  OBVIOUS
<1>2. [pc |-> pc, event |-> e] \in Request
  BY <1>1 DEF Request
<1> QED
  BY <1>2, MovesTo DEF Goto

LEMMA Returns ==
  ASSUME requests \in [Requests -> Request], NEW w \in Requests, Return(w)
  PROVE  Moves(w, Resting)
<1>1. Resting \in Request
  BY DEF Request, Resting
<1> QED
  BY <1>1, MovesTo DEF Return

LEMMA SettlesAt ==
  ASSUME requests \in [Requests -> Request], NEW w \in Requests, requests[w].pc # "idle",
         NEW outcome \in {"processed", "failed"}, Settles(w, outcome)
  PROVE  Moves(w, [pc |-> "settle", event |-> requests[w].event, outcome |-> outcome])
<1>1. requests[w].event \in Events
  BY HeldIs
<1>2. [pc |-> "settle", event |-> requests[w].event, outcome |-> outcome] \in Request
  BY <1>1 DEF Request
<1> QED
  BY <1>2, MovesTo DEF Settles

LEMMA FulfillsAt ==
  ASSUME requests \in [Requests -> Request], NEW w \in Requests, requests[w].pc # "idle",
         NEW o \in Orders, Fulfills(w, o)
  PROVE  Moves(w, [pc |-> "fulfill", event |-> requests[w].event, order |-> o])
<1>1. requests[w].event \in Events
  BY HeldIs
<1>2. [pc |-> "fulfill", event |-> requests[w].event, order |-> o] \in Request
  BY <1>1 DEF Request
<1> QED
  BY <1>2, MovesTo DEF Fulfills

LEMMA WritesAt ==
  ASSUME requests \in [Requests -> Request], NEW w \in Requests, requests[w].pc # "idle",
         NEW o \in Orders, NEW row \in Order, Writes(w, o, row)
  PROVE  Moves(w, [pc |-> "write", event |-> requests[w].event, order |-> o, row |-> row])
<1>1. requests[w].event \in Events
  BY HeldIs
<1>2. [pc |-> "write", event |-> requests[w].event, order |-> o, row |-> row] \in Request
  BY <1>1 DEF Request
<1> QED
  BY <1>2, MovesTo DEF Writes

-----------------------------------------------------------------------------
(* What a step leaves alone.                                               *)

\* Rows, periods and days of grace do not go away, nor does time.
Onward ==
  /\ clock' \in Nat /\ clock <= clock'
  /\ \A o \in Orders : /\ orderRows[o] # None => orderRows'[o] # None
                       /\ periods[o] # None => periods'[o] = periods[o]
  /\ \A c \in Cycles : graces[c] # None => graces'[c] # None
  /\ \A e \in Events : received[e] # None => received'[e] = received[e]
  /\ orderRows[Checkout].paidAt # None => orderRows'[Checkout].paidAt # None

LEMMA EffectStays ==
  ASSUME Onward, NEW e \in Events, Effect(e)
  PROVE  Effect(e)'
<1>1. CycleKey(e) \in Cycles
  BY EventIs
<1>2. ASSUME Type(e) \in {"paid", "renewal_paid"} PROVE periods'[OrderOf(e)] # None
  <2>1. OrderOf(e) \in Orders /\ periods[OrderOf(e)] # None
    BY <1>2, OrderIs DEF Effect
  <2> QED
    BY <2>1 DEF Onward
<1>3. ASSUME Type(e) = "renewal_failed" PROVE graces'[CycleKey(e)] # None
  BY <1>1, <1>3 DEF Onward, Effect
<1> QED
  BY <1>2, <1>3 DEF Effect

LEMMA PaidWhenStays ==
  ASSUME Onward, clock \in Nat, NEW o, NEW at, PaidWhen(o, at)
  PROVE  PaidWhen(o, at)'
  BY DEF Onward, PaidWhen

\* A request that is elsewhere stays on its way.
LEMMA OthersKeep ==
  ASSUME RenewalsTyped, Onward, NEW v \in Requests, requests'[v] = requests[v], OnItsWay(v)
  PROVE  OnItsWay(v)'
<1>1. PICK r : r = requests[v]
  OBVIOUS
<1>2. r \in Request /\ clock \in Nat
  BY <1>1, RowsAre DEF RenewalsTyped
<1>3. PICK e : e = r.event
  OBVIOUS
<1>4. r.pc = "settle" /\ r.outcome = "processed" => Effect(e)'
  <2>1. r.pc = "settle" /\ r.outcome = "processed" => e \in Events /\ Effect(e)
    BY <1>1, <1>2, <1>3, HeldIs DEF OnItsWay
  <2> QED
    BY <2>1, EffectStays
<1>5. r.pc = "write" => r.row.status = "paid" /\ PaidWhen(r.order, r.row.paidAt)'
  <2>1. r.pc = "write" => r.row.status = "paid" /\ PaidWhen(r.order, r.row.paidAt)
    BY <1>1 DEF OnItsWay
  <2>2. PICK o, at : o = r.order /\ at = r.row.paidAt
    OBVIOUS
  <2>3. PaidWhen(o, at) => PaidWhen(o, at)'
    BY <1>2, PaidWhenStays
  <2> QED
    BY <2>1, <2>2, <2>3
<1>6. r.pc \in {"write", "fulfill"} =>
        Type(e) \in {"paid", "renewal_paid"} /\ r.order = OrderOf(e) /\ orderRows'[r.order] # None
  <2>1. r.pc \in {"write", "fulfill"} => r.order \in Orders
    BY <1>2, HeldIs
  <2> QED
    BY <1>1, <1>3, <2>1 DEF OnItsWay, Onward
<1>7. requests'[v] = r
  BY <1>1
<1>8. /\ r.pc = "read" => Type(e) = "paid"
      /\ r.pc \in {"route", "nested", "apply", "lookup", "create"} => Type(e) = "renewal_paid"
      /\ r.pc = "nested" => OrderOf(e) = Checkout
      /\ r.pc \in {"lookup", "create"} => OrderOf(e) = CycleKey(e)
      /\ r.pc = "tx" => Type(e) \in {"renewal_failed", "subscription_expired"}
  BY <1>1, <1>3 DEF OnItsWay
<1> QED
  BY <1>3, <1>4, <1>5, <1>6, <1>7, <1>8 DEF OnItsWay

\* Of the other requests, when one has moved on.
LEMMA AllOnTheirWay ==
  ASSUME RenewalsTyped, Onward, \A v \in Requests : OnItsWay(v), NEW w \in Requests, NEW r, Moves(w, r),
         OnItsWay(w)'
  PROVE  \A v \in Requests : OnItsWay(v)'
<1> SUFFICES ASSUME NEW v \in Requests PROVE OnItsWay(v)'
  OBVIOUS
<1>1. CASE v = w
  BY <1>1
<1>2. CASE v # w
  <2>1. requests'[v] = requests[v]
    BY <1>2 DEF Moves
  <2> QED
    BY <2>1, OthersKeep
<1> QED
  BY <1>1, <1>2

\* The event of a request that has started was received and has been announced.
LEMMA InHand ==
  ASSUME RenewalsTyped, Announced, NEW w \in Requests, requests[w].pc # "idle"
  PROVE  /\ requests[w] \in Request /\ requests[w].event \in Events
         /\ received[requests[w].event] # None /\ received[requests[w].event] \in Nat
         /\ received[requests[w].event] <= clock /\ AnnouncedAt(requests[w].event) <= clock
<1>1. requests[w] \in Request
  BY DEF RenewalsTyped
<1>2. requests[w].event \in Events
  BY <1>1, HeldIs
<1> QED
  BY <1>1, <1>2, RowsAre DEF Announced

\* Of the events in hand, when one request has moved on.
LEMMA AnnouncedStays ==
  ASSUME RenewalsTyped, Announced, Onward, NEW w \in Requests, NEW r, Moves(w, r),
         \A e \in Events : received'[e] # None => received'[e] <= clock' /\ AnnouncedAt(e) <= clock',
         r.pc # "idle" => r.event \in Events /\ received'[r.event] # None
  PROVE  Announced'
<1>1. ASSUME NEW v \in Requests, requests'[v].pc # "idle" PROVE received'[requests'[v].event] # None
  <2>1. CASE v = w
    BY <1>1, <2>1 DEF Moves
  <2>2. CASE v # w
    <3>1. requests'[v] = requests[v]
      BY <2>2 DEF Moves
    <3>2. requests[v].event \in Events /\ received[requests[v].event] # None
                                       /\ received[requests[v].event] \in Nat
      BY <1>1, <3>1, InHand
    <3> QED
      BY <3>1, <3>2 DEF Onward
  <2> QED
    BY <2>1, <2>2
<1> QED
  BY <1>1 DEF Announced

\* A step that changes no row: what remains to be seen is where it sends the
\* request.
LEMMA RowsStay ==
  ASSUME RenewalFits, NEW w \in Requests, NEW r, Moves(w, r),
         UNCHANGED <<clock, received, records>>,
         failures' \in 0..MaxFailures, aborts' \in 0..MaxAborts,
         inbox' \in [Events -> {"new", "processing", "failed", "processed"}],
         \A e \in Events : inbox'[e] = "processed" => Effect(e),
         r.pc # "idle" => r.event \in Events /\ received[r.event] # None,
         OnItsWay(w)'
  PROVE  RenewalFits'
<1> USE DEF records
<1>1. RenewalsTyped /\ Announced /\ (\A v \in Requests : OnItsWay(v)) /\ clock \in Nat
  BY RowsAre DEF RenewalFits
<1>2. Onward
  BY <1>1 DEF Onward
<1>3. RenewalsTyped'
  BY <1>1 DEF RenewalsTyped, Moves
<1>4. Announced'
  <2>1. \A e \in Events : received'[e] # None => received'[e] <= clock' /\ AnnouncedAt(e) <= clock'
    BY <1>1 DEF Announced
  <2> QED
    BY <1>1, <1>2, <2>1, AnnouncedStays
<1>5. \A v \in Requests : OnItsWay(v)'
  BY <1>1, <1>2, AllOnTheirWay
<1>6. \A o \in Orders : RowFits(o)'
  BY DEF RenewalFits, RowFits, PaidWhen
<1>7. FirstRecorded' /\ GracesRun' /\ PeriodsBegin' /\ PeriodsEnd'
  BY DEF RenewalFits, FirstRecorded, GracesRun, PeriodsBegin, PeriodsEnd, Granted
<1>8. \A e \in Events : inbox'[e] = "processed" => Effect(e)'
  BY <1>2, EffectStays
<1>9. GivenForPay'
  BY DEF RenewalFits, GivenForPay, Granted, PaidPeriods
<1> QED
  BY <1>3, <1>4, <1>5, <1>6, <1>7, <1>8, <1>9 DEF RenewalFits

\* The same, when nothing but the request has changed.
LEMMA Reads ==
  ASSUME RenewalFits, NEW w \in Requests, requests[w].pc # "idle", NEW r, Moves(w, r),
         UNCHANGED <<clock, inbox, received, records, failures, aborts>>,
         r.pc # "idle" => r.event = requests[w].event,
         OnItsWay(w)'
  PROVE  RenewalFits'
<1>1. requests[w].event \in Events /\ received[requests[w].event] # None
  BY InHand DEF RenewalFits
<1>2. /\ failures' \in 0..MaxFailures /\ aborts' \in 0..MaxAborts
      /\ inbox' \in [Events -> {"new", "processing", "failed", "processed"}]
      /\ \A e \in Events : inbox'[e] = "processed" => Effect(e)
  BY DEF RenewalFits, RenewalsTyped
<1>3. UNCHANGED <<clock, received, records>>
  OBVIOUS
<1> QED
  BY <1>1, <1>2, <1>3, RowsStay

-----------------------------------------------------------------------------
(* Where a step sends a request.                                           *)

\* A request that has moved on with its event is on its way.
Onwards(w) ==
  \E r : /\ Moves(w, r) /\ OnItsWay(w)'
         /\ r.pc # "idle" => r.event = requests[w].event

LEMMA ToWrite ==
  ASSUME requests \in [Requests -> Request], NEW w \in Requests, requests[w].pc # "idle",
         NEW e, e = requests[w].event, Type(e) \in {"paid", "renewal_paid"},
         NEW o \in Orders, o = OrderOf(e), orderRows'[o] # None,
         NEW row \in Order, row.status = "paid", PaidWhen(o, row.paidAt)', Writes(w, o, row)
  PROVE  Onwards(w)
<1>1. PICK r : r = [pc |-> "write", event |-> e, order |-> o, row |-> row]
  OBVIOUS
<1>2. Moves(w, r)
  BY <1>1, WritesAt
<1>3. /\ r.pc = "write" /\ r.event = e /\ r.order = o /\ r.row = row /\ requests'[w] = r
  BY <1>1, <1>2 DEF Moves
<1>4. OnItsWay(w)'
  BY <1>3 DEF OnItsWay
<1> QED
  BY <1>2, <1>3, <1>4 DEF Onwards

LEMMA ToFulfill ==
  ASSUME requests \in [Requests -> Request], NEW w \in Requests, requests[w].pc # "idle",
         NEW e, e = requests[w].event, Type(e) \in {"paid", "renewal_paid"},
         NEW o \in Orders, o = OrderOf(e), orderRows'[o] # None, Fulfills(w, o)
  PROVE  Onwards(w)
<1>1. PICK r : r = [pc |-> "fulfill", event |-> e, order |-> o]
  OBVIOUS
<1>2. Moves(w, r)
  BY <1>1, FulfillsAt
<1>3. r.pc = "fulfill" /\ r.event = e /\ r.order = o /\ requests'[w] = r
  BY <1>1, <1>2 DEF Moves
<1>4. OnItsWay(w)'
  BY <1>3 DEF OnItsWay
<1> QED
  BY <1>2, <1>3, <1>4 DEF Onwards

LEMMA ToSettle ==
  ASSUME requests \in [Requests -> Request], NEW w \in Requests, requests[w].pc # "idle",
         NEW e, e = requests[w].event, NEW outcome \in {"processed", "failed"},
         outcome = "processed" => Effect(e)', Settles(w, outcome)
  PROVE  Onwards(w)
<1>1. PICK r : r = [pc |-> "settle", event |-> e, outcome |-> outcome]
  OBVIOUS
<1>2. Moves(w, r)
  BY <1>1, SettlesAt
<1>3. r.pc = "settle" /\ r.event = e /\ r.outcome = outcome /\ requests'[w] = r
  BY <1>1, <1>2 DEF Moves
<1>4. OnItsWay(w)'
  BY <1>3 DEF OnItsWay
<1> QED
  BY <1>2, <1>3, <1>4 DEF Onwards

LEMMA ToStep ==
  ASSUME requests \in [Requests -> Request], NEW w \in Requests,
         NEW e \in Events, e = requests[w].event,
         NEW pc \in {"route", "nested", "apply", "lookup", "create"}, Type(e) = "renewal_paid",
         pc = "nested" => OrderOf(e) = Checkout,
         pc \in {"lookup", "create"} => OrderOf(e) = CycleKey(e), Goto(w, pc, e)
  PROVE  Onwards(w)
<1>1. PICK r : r = [pc |-> pc, event |-> e]
  OBVIOUS
<1>2. Moves(w, r)
  BY <1>1, GoesTo
<1>3. r.pc = pc /\ r.event = e /\ requests'[w] = r
  BY <1>1, <1>2 DEF Moves
<1>4. OnItsWay(w)'
  BY <1>3 DEF OnItsWay
<1> QED
  BY <1>2, <1>3, <1>4 DEF Onwards

LEMMA OnwardsKeeps ==
  ASSUME RenewalFits, NEW w \in Requests, requests[w].pc # "idle", Onwards(w),
         UNCHANGED <<clock, inbox, received, records, failures, aborts>>
  PROVE  RenewalFits'
<1>1. PICK r : Moves(w, r) /\ OnItsWay(w)' /\ (r.pc # "idle" => r.event = requests[w].event)
  BY DEF Onwards
<1> QED
  BY <1>1, Reads

-----------------------------------------------------------------------------
(* Payments.                                                               *)

LEMMA PaidRow ==
  ASSUME NEW row \in Order, NEW at \in Nat
  PROVE  /\ Paid(row, at) \in Order /\ Paid(row, at).status = "paid"
         /\ Paid(row, at).paidAt = IF row.paidAt = None THEN at ELSE row.paidAt
<1>1. row.paidAt \in Nat \cup {None}
  BY DEF Order
<1> QED
  BY <1>1 DEF Paid, Order

\* A row that an order's request would mark paid says the right time.
LEMMA PaidFits ==
  ASSUME RenewalFits, NEW o \in Orders, orderRows[o] # None, NEW at, PaidWhen(o, at)
  PROVE  /\ Paid(orderRows[o], at) \in Order /\ Paid(orderRows[o], at).status = "paid"
         /\ PaidWhen(o, Paid(orderRows[o], at).paidAt)
<1>1. orderRows[o] \in Order /\ at \in Nat
  BY RowsAre DEF RenewalFits, PaidWhen
<1>2. RowFits(o)
  BY DEF RenewalFits
<1> QED
  BY <1>1, <1>2, PaidRow DEF RowFits

LEMMA CheckoutRow ==
  ASSUME RenewalFits
  PROVE  /\ Checkout \in Orders /\ orderRows[Checkout] # None /\ orderRows[Checkout] \in Order
         /\ orderRows[Checkout].paidAt # None =>
              /\ orderRows[Checkout].paidAt \in Nat /\ orderRows[Checkout].paidAt >= FirstStart
              /\ orderRows[Checkout].paidAt <= FirstStart + Tolerance
         /\ orderRows[Checkout].paidAt = None => clock <= FirstStart + Tolerance
         /\ orderRows[Checkout].status \in {"paid", "fulfilled"} => orderRows[Checkout].paidAt # None
<1>1. Checkout \in Orders /\ orderRows[Checkout] # None /\ orderRows[Checkout] \in Order
  BY RowsAre DEF RenewalFits, RenewalsTyped, Orders
<1>2. RowFits(Checkout)
  BY <1>1 DEF RenewalFits
<1>3. orderRows[Checkout].paidAt # None => PaidWhen(Checkout, orderRows[Checkout].paidAt)
  BY <1>1, <1>2 DEF RowFits
<1>4. PICK t \in Deadlines : FirstStart <= t /\ t <= FirstStart + Tolerance
  BY PromptAssumption
<1>5. t \in Nat /\ FirstStart \in Nat /\ Tolerance \in Nat /\ clock \in Nat
  BY FirstIs, DeadlinesAssumption, LengthsAssumption, RowsAre DEF RenewalFits
<1>6. orderRows[Checkout].paidAt = None => clock <= t
  BY <1>4 DEF RenewalFits, FirstRecorded
<1> QED
  BY <1>1, <1>3, <1>4, <1>5, <1>6 DEF PaidWhen, RenewalFits, RenewalsTyped

\* Whose event a request has in hand.
LEMMA PayingIs ==
  ASSUME RenewalFits, NEW w \in Requests,
         requests[w].pc \in {"read", "route", "nested", "apply", "lookup", "create", "write", "fulfill"}
  PROVE  LET e == requests[w].event
         IN  /\ requests \in [Requests -> Request] /\ clock \in Nat
             /\ e \in Events /\ Type(e) \in {"paid", "renewal_paid"}
             /\ requests[w].pc = "read" => Type(e) = "paid"
             /\ requests[w].pc \notin {"read", "write", "fulfill"} => Type(e) = "renewal_paid"
             /\ received[e] # None /\ EventOf[e].start <= clock
             /\ OrderOf(e) \in Orders
<1>1. PICK e : e = requests[w].event
  OBVIOUS
<1>2. e \in Events /\ received[e] # None /\ AnnouncedAt(e) <= clock /\ clock \in Nat
  BY <1>1, InHand, RowsAre DEF RenewalFits
<1>3. OnItsWay(w)
  BY DEF RenewalFits
<1>4. /\ Type(e) \in {"paid", "renewal_paid"}
      /\ requests[w].pc = "read" => Type(e) = "paid"
      /\ requests[w].pc \notin {"read", "write", "fulfill"} => Type(e) = "renewal_paid"
  BY <1>1, <1>3 DEF OnItsWay
<1> QED
  BY <1>1, <1>2, <1>4, OrderIs DEF AnnouncedAt, RenewalFits, RenewalsTyped

LEMMA ReadOrderKeeps == ASSUME RenewalFits, NEW w \in Requests, ReadOrder(w) PROVE RenewalFits'
<1>1. requests[w].pc = "read"
  BY DEF ReadOrder, At
<1>2. PICK e : e = requests[w].event
  OBVIOUS
<1>3. /\ requests \in [Requests -> Request] /\ clock \in Nat
      /\ e \in Events /\ Type(e) = "paid" /\ EventOf[e].start <= clock
  BY <1>1, <1>2, PayingIs
<1>4. EventOf[e].start = FirstStart /\ OrderOf(e) = Checkout
  BY <1>3, OrderIs
<1>5. Checkout \in Orders /\ orderRows[Checkout] # None
  BY CheckoutRow
<1>6. UNCHANGED <<clock, inbox, received, records, failures, aborts>>
  BY DEF ReadOrder
<1>7. orderRows' = orderRows /\ clock' = clock
  BY <1>6 DEF records
<1>8. Onwards(w)
  <2>1. CASE orderRows[Checkout].status \in {"paid", "fulfilled"}
    <3>1. Fulfills(w, Checkout)
      BY <2>1 DEF ReadOrder
    <3> QED
      BY <1>1, <1>2, <1>3, <1>4, <1>5, <1>7, <3>1, ToFulfill
  <2>2. CASE orderRows[Checkout].status \notin {"paid", "fulfilled"}
    <3>1. Writes(w, Checkout, Paid(orderRows[Checkout], clock))
      BY <2>2 DEF ReadOrder
    <3>2. CASE orderRows[Checkout].paidAt = None
      <4>1. PaidWhen(Checkout, clock)
        BY <1>3, <1>4, <3>2, CheckoutRow DEF PaidWhen
      <4>2. PICK row : row = Paid(orderRows[Checkout], clock)
        OBVIOUS
      <4>3. row \in Order /\ row.status = "paid" /\ PaidWhen(Checkout, row.paidAt)
        BY <1>5, <4>1, <4>2, PaidFits
      <4>4. PaidWhen(Checkout, row.paidAt)'
        BY <1>7, <4>3 DEF PaidWhen
      <4> QED
        BY <1>1, <1>2, <1>3, <1>4, <1>5, <1>7, <3>1, <4>2, <4>3, <4>4, ToWrite
    <3>3. CASE orderRows[Checkout].paidAt # None
      <4>1. PICK row : row = Paid(orderRows[Checkout], clock)
        OBVIOUS
      <4>2. row \in Order /\ row.status = "paid" /\ row.paidAt = orderRows[Checkout].paidAt
        BY <1>3, <3>3, <4>1, PaidRow, CheckoutRow
      <4>3. PaidWhen(Checkout, row.paidAt)
        BY <1>5, <3>3, <4>2 DEF RenewalFits, RowFits
      <4>4. PaidWhen(Checkout, row.paidAt)'
        BY <1>7, <4>3 DEF PaidWhen
      <4> QED
        BY <1>1, <1>2, <1>3, <1>4, <1>5, <1>7, <3>1, <4>1, <4>2, <4>4, ToWrite
    <3> QED
      BY <3>2, <3>3
  <2> QED
    BY <2>1, <2>2
<1> QED
  BY <1>1, <1>6, <1>8, OnwardsKeeps

\* A second announcement of the first payment is told from a later payment.
LEMMA SameInstant ==
  ASSUME RenewalFits, NEW e \in Events, Type(e) = "renewal_paid", orderRows[Checkout].paidAt # None
  PROVE  SameBillingInstant(orderRows[Checkout].paidAt, EventOf[e].start) <=> EventOf[e].start = FirstStart
<1>1. PICK at : at = orderRows[Checkout].paidAt
  OBVIOUS
<1>2. at \in Nat /\ at >= FirstStart /\ at <= FirstStart + Tolerance
  BY <1>1, CheckoutRow
<1>3. FirstStart \in Nat /\ EventOf[e].start \in Nat /\ Tolerance \in Nat
  BY FirstIs, EventIs, LengthsAssumption
<1>4. EventOf[e].start # FirstStart => EventOf[e].start > FirstStart + 2 * Tolerance
  BY OrderIs
<1>5. SameBillingInstant(at, EventOf[e].start) <=> EventOf[e].start = FirstStart
  BY <1>2, <1>3, <1>4 DEF SameBillingInstant
<1> QED
  BY <1>1, <1>5

LEMMA RouteKeeps == ASSUME RenewalFits, NEW w \in Requests, Route(w) PROVE RenewalFits'
<1>1. requests[w].pc = "route"
  BY DEF Route, At
<1>2. PICK e : e = requests[w].event
  OBVIOUS
<1>3. requests \in [Requests -> Request] /\ e \in Events /\ Type(e) = "renewal_paid"
  BY <1>1, <1>2, PayingIs
<1>4. UNCHANGED <<clock, inbox, received, records, failures, aborts>>
  BY DEF Route
<1>5. CASE Goto(w, "apply", e)
  <2>1. Onwards(w)
    BY <1>1, <1>2, <1>3, <1>5, ToStep
  <2> QED
    BY <1>1, <1>4, <2>1, OnwardsKeeps
<1>6. CASE /\ Goto(w, "nested", e) /\ orderRows[Checkout].paidAt # None
           /\ SameBillingInstant(orderRows[Checkout].paidAt, EventOf[e].start)
  <2>1. OrderOf(e) = Checkout
    BY <1>3, <1>6, SameInstant, OrderIs
  <2>2. Onwards(w)
    BY <1>1, <1>2, <1>3, <1>6, <2>1, ToStep
  <2> QED
    BY <1>1, <1>4, <2>2, OnwardsKeeps
<1> QED
  BY <1>2, <1>5, <1>6 DEF Route

LEMMA NestedKeeps == ASSUME RenewalFits, NEW w \in Requests, Nested(w) PROVE RenewalFits'
<1>1. requests[w].pc = "nested"
  BY DEF Nested, At
<1>2. PICK e : e = requests[w].event
  OBVIOUS
<1>3. requests \in [Requests -> Request] /\ e \in Events /\ Type(e) = "renewal_paid"
  BY <1>1, <1>2, PayingIs
<1>4. UNCHANGED <<clock, inbox, received, records, failures, aborts>>
  BY DEF Nested
<1>5. PICK outcome : outcome = IF orderRows[Checkout].status = "fulfilled" THEN "processed" ELSE "failed"
  OBVIOUS
<1>6. Settles(w, outcome)
  BY <1>5 DEF Nested
<1>7. outcome = "processed" => Effect(e)'
  <2> SUFFICES ASSUME outcome = "processed" PROVE Effect(e)'
    OBVIOUS
  <2>1. OrderOf(e) = Checkout
    BY <1>1, <1>2 DEF RenewalFits, OnItsWay
  <2>2. periods[Checkout] # None
    BY <1>5, CheckoutRow DEF RenewalFits, RowFits
  <2>3. periods' = periods
    BY <1>4 DEF records
  <2> QED
    BY <1>3, <2>1, <2>2, <2>3 DEF Effect
<1>8. Onwards(w)
  BY <1>1, <1>2, <1>3, <1>5, <1>6, <1>7, ToSettle
<1> QED
  BY <1>1, <1>4, <1>8, OnwardsKeeps

LEMMA ApplyKeeps == ASSUME RenewalFits, NEW w \in Requests, Apply(w) PROVE RenewalFits'
<1>1. requests[w].pc = "apply"
  BY DEF Apply, At
<1>2. PICK e : e = requests[w].event
  OBVIOUS
<1>3. /\ requests \in [Requests -> Request] /\ clock \in Nat
      /\ e \in Events /\ Type(e) = "renewal_paid" /\ EventOf[e].start <= clock
  BY <1>1, <1>2, PayingIs
<1>4. PICK row : row = orderRows[Checkout]
  OBVIOUS
<1>5. /\ Checkout \in Orders /\ orderRows[Checkout] # None
      /\ row.paidAt = None => clock <= FirstStart + Tolerance
      /\ row.status = "fulfilled" => row.paidAt # None
  BY <1>4, CheckoutRow
<1>6. UNCHANGED <<clock, inbox, received, records, failures, aborts>>
  BY DEF Apply
<1>7. orderRows' = orderRows /\ clock' = clock
  BY <1>6 DEF records
<1>8. CASE row.paidAt # None /\ ~SameBillingInstant(row.paidAt, EventOf[e].start)
  <2>1. Goto(w, "lookup", e)
    BY <1>2, <1>4, <1>8 DEF Apply
  <2>2. OrderOf(e) = CycleKey(e)
    BY <1>3, <1>4, <1>8, SameInstant, OrderIs
  <2>3. Onwards(w)
    BY <1>1, <1>2, <1>3, <2>1, <2>2, ToStep
  <2> QED
    BY <1>1, <1>6, <2>3, OnwardsKeeps
<1>9. CASE ~(row.paidAt # None /\ ~SameBillingInstant(row.paidAt, EventOf[e].start))
  <2>1. EventOf[e].start = FirstStart
    <3>1. CASE row.paidAt # None
      BY <1>3, <1>4, <1>9, <3>1, SameInstant
    <3>2. CASE row.paidAt = None
      <4>1. FirstStart \in Nat /\ Tolerance \in Nat /\ EventOf[e].start \in Nat
        BY <1>3, FirstIs, EventIs, LengthsAssumption
      <4>2. EventOf[e].start # FirstStart => EventOf[e].start > FirstStart + 2 * Tolerance
        BY <1>3, OrderIs
      <4> QED
        BY <1>3, <1>5, <3>2, <4>1, <4>2
    <3> QED
      BY <3>1, <3>2
  <2>2. OrderOf(e) = Checkout
    BY <1>3, <2>1, OrderIs
  <2>3. PaidWhen(Checkout, EventOf[e].start)
    BY <1>3, <2>1, FirstIs, LengthsAssumption DEF PaidWhen
  <2>4. CASE Fulfills(w, Checkout)
    <3>1. Onwards(w)
      BY <1>1, <1>2, <1>3, <1>5, <1>7, <2>2, <2>4, ToFulfill
    <3> QED
      BY <1>1, <1>6, <3>1, OnwardsKeeps
  <2>5. CASE Writes(w, Checkout, Paid(row, EventOf[e].start))
    <3>1. PICK new : new = Paid(row, EventOf[e].start)
      OBVIOUS
    <3>2. new \in Order /\ new.status = "paid" /\ PaidWhen(Checkout, new.paidAt)
      BY <1>4, <1>5, <2>3, <3>1, PaidFits
    <3>3. PaidWhen(Checkout, new.paidAt)'
      BY <1>7, <3>2 DEF PaidWhen
    <3>4. Onwards(w)
      BY <1>1, <1>2, <1>3, <1>5, <1>7, <2>2, <2>5, <3>1, <3>2, <3>3, ToWrite
    <3> QED
      BY <1>1, <1>6, <3>4, OnwardsKeeps
  <2> QED
    BY <1>2, <1>4, <1>9, <2>4, <2>5 DEF Apply
<1> QED
  BY <1>8, <1>9

\* The order that a request looks up is its cycle's.
LEMMA LookedUp ==
  ASSUME RenewalFits, NEW w \in Requests, requests[w].pc \in {"lookup", "create"}
  PROVE  LET e == requests[w].event
             c == CycleKey(e)
         IN  /\ e \in Events /\ Type(e) = "renewal_paid" /\ c \in Orders /\ c # Checkout
             /\ OrderOf(e) = c /\ c = EventOf[e].start /\ PaidWhen(c, EventOf[e].start)
<1>1. PICK e : e = requests[w].event
  OBVIOUS
<1>2. clock \in Nat /\ e \in Events /\ Type(e) = "renewal_paid" /\ EventOf[e].start <= clock
  BY <1>1, PayingIs
<1>3. OrderOf(e) = CycleKey(e)
  BY <1>1 DEF RenewalFits, OnItsWay
<1>4. /\ CycleKey(e) \in Orders /\ CycleKey(e) # Checkout
      /\ CycleKey(e) = EventOf[e].start /\ EventOf[e].start \in Nat
  BY <1>2, EventIs
<1> QED
  BY <1>1, <1>2, <1>3, <1>4 DEF PaidWhen

LEMMA LookupKeeps == ASSUME RenewalFits, NEW w \in Requests, Lookup(w) PROVE RenewalFits'
<1>1. requests[w].pc = "lookup"
  BY DEF Lookup, At
<1>2. PICK e, c : e = requests[w].event /\ c = CycleKey(e)
  OBVIOUS
<1>3. /\ requests \in [Requests -> Request]
      /\ e \in Events /\ Type(e) = "renewal_paid" /\ c \in Orders /\ OrderOf(e) = c
      /\ PaidWhen(c, EventOf[e].start)
  BY <1>1, <1>2, LookedUp DEF RenewalFits, RenewalsTyped
<1>4. UNCHANGED <<clock, inbox, received, records, failures, aborts>>
  BY DEF Lookup
<1>5. orderRows' = orderRows /\ clock' = clock
  BY <1>4 DEF records
<1>6. CASE orderRows[c] = None
  <2>1. Goto(w, "create", e)
    BY <1>2, <1>6 DEF Lookup
  <2>2. Onwards(w)
    BY <1>1, <1>2, <1>3, <2>1, ToStep
  <2> QED
    BY <1>1, <1>4, <2>2, OnwardsKeeps
<1>7. CASE orderRows[c] # None /\ Fulfills(w, c)
  <2>1. Onwards(w)
    BY <1>1, <1>2, <1>3, <1>5, <1>7, ToFulfill
  <2> QED
    BY <1>1, <1>4, <2>1, OnwardsKeeps
<1>8. CASE orderRows[c] # None /\ Writes(w, c, Paid(orderRows[c], EventOf[e].start))
  <2>1. PICK new : new = Paid(orderRows[c], EventOf[e].start)
    OBVIOUS
  <2>2. new \in Order /\ new.status = "paid" /\ PaidWhen(c, new.paidAt)
    BY <1>3, <1>8, <2>1, PaidFits
  <2>3. PaidWhen(c, new.paidAt)'
    BY <1>5, <2>2 DEF PaidWhen
  <2>4. Onwards(w)
    BY <1>1, <1>2, <1>3, <1>5, <1>8, <2>1, <2>2, <2>3, ToWrite
  <2> QED
    BY <1>1, <1>4, <2>4, OnwardsKeeps
<1> QED
  BY <1>2, <1>6, <1>7, <1>8 DEF Lookup

-----------------------------------------------------------------------------
(* The inbox, failures and time.                                           *)

LEMMA SettleKeeps == ASSUME RenewalFits, NEW w \in Requests, Settle(w) PROVE RenewalFits'
<1>1. requests[w].pc = "settle" /\ requests \in [Requests -> Request]
  BY DEF Settle, At, RenewalFits, RenewalsTyped
<1>2. PICK e, outcome : e = requests[w].event /\ outcome = requests[w].outcome
  OBVIOUS
<1>3. /\ e \in Events /\ outcome \in {"processed", "failed"}
      /\ outcome = "processed" => Effect(e)
  <2>1. OnItsWay(w)
    BY DEF RenewalFits
  <2> QED
    BY <1>1, <1>2, <2>1, HeldIs DEF OnItsWay
<1>4. inbox' = [inbox EXCEPT ![e] = outcome]
  BY <1>2 DEF Settle
<1>5. Moves(w, Resting)
  BY <1>1, Returns DEF Settle
<1>6. /\ inbox' \in [Events -> {"new", "processing", "failed", "processed"}]
      /\ \A d \in Events : inbox'[d] = "processed" => Effect(d)
  BY <1>3, <1>4 DEF RenewalFits, RenewalsTyped
<1>7. OnItsWay(w)'
  BY <1>5 DEF Moves, Resting, OnItsWay
<1>8. failures' \in 0..MaxFailures /\ aborts' \in 0..MaxAborts
  BY DEF Settle, RenewalFits, RenewalsTyped
<1>9. UNCHANGED <<clock, received, records>> /\ Resting.pc = "idle"
  BY DEF Settle, Resting
<1> QED
  BY <1>5, <1>6, <1>7, <1>8, <1>9, RowsStay

LEMMA CountUp ==
  ASSUME NEW m \in Nat, NEW n \in 0..m, n < m
  PROVE  n + 1 \in 0..m
  OBVIOUS

LEMMA FailsKeeps == ASSUME RenewalFits, NEW w \in Requests, Fails(w) PROVE RenewalFits'
<1>1. requests[w].pc # "idle" /\ requests \in [Requests -> Request]
  BY DEF Fails, At, RenewalFits, RenewalsTyped
<1>2. PICK e : e = requests[w].event
  OBVIOUS
<1>3. e \in Events /\ received[e] # None
  BY <1>1, <1>2, InHand DEF RenewalFits
<1>4. Onwards(w)
  BY <1>1, <1>2, ToSettle DEF Fails
<1>5. PICK r : Moves(w, r) /\ OnItsWay(w)' /\ (r.pc # "idle" => r.event = e)
  BY <1>2, <1>4 DEF Onwards
<1>6. failures' \in 0..MaxFailures /\ aborts' \in 0..MaxAborts
  BY CountUp, BoundsAssumption DEF Fails, RenewalFits, RenewalsTyped
<1>7. /\ inbox' \in [Events -> {"new", "processing", "failed", "processed"}]
      /\ \A d \in Events : inbox'[d] = "processed" => Effect(d)
  BY DEF Fails, RenewalFits, RenewalsTyped
<1>8. UNCHANGED <<clock, received, records>>
  BY DEF Fails
<1> QED
  BY <1>3, <1>5, <1>6, <1>7, <1>8, RowsStay

LEMMA AbortKeeps == ASSUME RenewalFits, NEW w \in Requests, Abort(w) PROVE RenewalFits'
<1>1. requests \in [Requests -> Request]
  BY DEF RenewalFits, RenewalsTyped
<1>2. Moves(w, Resting)
  BY <1>1, Returns DEF Abort
<1>3. OnItsWay(w)'
  BY <1>2 DEF Moves, Resting, OnItsWay
<1>4. failures' \in 0..MaxFailures /\ aborts' \in 0..MaxAborts
  BY CountUp, BoundsAssumption DEF Abort, RenewalFits, RenewalsTyped
<1>5. /\ inbox' \in [Events -> {"new", "processing", "failed", "processed"}]
      /\ \A d \in Events : inbox'[d] = "processed" => Effect(d)
  BY DEF Abort, RenewalFits, RenewalsTyped
<1>6. UNCHANGED <<clock, received, records>> /\ Resting.pc = "idle"
  BY DEF Abort, Resting
<1> QED
  BY <1>2, <1>3, <1>4, <1>5, <1>6, RowsStay

\* What is left of the invariant when the orders, the periods and the days of
\* grace have stayed.
LEMMA RecordsStay ==
  ASSUME RenewalFits, Onward, UNCHANGED records
  PROVE  /\ \A o \in Orders : RowFits(o)'
         /\ GivenForPay' /\ GracesRun' /\ PeriodsBegin' /\ PeriodsEnd'
<1>1. ASSUME NEW o \in Orders PROVE RowFits(o)'
  <2>1. RowFits(o) /\ clock \in Nat
    BY RowsAre DEF RenewalFits
  <2>2. PICK at : at = orderRows[o].paidAt
    OBVIOUS
  <2>3. PaidWhen(o, at) => PaidWhen(o, at)'
    BY <2>1, PaidWhenStays
  <2> QED
    BY <2>1, <2>2, <2>3 DEF RowFits, records
<1>2. GracesRun' /\ PeriodsBegin' /\ PeriodsEnd'
  BY DEF RenewalFits, GracesRun, PeriodsBegin, PeriodsEnd, Granted, records
<1>3. PaidPeriods \subseteq PaidPeriods'
  BY DEF PaidPeriods, Onward
<1>4. GivenForPay'
  BY <1>3 DEF RenewalFits, GivenForPay, Granted, records
<1> QED
  BY <1>1, <1>2, <1>4

LEMMA DeliverKeeps ==
  ASSUME RenewalFits, NEW w \in Requests, NEW e \in Events, Deliver(w, e) PROVE RenewalFits'
<1>1. RenewalsTyped /\ Announced /\ clock \in Nat /\ requests \in [Requests -> Request]
  BY RowsAre DEF RenewalFits, RenewalsTyped
<1>2. UNCHANGED <<clock, records, failures, aborts>> /\ AnnouncedAt(e) <= clock
  <2>1. AnnouncedAt(e) \in Nat
    BY EventIs DEF AnnouncedAt
  <2> QED
    BY <1>1, <2>1 DEF Deliver
<1>3. /\ \A d \in Events \ {e} : received'[d] = received[d]
      /\ received[e] # None => received'[e] = received[e]
      /\ received[e] = None => received'[e] = clock
      /\ received' \in [Events -> Times \cup {None}]
  BY DEF Deliver, RenewalFits, RenewalsTyped
<1>4. Onward
  BY <1>1, <1>2, <1>3 DEF Onward, records
<1>5. PICK r : r = [pc |-> Entry(e), event |-> e]
  OBVIOUS
<1>6. /\ Entry(e) \in {"read", "route", "tx"}
      /\ Entry(e) = "read" => Type(e) = "paid"
      /\ Entry(e) = "route" => Type(e) = "renewal_paid"
      /\ Entry(e) = "tx" => Type(e) \in {"renewal_failed", "subscription_expired"}
  BY EventIs DEF Entry
<1>7. Moves(w, r)
  BY <1>1, <1>5, <1>6, GoesTo DEF Deliver
<1>8. OnItsWay(w)'
  <2>1. requests'[w] = r /\ r.event = e /\ r.pc = Entry(e)
    BY <1>5, <1>7 DEF Moves
  <2> QED
    BY <1>6, <2>1 DEF OnItsWay
<1>9. \A v \in Requests : OnItsWay(v)'
  BY <1>1, <1>4, <1>7, <1>8, AllOnTheirWay DEF RenewalFits
<1>10. received'[e] # None /\ \A d \in Events : received'[d] # None => received'[d] <= clock' /\ AnnouncedAt(d) <= clock'
  <2>1. clock # None
    BY <1>1, NoneAssumption
  <2>2. received'[e] # None /\ (received'[e] # None => received'[e] <= clock' /\ AnnouncedAt(e) <= clock')
    BY <1>1, <1>2, <1>3, <2>1 DEF Announced
  <2>3. \A d \in Events \ {e} : received'[d] # None => received'[d] <= clock' /\ AnnouncedAt(d) <= clock'
    BY <1>1, <1>2, <1>3 DEF Announced
  <2> QED
    BY <2>2, <2>3
<1>11. Announced'
  <2>1. r.event = e
    BY <1>5
  <2> QED
    BY <1>1, <1>4, <1>7, <1>10, <2>1, AnnouncedStays
<1>12. inbox' = [inbox EXCEPT ![e] = "processing"]
  BY DEF Deliver
<1>13. RenewalsTyped'
  BY <1>1, <1>2, <1>3, <1>7, <1>12 DEF RenewalsTyped, Moves, records
<1>14. \A d \in Events : inbox'[d] = "processed" => Effect(d)'
  BY <1>1, <1>4, <1>12, EffectStays DEF RenewalFits, RenewalsTyped
<1>15. FirstRecorded'
  BY <1>2 DEF RenewalFits, FirstRecorded, records
<1>16. /\ \A o \in Orders : RowFits(o)'
       /\ GivenForPay' /\ GracesRun' /\ PeriodsBegin' /\ PeriodsEnd'
  BY <1>2, <1>4, RecordsStay
<1> QED
  BY <1>9, <1>11, <1>13, <1>14, <1>15, <1>16 DEF RenewalFits

LEMMA TimePassesKeeps == ASSUME RenewalFits, TimePasses PROVE RenewalFits'
<1>1. RenewalsTyped /\ Announced /\ clock \in Nat
  BY RowsAre DEF RenewalFits
<1>2. /\ UNCHANGED <<inbox, received, records, requests, failures, aborts>>
      /\ clock' = clock + 1 /\ clock < LastTime
  BY DEF TimePasses
<1>3. Onward
  BY <1>1, <1>2 DEF Onward, records
<1>4. RenewalsTyped'
  <2>1. clock' \in Times
    BY <1>1, <1>2, BoundsAssumption DEF Times
  <2> QED
    BY <1>1, <1>2, <2>1 DEF RenewalsTyped, records
<1>5. Announced'
  <2>1. ASSUME NEW e \in Events, received[e] # None PROVE received[e] <= clock' /\ AnnouncedAt(e) <= clock'
    <3>1. received[e] \in Nat /\ AnnouncedAt(e) \in Nat /\ received[e] <= clock /\ AnnouncedAt(e) <= clock
      BY <1>1, <2>1, RowsAre, EventIs DEF Announced, AnnouncedAt
    <3> QED
      BY <1>1, <1>2, <3>1
  <2> QED
    BY <1>1, <1>2, <2>1 DEF Announced
<1>6. \A v \in Requests : OnItsWay(v)'
  <2>1. ASSUME NEW v \in Requests PROVE OnItsWay(v)'
    BY <1>1, <1>2, <1>3, OthersKeep DEF RenewalFits
  <2> QED
    BY <2>1
<1>7. FirstRecorded'
  <2> SUFFICES ASSUME NEW t \in Deadlines, FirstStart <= t, t <= FirstStart + Tolerance,
                      orderRows[Checkout].paidAt = None
               PROVE  clock + 1 <= t
    BY <1>2 DEF FirstRecorded, records
  <2>1. clock <= t /\ t \in Nat
    BY DeadlinesAssumption DEF RenewalFits, FirstRecorded
  <2>2. clock # t
    BY DEF TimePasses, Outlasted
  <2> QED
    BY <1>1, <2>1, <2>2
<1>8. \A e \in Events : inbox'[e] = "processed" => Effect(e)'
  BY <1>2, <1>3, EffectStays DEF RenewalFits
<1>9. /\ \A o \in Orders : RowFits(o)'
      /\ GivenForPay' /\ GracesRun' /\ PeriodsBegin' /\ PeriodsEnd'
  BY <1>2, <1>3, RecordsStay
<1> QED
  BY <1>4, <1>5, <1>6, <1>7, <1>8, <1>9 DEF RenewalFits

LEMMA SubscriptionStarts == ASSUME NewSubscription PROVE RenewalFits
<1>1. RenewalsTyped
  <2>1. orderRows \in [Orders -> Order \cup {None}] /\ orderRows[Checkout] # None
    <3>1. Checkout \in Orders
      BY DEF Orders
    <3>2. [status |-> "pending", paidAt |-> None] \in Order
      BY DEF Order
    <3> QED
      BY <3>1, <3>2, OrderRow DEF NewSubscription
  <2>2. \A o \in Orders : orderRows[o] # None => orderRows[o].status = "pending"
    BY DEF NewSubscription
  <2>3. clock \in Times /\ failures \in 0..MaxFailures /\ aborts \in 0..MaxAborts
    BY BoundsAssumption DEF NewSubscription, Times
  <2>4. requests \in [Requests -> Request]
    BY DEF NewSubscription, Resting, Request
  <2>5. /\ inbox \in [Events -> {"new", "processing", "failed", "processed"}]
        /\ received \in [Events -> Times \cup {None}]
        /\ periods \in [Orders -> Nat \cup {None}]
        /\ graces \in [Cycles -> Grace \cup {None}]
    BY DEF NewSubscription
  <2> QED
    BY <2>1, <2>2, <2>3, <2>4, <2>5 DEF RenewalsTyped
<1>2. /\ Granted = {} /\ \A c \in Cycles : graces[c] = None
      /\ \A e \in Events : received[e] = None /\ inbox[e] = "new"
      /\ \A w \in Requests : requests[w] = Resting
      /\ \A o \in Orders : periods[o] = None
      /\ clock = 0
  BY DEF NewSubscription, Granted
<1>3. Announced /\ \A w \in Requests : OnItsWay(w)
  BY <1>2 DEF Announced, OnItsWay, Resting
<1>4. \A o \in Orders : RowFits(o)
  BY <1>2 DEF NewSubscription, RowFits
<1>5. FirstRecorded
  BY <1>2, DeadlinesAssumption DEF FirstRecorded
<1>6. GivenForPay /\ GracesRun /\ PeriodsBegin /\ PeriodsEnd
  BY <1>2 DEF GivenForPay, GracesRun, PeriodsBegin, PeriodsEnd
<1> QED
  BY <1>1, <1>2, <1>3, <1>4, <1>5, <1>6 DEF RenewalFits

-----------------------------------------------------------------------------
(* Orders are written.                                                     *)

\* What is left to see of a request's step that writes rows.
LEMMA WritesKeep ==
  ASSUME RenewalFits, NEW w \in Requests, requests[w].pc # "idle", Onwards(w), Onward,
         UNCHANGED <<clock, inbox, received>>, RenewalsTyped',
         \A o \in Orders : RowFits(o)', GivenForPay', GracesRun', PeriodsBegin', PeriodsEnd'
  PROVE  RenewalFits'
<1>1. PICK r : Moves(w, r) /\ OnItsWay(w)' /\ (r.pc # "idle" => r.event = requests[w].event)
  BY DEF Onwards
<1>2. RenewalsTyped /\ Announced /\ \A v \in Requests : OnItsWay(v)
  BY DEF RenewalFits
<1>3. Announced'
  <2>1. requests[w].event \in Events /\ received[requests[w].event] # None
    BY <1>2, InHand
  <2>2. r.pc # "idle" => r.event \in Events /\ received'[r.event] # None
    BY <1>1, <2>1
  <2>3. \A e \in Events : received'[e] # None => received'[e] <= clock' /\ AnnouncedAt(e) <= clock'
    BY <1>2 DEF Announced
  <2> QED
    BY <1>1, <1>2, <2>2, <2>3, AnnouncedStays
<1>4. \A v \in Requests : OnItsWay(v)'
  BY <1>1, <1>2, AllOnTheirWay
<1>5. FirstRecorded'
  BY DEF RenewalFits, FirstRecorded, Onward
<1>6. \A e \in Events : inbox'[e] = "processed" => Effect(e)'
  BY EffectStays DEF RenewalFits
<1> QED
  BY <1>3, <1>4, <1>5, <1>6 DEF RenewalFits

\* A request saves a row of its order that is paid: the row says when, and what
\* the order has given stays given.
LEMMA SavedKeeps ==
  ASSUME RenewalFits, NEW w \in Requests, requests[w].pc # "idle",
         NEW o \in Orders, NEW row \in Order, row.status = "paid", PaidWhen(o, row.paidAt),
         orderRows' = [orderRows EXCEPT ![o] = row], Onwards(w),
         UNCHANGED <<clock, inbox, received, periods, graces, failures, aborts>>
  PROVE  RenewalFits'
<1>1. row # None /\ row.paidAt \in Nat /\ row.paidAt # None
  BY OrderRow, NoneAssumption DEF PaidWhen
<1>2. /\ orderRows'[o] = row /\ \A p \in Orders \ {o} : orderRows'[p] = orderRows[p]
      /\ orderRows' \in [Orders -> Order \cup {None}] /\ clock \in Nat
  BY RowsAre DEF RenewalFits, RenewalsTyped
<1>3. Onward
  <2>1. \A p \in Orders : orderRows[p] # None => orderRows'[p] # None
    BY <1>1, <1>2
  <2>2. orderRows[Checkout].paidAt # None => orderRows'[Checkout].paidAt # None
    BY <1>1, <1>2, CheckoutRow
  <2> QED
    BY <1>2, <2>1, <2>2 DEF Onward
<1>4. RenewalsTyped'
  <2>1. requests' \in [Requests -> Request]
    BY DEF Onwards, Moves
  <2>2. \A p \in Orders : orderRows'[p] # None =>
          (orderRows'[p].status \in {"paid", "fulfilled"} => orderRows'[p].paidAt # None)
    BY <1>1, <1>2 DEF RenewalFits, RenewalsTyped
  <2>3. orderRows'[Checkout] # None
    BY <1>1, <1>2, CheckoutRow
  <2> QED
    BY <1>2, <2>1, <2>2, <2>3 DEF RenewalFits, RenewalsTyped
<1>5. ASSUME NEW p \in Orders PROVE RowFits(p)'
  <2>1. CASE p = o
    BY <1>1, <1>2, <2>1 DEF RowFits, PaidWhen
  <2>2. CASE p # o
    <3>1. orderRows'[p] = orderRows[p] /\ RowFits(p)
      BY <1>2, <2>2 DEF RenewalFits
    <3> QED
      BY <3>1 DEF RowFits, PaidWhen
  <2> QED
    BY <2>1, <2>2
<1>6. GivenForPay' /\ GracesRun' /\ PeriodsBegin' /\ PeriodsEnd'
  BY DEF RenewalFits, GivenForPay, GracesRun, PeriodsBegin, PeriodsEnd, Granted, PaidPeriods
<1> QED
  BY <1>3, <1>4, <1>5, <1>6, WritesKeep

LEMMA CreateKeeps == ASSUME RenewalFits, NEW w \in Requests, Create(w) PROVE RenewalFits'
<1>1. requests[w].pc = "create"
  BY DEF Create, At
<1>2. PICK e, c : e = requests[w].event /\ c = CycleKey(e)
  OBVIOUS
<1>3. /\ requests \in [Requests -> Request] /\ orderRows \in [Orders -> Order \cup {None}]
      /\ e \in Events /\ Type(e) = "renewal_paid" /\ c \in Orders /\ OrderOf(e) = c
      /\ PaidWhen(c, EventOf[e].start) /\ EventOf[e].start \in Nat
  BY <1>1, <1>2, LookedUp DEF RenewalFits, RenewalsTyped, PaidWhen
<1>4. PICK row : row = [status |-> "paid", paidAt |-> EventOf[e].start]
  OBVIOUS
<1>5. row \in Order /\ row.status = "paid" /\ row.paidAt = EventOf[e].start /\ row # None
  BY <1>3, <1>4, OrderRow DEF Order
<1>6. CASE orderRows' = [orderRows EXCEPT ![c] = row] /\ Writes(w, c, row)
  <2>1. orderRows'[c] # None
    BY <1>3, <1>5, <1>6
  <2>2. UNCHANGED <<clock, inbox, received, periods, graces, failures, aborts>>
    BY DEF Create
  <2>3. PaidWhen(c, row.paidAt) /\ PaidWhen(c, row.paidAt)'
    BY <1>3, <1>5, <2>2 DEF PaidWhen
  <2>4. Onwards(w)
    BY <1>1, <1>2, <1>3, <1>5, <1>6, <2>1, <2>3, ToWrite
  <2> QED
    BY <1>1, <1>3, <1>5, <1>6, <2>2, <2>3, <2>4, SavedKeeps
<1>7. CASE Goto(w, "lookup", e) /\ UNCHANGED orderRows
  <2>1. Onwards(w)
    BY <1>1, <1>2, <1>3, <1>7, ToStep
  <2>2. UNCHANGED <<clock, inbox, received, records, failures, aborts>>
    BY <1>7 DEF Create, records
  <2> QED
    BY <1>1, <2>1, <2>2, OnwardsKeeps
<1> QED
  BY <1>2, <1>4, <1>6, <1>7 DEF Create

LEMMA WriteKeeps == ASSUME RenewalFits, NEW w \in Requests, Write(w) PROVE RenewalFits'
<1>1. requests[w].pc = "write"
  BY DEF Write, At
<1>2. PICK e, o, row : e = requests[w].event /\ o = requests[w].order /\ row = requests[w].row
  OBVIOUS
<1>3. requests \in [Requests -> Request] /\ e \in Events
  BY <1>1, <1>2, PayingIs
<1>4. o \in Orders /\ row \in Order
  BY <1>1, <1>2, <1>3, HeldIs
<1>5. /\ Type(e) \in {"paid", "renewal_paid"} /\ o = OrderOf(e)
      /\ row.status = "paid" /\ PaidWhen(o, row.paidAt)
  BY <1>1, <1>2 DEF RenewalFits, OnItsWay
<1>6. /\ orderRows' = [orderRows EXCEPT ![o] = row] /\ Fulfills(w, o)
      /\ UNCHANGED <<clock, inbox, received, periods, graces, failures, aborts>>
  BY <1>2 DEF Write
<1>7. orderRows'[o] # None
  BY <1>4, <1>6, OrderRow DEF RenewalFits, RenewalsTyped
<1>8. Onwards(w)
  BY <1>1, <1>2, <1>3, <1>4, <1>5, <1>6, <1>7, ToFulfill
<1> QED
  BY <1>1, <1>4, <1>5, <1>6, <1>8, SavedKeeps

-----------------------------------------------------------------------------
(* Fulfillment.                                                            *)

\* Where a paid period starts that is given now for a payment made then.
LEMMA AnchorIs ==
  ASSUME RenewalsTyped, GracesRun, PeriodsEnd, NEW at \in Nat
  PROVE  /\ Anchor(at) \in Nat
         /\ \/ /\ \E p \in Granted : periods[p] = Anchor(at)
               /\ \A o \in Granted : periods[o] <= Anchor(at)
            \/ /\ Anchor(at) <= at
               /\ \A o \in Granted : periods[o] <= clock \/ periods[o] <= at
               /\ Anchor(at) = at \/ Anchor(at) + GracePeriod > clock
<1> DEFINE paid == {p \in {periods[o] : o \in Orders} \ {None} : p > clock /\ p > at}
           running == {d \in Cycles : /\ graces[d] # None
                                      /\ graces[d].status = "active"
                                      /\ graces[d].end > clock
                                      /\ graces[d].start < at}
           grace == {graces[c].start : c \in running}
<1>1. PICK b \in Nat : \A o \in Granted : periods[o] <= b
  BY DEF PeriodsEnd
<1>2. clock \in Nat /\ \A o \in Granted : o \in Orders /\ periods[o] # None /\ periods[o] \in Nat
  BY RowsAre DEF Granted
<1>3. \A p \in paid : \E o \in Granted : periods[o] = p
  BY DEF Granted
<1>4. \A o \in Granted : periods[o] > clock /\ periods[o] > at => periods[o] \in paid
  BY <1>2
<1>5. paid \in SUBSET Nat /\ \A p \in paid : p <= b
  BY <1>1, <1>2, <1>3
<1>6. \A d \in running : /\ graces[d].start \in Nat /\ graces[d].start < at
                         /\ graces[d].start + GracePeriod > clock
  <2> SUFFICES ASSUME NEW d \in running
               PROVE  /\ graces[d].start \in Nat /\ graces[d].start < at
                      /\ graces[d].start + GracePeriod > clock
    OBVIOUS
  <2>1. graces[d] \in Grace /\ graces[d].end = graces[d].start + GracePeriod
    BY RowsAre DEF GracesRun
  <2> QED
    BY <2>1, GraceRow
<1>7. grace \in SUBSET Nat /\ \A g \in grace : g <= at /\ g + GracePeriod > clock
  BY <1>6
<1>8. Anchor(at) = CASE paid # {} -> Max(paid)
                     [] paid = {} /\ grace # {} -> Max(grace)
                     [] OTHER -> at
  BY DEF Anchor
<1> HIDE DEF paid, grace, running
<1>9. CASE paid # {}
  <2>1. Max(paid) \in paid /\ \A p \in paid : p <= Max(paid)
    BY <1>5, <1>9, LargestIs
  <2>2. PICK m : m = Max(paid)
    OBVIOUS
  <2>3. Anchor(at) = m /\ m \in paid /\ \A p \in paid : p <= m
    BY <1>8, <1>9, <2>1, <2>2
  <2>4. m \in Nat /\ m > clock /\ m > at
    BY <1>5, <2>3 DEF paid
  <2>5. \A o \in Granted : periods[o] <= m
    BY <1>2, <1>4, <2>3, <2>4
  <2> QED
    BY <1>3, <2>3, <2>4, <2>5
<1>10. CASE paid = {}
  <2>1. \A o \in Granted : periods[o] <= clock \/ periods[o] <= at
    BY <1>2, <1>4, <1>10
  <2>2. CASE grace # {}
    <3>1. Max(grace) \in grace
      BY <1>7, <2>2, LargestIs
    <3>2. Anchor(at) = Max(grace)
      BY <1>8, <1>10, <2>2
    <3> QED
      BY <1>7, <2>1, <3>1, <3>2
  <2>3. CASE grace = {}
    <3>1. Anchor(at) = at
      BY <1>8, <1>10, <2>3
    <3> QED
      BY <2>1, <3>1
  <2> QED
    BY <2>2, <2>3
<1> QED
  BY <1>9, <1>10

\* What a fulfillment finds: the order of the event in hand, with its time of
\* payment.
LEMMA FulfillFinds ==
  ASSUME RenewalFits, NEW w \in Requests, requests[w].pc = "fulfill"
  PROVE  LET e == requests[w].event
             o == requests[w].order
         IN  /\ requests \in [Requests -> Request] /\ clock \in Nat
             /\ e \in Events /\ Type(e) \in {"paid", "renewal_paid"} /\ received[e] # None
             /\ o \in Orders /\ o = OrderOf(e) /\ orderRows[o] \in Order /\ RowFits(o)
             /\ orderRows[o].status = "paid" => /\ orderRows[o].paidAt \in Nat
                                                /\ PaidWhen(o, orderRows[o].paidAt)
<1>1. PICK e, o : e = requests[w].event /\ o = requests[w].order
  OBVIOUS
<1>2. /\ requests \in [Requests -> Request] /\ clock \in Nat
      /\ e \in Events /\ Type(e) \in {"paid", "renewal_paid"} /\ received[e] # None
  BY <1>1, PayingIs
<1>3. o \in Orders
  BY <1>1, <1>2, HeldIs
<1>4. o = OrderOf(e) /\ orderRows[o] # None
  BY <1>1 DEF RenewalFits, OnItsWay
<1>5. RowFits(o)
  BY <1>3 DEF RenewalFits
<1>6. orderRows[o] \in Order /\ (orderRows[o].status = "paid" => orderRows[o].paidAt \in Nat)
  BY <1>3, <1>4, RowsAre DEF RenewalFits
<1>7. orderRows[o].status = "paid" => PaidWhen(o, orderRows[o].paidAt)
  BY <1>4, <1>5, <1>6, NoneAssumption DEF RowFits
<1> QED
  BY <1>1, <1>2, <1>3, <1>4, <1>5, <1>6, <1>7

\* An order that is paid gets its period, if it has none, and is fulfilled.
LEMMA FulfillGives ==
  ASSUME RenewalFits, NEW w \in Requests, Fulfill(w),
         NEW o, o = requests[w].order, orderRows[o].status = "paid"
  PROVE  /\ o \in Orders
         /\ orderRows'[o] \in Order /\ orderRows'[o].status = "fulfilled"
         /\ orderRows'[o].paidAt = orderRows[o].paidAt
         /\ \A p \in Orders \ {o} : orderRows'[p] = orderRows[p] /\ periods'[p] = periods[p]
         /\ orderRows' \in [Orders -> Order \cup {None}] /\ periods' \in [Orders -> Nat \cup {None}]
         /\ periods'[o] \in Nat /\ periods'[o] # None
         /\ periods'[o] = IF periods[o] # None THEN periods[o]
                          ELSE Anchor(orderRows[o].paidAt) + BillingPeriod
<1>1. requests[w].pc = "fulfill"
  BY DEF Fulfill, At
<1>2. o \in Orders /\ orderRows[o] \in Order /\ orderRows[o].paidAt \in Nat
  BY <1>1, FulfillFinds
<1>3. /\ orderRows' = [orderRows EXCEPT ![o].status = "fulfilled"]
      /\ periods' = IF periods[o] # None THEN periods
                    ELSE [periods EXCEPT ![o] = Anchor(orderRows[o].paidAt) + BillingPeriod]
  BY DEF Fulfill
<1>4. orderRows \in [Orders -> Order \cup {None}] /\ periods \in [Orders -> Nat \cup {None}]
  BY DEF RenewalFits, RenewalsTyped
<1>5. Anchor(orderRows[o].paidAt) \in Nat
  BY <1>2, AnchorIs DEF RenewalFits
<1>6. PICK row : row = [orderRows[o] EXCEPT !.status = "fulfilled"]
  OBVIOUS
<1>7. row \in Order /\ row.status = "fulfilled" /\ row.paidAt = orderRows[o].paidAt
  BY <1>2, <1>6 DEF Order
<1>8. orderRows' = [orderRows EXCEPT ![o] = row]
  BY <1>3, <1>6
<1>9. /\ orderRows'[o] = row /\ orderRows' \in [Orders -> Order \cup {None}]
      /\ \A p \in Orders \ {o} : orderRows'[p] = orderRows[p]
  BY <1>2, <1>4, <1>7, <1>8
<1>10. PICK end : end = IF periods[o] # None THEN periods[o]
                        ELSE Anchor(orderRows[o].paidAt) + BillingPeriod
  OBVIOUS
<1>11. end \in Nat /\ end # None
  BY <1>2, <1>4, <1>5, <1>10, LengthsAssumption, NoneAssumption
<1>12. /\ periods'[o] = end /\ periods' \in [Orders -> Nat \cup {None}]
       /\ \A p \in Orders \ {o} : periods'[p] = periods[p]
  BY <1>2, <1>3, <1>4, <1>10, <1>11
<1> QED
  BY <1>2, <1>7, <1>9, <1>10, <1>11, <1>12

\* A new period begins where a former one ends, or when its own cycle does.
LEMMA PeriodBegins ==
  ASSUME RenewalFits, NEW w \in Requests, Fulfill(w),
         NEW o, o = requests[w].order, orderRows[o].status = "paid", periods[o] = None
  PROVE  \/ Anchor(orderRows[o].paidAt) <= LatestBegin(o)
         \/ \E p \in Granted : periods[p] = Anchor(orderRows[o].paidAt)
<1>1. requests[w].pc = "fulfill"
  BY DEF Fulfill, At
<1>2. PICK at : at = orderRows[o].paidAt
  OBVIOUS
<1>3. at \in Nat /\ PaidWhen(o, at)
  BY <1>1, <1>2, FulfillFinds
<1>4. Anchor(at) \in Nat /\ ((\E p \in Granted : periods[p] = Anchor(at)) \/ Anchor(at) <= at)
  BY <1>3, AnchorIs DEF RenewalFits
<1>5. at <= LatestBegin(o) /\ LatestBegin(o) \in Nat
  BY <1>3, FirstIs, LengthsAssumption DEF PaidWhen, LatestBegin
<1> QED
  BY <1>2, <1>3, <1>4, <1>5

LEMMA FulfillPaidKeeps ==
  ASSUME RenewalFits, NEW w \in Requests, Fulfill(w), orderRows[requests[w].order].status = "paid"
  PROVE  RenewalFits'
<1>1. requests[w].pc = "fulfill" /\ Settles(w, "processed")
  BY DEF Fulfill, At
<1>2. PICK e, o : e = requests[w].event /\ o = requests[w].order
  OBVIOUS
<1>3. /\ requests \in [Requests -> Request] /\ clock \in Nat
      /\ e \in Events /\ Type(e) \in {"paid", "renewal_paid"} /\ received[e] # None
      /\ o \in Orders /\ o = OrderOf(e) /\ RowFits(o)
      /\ orderRows[o].paidAt \in Nat /\ PaidWhen(o, orderRows[o].paidAt)
  BY <1>1, <1>2, FulfillFinds
<1>4. /\ orderRows'[o] \in Order /\ orderRows'[o].status = "fulfilled"
      /\ orderRows'[o].paidAt = orderRows[o].paidAt
      /\ \A p \in Orders \ {o} : orderRows'[p] = orderRows[p] /\ periods'[p] = periods[p]
      /\ orderRows' \in [Orders -> Order \cup {None}] /\ periods' \in [Orders -> Nat \cup {None}]
      /\ periods'[o] \in Nat /\ periods'[o] # None
      /\ periods'[o] = IF periods[o] # None THEN periods[o]
                       ELSE Anchor(orderRows[o].paidAt) + BillingPeriod
  BY <1>2, FulfillGives
<1>5. UNCHANGED <<clock, inbox, received, graces, failures, aborts>>
  BY DEF Fulfill
<1>6. Onward
  <2>1. \A p \in Orders : /\ orderRows[p] # None => orderRows'[p] # None
                          /\ periods[p] # None => periods'[p] = periods[p]
    BY <1>4, OrderRow
  <2>2. orderRows[Checkout].paidAt # None => orderRows'[Checkout].paidAt # None
    BY <1>4, CheckoutRow
  <2> QED
    BY <1>3, <1>5, <2>1, <2>2 DEF Onward
<1>7. Onwards(w)
  <2>1. Effect(e)'
    BY <1>3, <1>4 DEF Effect
  <2> QED
    BY <1>1, <1>2, <1>3, <2>1, ToSettle
<1>8. RenewalsTyped'
  <2>1. requests' \in [Requests -> Request]
    BY <1>7 DEF Onwards, Moves
  <2>2. \A p \in Orders : orderRows'[p] # None =>
          (orderRows'[p].status \in {"paid", "fulfilled"} => orderRows'[p].paidAt # None)
    BY <1>3, <1>4, NoneAssumption DEF RenewalFits, RenewalsTyped
  <2>3. orderRows'[Checkout] # None
    BY <1>6, CheckoutRow DEF Onward
  <2> QED
    BY <1>4, <1>5, <2>1, <2>2, <2>3 DEF RenewalFits, RenewalsTyped
<1>9. ASSUME NEW p \in Orders PROVE RowFits(p)'
  <2>1. CASE p = o
    <3>1. PICK at : at = orderRows[o].paidAt
      OBVIOUS
    <3>2. PaidWhen(o, at)'
      BY <1>3, <1>5, <3>1 DEF PaidWhen
    <3> QED
      BY <1>4, <2>1, <3>1, <3>2, OrderRow DEF RowFits
  <2>2. CASE p # o
    <3>1. orderRows'[p] = orderRows[p] /\ periods'[p] = periods[p] /\ RowFits(p)
      BY <1>4, <2>2 DEF RenewalFits
    <3> QED
      BY <1>5, <3>1 DEF RowFits, PaidWhen
  <2> QED
    BY <2>1, <2>2
<1>10. Granted' = Granted \cup {o} /\ \A p \in Granted : periods'[p] = periods[p]
  BY <1>3, <1>4 DEF Granted
<1>11. GivenForPay'
  <2>1. PaidPeriods' = PaidPeriods
    BY <1>5 DEF PaidPeriods
  <2>2. PeriodOf(o) = EventOf[e].start /\ (o # Checkout => o # FirstStart)
    BY <1>3, OrderIs
  <2>3. PeriodOf(o) \in PaidPeriods
    BY <1>3, <2>2 DEF PaidPeriods
  <2> QED
    BY <1>10, <2>1, <2>2, <2>3 DEF RenewalFits, GivenForPay
<1>12. GracesRun'
  BY <1>5 DEF RenewalFits, GracesRun
<1>13. PeriodsBegin'
  <2> SUFFICES ASSUME NEW p \in Granted'
               PROVE  \/ periods'[p] - BillingPeriod <= LatestBegin(p)
                      \/ \E q \in Granted' : periods'[q] = periods'[p] - BillingPeriod
    BY DEF PeriodsBegin
  <2>1. CASE p \in Granted
    <3>1. \/ periods[p] - BillingPeriod <= LatestBegin(p)
          \/ \E q \in Granted : periods[q] = periods[p] - BillingPeriod
      BY <2>1 DEF RenewalFits, PeriodsBegin
    <3> QED
      BY <1>10, <2>1, <3>1
  <2>2. CASE p \notin Granted
    <3>1. p = o /\ periods[o] = None
      BY <1>3, <1>10, <2>2 DEF Granted
    <3>2. PICK a : a = Anchor(orderRows[o].paidAt)
      OBVIOUS
    <3>3. a \in Nat /\ periods'[o] = a + BillingPeriod
      BY <1>3, <1>4, <3>1, <3>2, AnchorIs DEF RenewalFits
    <3>4. periods'[o] - BillingPeriod = a
      BY <3>3, LengthsAssumption
    <3>5. a <= LatestBegin(o) \/ \E q \in Granted : periods[q] = a
      BY <1>2, <3>1, <3>2, PeriodBegins
    <3> QED
      BY <1>10, <3>1, <3>4, <3>5
  <2> QED
    BY <2>1, <2>2
<1>14. PeriodsEnd'
  <2>1. PICK b \in Nat : \A p \in Granted : periods[p] <= b
    BY DEF RenewalFits, PeriodsEnd
  <2>2. PICK end : end = periods'[o]
    OBVIOUS
  <2>3. end \in Nat /\ b + end \in Nat /\ \A p \in Granted : periods[p] \in Nat
    BY <1>4, <2>1, <2>2, RowsAre DEF RenewalFits, Granted
  <2>4. \A p \in Granted' : periods'[p] <= b + end
    BY <1>10, <2>1, <2>2, <2>3
  <2> QED
    BY <2>3, <2>4 DEF PeriodsEnd
<1>15. requests[w].pc # "idle" /\ UNCHANGED <<clock, inbox, received>>
  BY <1>1, <1>5
<1> QED
  BY <1>6, <1>7, <1>8, <1>9, <1>11, <1>12, <1>13, <1>14, <1>15, WritesKeep

LEMMA FulfillKeeps == ASSUME RenewalFits, NEW w \in Requests, Fulfill(w) PROVE RenewalFits'
<1>1. requests[w].pc = "fulfill"
  BY DEF Fulfill, At
<1>2. PICK e, o : e = requests[w].event /\ o = requests[w].order
  OBVIOUS
<1>3. CASE orderRows[o].status = "paid"
  BY <1>2, <1>3, FulfillPaidKeeps
<1>4. CASE orderRows[o].status # "paid"
  <2>1. /\ requests \in [Requests -> Request] /\ e \in Events
        /\ Type(e) \in {"paid", "renewal_paid"}
        /\ o = OrderOf(e) /\ orderRows[o] \in Order /\ RowFits(o)
    BY <1>1, <1>2, FulfillFinds
  <2>2. PICK outcome : outcome = IF orderRows[o].status = "fulfilled" THEN "processed" ELSE "failed"
    OBVIOUS
  <2>3. Settles(w, outcome) /\ UNCHANGED <<clock, inbox, received, records, failures, aborts>>
    BY <1>2, <1>4, <2>2 DEF Fulfill, records
  <2>4. outcome = "processed" => Effect(e)'
    <3> SUFFICES ASSUME outcome = "processed" PROVE Effect(e)'
      OBVIOUS
    <3>1. periods[o] # None
      BY <2>1, <2>2, OrderRow DEF RowFits
    <3> QED
      BY <2>1, <2>3, <3>1 DEF Effect, records
  <2>5. Onwards(w)
    BY <1>1, <1>2, <2>1, <2>2, <2>3, <2>4, ToSettle
  <2> QED
    BY <1>1, <2>3, <2>5, OnwardsKeeps
<1> QED
  BY <1>3, <1>4

-----------------------------------------------------------------------------
(* Failed renewals and expiries.                                           *)

\* The cycle's row keeps what it says of a payment.
LEMMA UnpaidIs ==
  ASSUME RenewalsTyped, NEW e \in Events
  PROVE  LET row == orderRows[CycleKey(e)]
             new == Unpaid(e)
         IN  /\ new \in Order
             /\ row = None => new.status = "failed" /\ new.paidAt = None
             /\ row # None => new.paidAt = row.paidAt
             /\ row # None /\ row.status \in {"paid", "fulfilled"} => new = row
             /\ row # None /\ row.status \notin {"paid", "fulfilled"}
                  => new.status \notin {"paid", "fulfilled"}
<1>1. PICK row, new : row = orderRows[CycleKey(e)] /\ new = Unpaid(e)
  OBVIOUS
<1>2. CycleKey(e) \in Orders /\ (row # None => row \in Order)
  BY <1>1, EventIs, RowsAre
<1>3. CASE row = None
  <2>1. new = [status |-> "failed", paidAt |-> None]
    BY <1>1, <1>3 DEF Unpaid
  <2> QED
    BY <1>1, <1>3, <2>1 DEF Order
<1>4. CASE row # None /\ row.status \in {"paid", "fulfilled"}
  <2>1. new = row
    BY <1>1, <1>4 DEF Unpaid
  <2> QED
    BY <1>1, <1>2, <1>4, <2>1
<1>5. CASE row # None /\ row.status \notin {"paid", "fulfilled"}
  <2>1. new = row \/ new = [row EXCEPT !.status = "failed"]
    BY <1>1, <1>5 DEF Unpaid
  <2>2. new \in Order /\ new.paidAt = row.paidAt /\ new.status \notin {"paid", "fulfilled"}
    BY <1>2, <1>5, <2>1 DEF Order
  <2> QED
    BY <1>1, <1>5, <2>2
<1> QED
  BY <1>3, <1>4, <1>5

\* Days of grace that are over: only their end and their status change.
LEMMA ExpiredIs ==
  ASSUME RenewalsTyped, NEW at \in Nat, NEW c \in Cycles
  PROVE  LET old == graces[c]
             new == ExpireGraces(at)[c]
         IN  \/ new = old
             \/ /\ old # None /\ new \in Grace /\ new.status = "expired"
                /\ old.end <= at /\ old.end \in Nat
<1>1. PICK old, new : old = graces[c] /\ new = ExpireGraces(at)[c]
  OBVIOUS
<1>2. new = IF Ended(old, at) THEN [old EXCEPT !.end = at, !.status = "expired"] ELSE old
  BY <1>1 DEF ExpireGraces
<1>3. CASE Ended(old, at)
  <2>1. old # None /\ old.end <= at
    BY <1>3 DEF Ended
  <2>2. old \in Grace
    BY <1>1, <2>1, RowsAre
  <2>3. new \in Grace /\ new.status = "expired"
    BY <1>2, <1>3, <2>2 DEF Grace
  <2> QED
    BY <1>1, <2>1, <2>2, <2>3, GraceRow
<1>4. CASE ~Ended(old, at)
  BY <1>1, <1>2, <1>4
<1> QED
  BY <1>3, <1>4

\* What a failed renewal or an expiry does to the days of grace.
LEMMA GracesAfter ==
  ASSUME RenewalFits, NEW w \in Requests, ApplyUnpaid(w)
  PROVE  LET e == requests[w].event
         IN  /\ graces' \in [Cycles -> Grace \cup {None}]
             /\ \A c \in Cycles :
                  \/ graces'[c] = graces[c]
                  \/ /\ graces[c] = None /\ graces'[c] # None
                     /\ graces'[c].end = graces'[c].start + GracePeriod
                  \/ /\ graces[c] # None /\ graces'[c] # None /\ graces'[c].status = "expired"
                     /\ clock >= graces[c].end
             /\ Type(e) = "renewal_failed" => graces'[CycleKey(e)] # None
<1>1. PICK e : e = requests[w].event
  OBVIOUS
<1>2. requests[w].pc # "idle"
  BY DEF ApplyUnpaid, At
<1>3. /\ e \in Events /\ received[e] \in Nat /\ received[e] <= clock /\ clock \in Nat
      /\ CycleKey(e) \in Cycles /\ EventOf[e].end \in Nat
      /\ graces \in [Cycles -> Grace \cup {None}] /\ RenewalsTyped
  BY <1>1, <1>2, InHand, EventIs, RowsAre DEF RenewalFits, RenewalsTyped
<1>4. CASE Type(e) = "renewal_failed"
  <2>1. PICK g : g = [start |-> EventOf[e].end, end |-> EventOf[e].end + GracePeriod, status |-> "active"]
    OBVIOUS
  <2>2. g \in Grace /\ g # None /\ g.end = g.start + GracePeriod
    BY <1>3, <2>1, LengthsAssumption, NoRowAssumption DEF Grace
  <2>3. graces' = IF graces[CycleKey(e)] # None THEN graces ELSE [graces EXCEPT ![CycleKey(e)] = g]
    BY <1>1, <1>4, <2>1 DEF ApplyUnpaid, GraceFor
  <2> QED
    BY <1>1, <1>3, <2>2, <2>3
<1>5. CASE Type(e) # "renewal_failed" /\ ExpiredAction = "expire_grace"
  <2>1. graces' = ExpireGraces(received[e])
    BY <1>1, <1>5 DEF ApplyUnpaid
  <2>2. ASSUME NEW c \in Cycles
        PROVE  \/ graces'[c] = graces[c]
               \/ /\ graces[c] # None /\ graces'[c] \in Grace /\ graces'[c] # None
                  /\ graces'[c].status = "expired" /\ clock >= graces[c].end
    <3>1. \/ graces'[c] = graces[c]
          \/ /\ graces[c] # None /\ graces'[c] \in Grace /\ graces'[c].status = "expired"
             /\ graces[c].end <= received[e] /\ graces[c].end \in Nat
      BY <1>3, <2>1, ExpiredIs
    <3> QED
      BY <1>3, <3>1, GraceRow
  <2>3. graces' \in [Cycles -> Grace \cup {None}]
    <3>1. graces' = [c \in Cycles |-> graces'[c]]
      BY <2>1 DEF ExpireGraces
    <3> QED
      BY <1>3, <2>2, <3>1
  <2> QED
    BY <1>1, <1>5, <2>2, <2>3
<1>6. CASE Type(e) # "renewal_failed" /\ ExpiredAction # "expire_grace"
  <2>1. graces' = graces
    BY <1>1, <1>6 DEF ApplyUnpaid
  <2> QED
    BY <1>1, <1>3, <1>6, <2>1
<1> QED
  BY <1>4, <1>5, <1>6

LEMMA ApplyUnpaidKeeps == ASSUME RenewalFits, NEW w \in Requests, ApplyUnpaid(w) PROVE RenewalFits'
<1>1. requests[w].pc = "tx" /\ Settles(w, "processed")
  BY DEF ApplyUnpaid, At
<1>2. PICK e, c : e = requests[w].event /\ c = CycleKey(e)
  OBVIOUS
<1>3. /\ requests \in [Requests -> Request] /\ clock \in Nat /\ RenewalsTyped
      /\ e \in Events /\ c \in Orders /\ c # Checkout
      /\ orderRows \in [Orders -> Order \cup {None}]
  BY <1>1, <1>2, InHand, EventIs, RowsAre DEF RenewalFits, RenewalsTyped
<1>4. Type(e) \in {"renewal_failed", "subscription_expired"}
  BY <1>1, <1>2 DEF RenewalFits, OnItsWay
<1>5. PICK new : new = Unpaid(e)
  OBVIOUS
<1>6. /\ new \in Order /\ new # None
      /\ orderRows[c] = None => new.status = "failed" /\ new.paidAt = None
      /\ orderRows[c] # None => new.paidAt = orderRows[c].paidAt
      /\ orderRows[c] # None /\ orderRows[c].status \in {"paid", "fulfilled"} => new = orderRows[c]
      /\ orderRows[c] # None /\ orderRows[c].status \notin {"paid", "fulfilled"}
           => new.status \notin {"paid", "fulfilled"}
  BY <1>2, <1>3, <1>5, UnpaidIs, OrderRow
<1>7. /\ orderRows'[c] = new /\ \A p \in Orders \ {c} : orderRows'[p] = orderRows[p]
      /\ orderRows' \in [Orders -> Order \cup {None}]
      /\ UNCHANGED <<clock, inbox, received, periods, failures, aborts>>
  BY <1>2, <1>3, <1>5, <1>6 DEF ApplyUnpaid
<1>8. /\ graces' \in [Cycles -> Grace \cup {None}]
      /\ \A d \in Cycles :
           \/ graces'[d] = graces[d]
           \/ /\ graces[d] = None /\ graces'[d] # None
              /\ graces'[d].end = graces'[d].start + GracePeriod
           \/ /\ graces[d] # None /\ graces'[d] # None /\ graces'[d].status = "expired"
              /\ clock >= graces[d].end
      /\ Type(e) = "renewal_failed" => graces'[c] # None
  BY <1>2, GracesAfter
<1>9. Onward
  <2>1. \A p \in Orders : orderRows[p] # None => orderRows'[p] # None
    BY <1>6, <1>7
  <2>2. \A d \in Cycles : graces[d] # None => graces'[d] # None
    BY <1>8
  <2>3. orderRows'[Checkout] = orderRows[Checkout]
    BY <1>3, <1>7, CheckoutRow
  <2> QED
    BY <1>3, <1>7, <2>1, <2>2, <2>3 DEF Onward
<1>10. Onwards(w)
  <2>1. Effect(e)'
    BY <1>2, <1>4, <1>8 DEF Effect
  <2> QED
    BY <1>1, <1>2, <1>3, <2>1, ToSettle
<1>11. RenewalsTyped'
  <2>1. requests' \in [Requests -> Request]
    BY <1>10 DEF Onwards, Moves
  <2>2. \A p \in Orders : orderRows'[p] # None =>
          (orderRows'[p].status \in {"paid", "fulfilled"} => orderRows'[p].paidAt # None)
    <3>1. ASSUME NEW p \in Orders, orderRows'[p] # None, orderRows'[p].status \in {"paid", "fulfilled"}
          PROVE  orderRows'[p].paidAt # None
      <4>1. orderRows'[p] = orderRows[p]
        BY <1>6, <1>7, <3>1
      <4> QED
        BY <1>3, <3>1, <4>1 DEF RenewalsTyped
    <3> QED
      BY <3>1
  <2>3. orderRows'[Checkout] # None
    BY <1>9, CheckoutRow DEF Onward
  <2> QED
    BY <1>3, <1>7, <1>8, <2>1, <2>2, <2>3 DEF RenewalsTyped
<1>12. ASSUME NEW p \in Orders PROVE RowFits(p)'
  <2>1. RowFits(p)
    BY DEF RenewalFits
  <2>2. CASE orderRows'[p] = orderRows[p]
    BY <1>7, <2>1, <2>2 DEF RowFits, PaidWhen
  <2>3. CASE orderRows'[p] # orderRows[p]
    <3>1. /\ p = c /\ orderRows'[p].status \notin {"paid", "fulfilled"}
          /\ orderRows[p] # None => orderRows[p].status \notin {"paid", "fulfilled"}
      BY <1>6, <1>7, <2>3
    <3>2. periods[p] = None
      BY <2>1, <3>1 DEF RowFits
    <3>3. orderRows'[p].paidAt # None => orderRows[p] # None /\ orderRows'[p].paidAt = orderRows[p].paidAt
      BY <1>6, <1>7, <3>1
    <3> QED
      BY <1>7, <2>1, <3>1, <3>2, <3>3 DEF RowFits, PaidWhen
  <2> QED
    BY <2>2, <2>3
<1>13. GivenForPay' /\ PeriodsBegin' /\ PeriodsEnd'
  BY <1>7 DEF RenewalFits, GivenForPay, PeriodsBegin, PeriodsEnd, Granted, PaidPeriods
<1>14. GracesRun'
  BY <1>8 DEF RenewalFits, GracesRun
<1>15. requests[w].pc # "idle" /\ UNCHANGED <<clock, inbox, received>>
  BY <1>1, <1>7
<1> QED
  BY <1>9, <1>10, <1>11, <1>12, <1>13, <1>14, <1>15, WritesKeep

LEMMA RenewalStepKeeps == ASSUME RenewalFits, [RenewalStep]_subscriptionVars PROVE RenewalFits'
<1>1. ASSUME NEW w \in Requests, NEW e \in Events, Deliver(w, e) PROVE RenewalFits'
  BY <1>1, DeliverKeeps
<1>2. ASSUME NEW w \in Requests, Work(w) PROVE RenewalFits'
  BY <1>2, ReadOrderKeeps, RouteKeeps, NestedKeeps, ApplyKeeps, LookupKeeps, CreateKeeps,
     WriteKeeps, FulfillKeeps, ApplyUnpaidKeeps, SettleKeeps, FailsKeeps DEF Work
<1>3. ASSUME NEW w \in Requests, Abort(w) PROVE RenewalFits'
  BY <1>3, AbortKeeps
<1>4. CASE TimePasses
  BY <1>4, TimePassesKeeps
<1>5. CASE UNCHANGED subscriptionVars
  <2>1. /\ clock' = clock /\ inbox' = inbox /\ received' = received /\ UNCHANGED records
        /\ requests' = requests /\ failures' = failures /\ aborts' = aborts
    BY <1>5 DEF subscriptionVars, records
  <2>2. Onward
    BY <2>1, RowsAre DEF RenewalFits, Onward, records
  <2>3. RenewalsTyped' /\ Announced' /\ FirstRecorded'
    BY <2>1 DEF RenewalFits, RenewalsTyped, Announced, FirstRecorded, records
  <2>4. /\ \A o \in Orders : RowFits(o)'
        /\ GivenForPay' /\ GracesRun' /\ PeriodsBegin' /\ PeriodsEnd'
    BY <2>1, <2>2, RecordsStay
  <2>5. ASSUME NEW v \in Requests PROVE OnItsWay(v)'
    BY <2>1, <2>2, OthersKeep DEF RenewalFits
  <2>6. \A e \in Events : inbox'[e] = "processed" => Effect(e)'
    BY <2>1, <2>2, EffectStays DEF RenewalFits
  <2> QED
    BY <2>3, <2>4, <2>5, <2>6 DEF RenewalFits
<1> QED
  BY <1>1, <1>2, <1>3, <1>4, <1>5 DEF RenewalStep

-----------------------------------------------------------------------------
(* What the invariant gives.                                               *)

LEMMA FitsGives ==
  ASSUME RenewalFits PROVE RenewalsTyped /\ RenewalsAgree
<1>1. ProcessedHasEffect
  BY DEF RenewalFits, Effect, ProcessedHasEffect
<1>2. GrantedIsNotFailed
  BY DEF RenewalFits, RowFits, Granted, GrantedIsNotFailed
<1> QED
  BY <1>1, <1>2 DEF RenewalFits, RenewalsAgree

LEMMA FinitelyPaid == IsFiniteSet(PaidPeriods)
<1> DEFINE D == {d \in Events : Type(d) \in {"paid", "renewal_paid"} /\ received[d] # None}
           f == [d \in D |-> EventOf[d].start]
<1>1. IsFiniteSet(D)
  <2>1. D \in SUBSET Events
    OBVIOUS
  <2> HIDE DEF D
  <2> QED
    BY <2>1, EventsAssumption, FS_Subset
<1>2. PaidPeriods = {f[d] : d \in D}
  BY DEF PaidPeriods
<1> HIDE DEF D
<1>3. f \in Surjection(D, PaidPeriods)
  BY <1>2 DEF Surjection
<1> HIDE DEF f
<1> QED
  BY <1>1, <1>3, FS_Surjection

\* No two orders give their goods for the same announced period.
LEMMA OnePeriodEach == ASSUME RenewalFits PROVE OnePeriodPerPayment
<1> DEFINE f == [o \in Granted |-> PeriodOf(o)]
<1>1. f \in [Granted -> PaidPeriods]
  BY DEF RenewalFits, GivenForPay
<1>2. ASSUME NEW o \in Granted, NEW p \in Granted, PeriodOf(o) = PeriodOf(p) PROVE o = p
  BY <1>2 DEF RenewalFits, GivenForPay, PeriodOf
<1>3. f \in Injection(Granted, PaidPeriods)
  BY <1>1, <1>2 DEF Injection, IsInjective
<1> HIDE DEF f
<1> QED
  BY <1>3, FinitelyPaid, FS_Injection DEF OnePeriodPerPayment

-----------------------------------------------------------------------------
(* No two paid periods are the same days.                                  *)

PeriodsDiffer ==
  \A o \in Granted : \A p \in Granted \ {o} : periods[p] # periods[o]

\* A payment that is made while a paid period runs is fulfilled before the length
\* of a period has passed, or while a paid period runs still.  When it is not, its
\* period is over when it is given, and may end where another one has ended
\* (README, Observations).
FulfilledInTime ==
  \A w \in Requests :
    LET o == requests[w].order
    IN  At(w, "fulfill") /\ orderRows[o].status = "paid" /\ periods[o] = None
        /\ (\E p \in Granted : periods[p] > orderRows[o].paidAt)
          => \/ clock < orderRows[o].paidAt + BillingPeriod
             \/ \E p \in Granted : periods[p] > clock

\* Every period that is given ends later than all that were given before.
LEMMA LaterThanAll ==
  ASSUME GracePeriod <= BillingPeriod, RenewalFits, FulfilledInTime,
         NEW w \in Requests, Fulfill(w), NEW o, o = requests[w].order,
         orderRows[o].status = "paid", periods[o] = None
  PROVE  \A p \in Granted : periods[p] < Anchor(orderRows[o].paidAt) + BillingPeriod
<1>1. requests[w].pc = "fulfill"
  BY DEF Fulfill, At
<1>2. PICK at : at = orderRows[o].paidAt
  OBVIOUS
<1>3. /\ clock \in Nat /\ at \in Nat /\ at <= clock
      /\ BillingPeriod \in Nat \ {0} /\ GracePeriod \in Nat
  BY <1>1, <1>2, FulfillFinds, LengthsAssumption DEF At, PaidWhen
<1>4. PICK a : a = Anchor(at)
  OBVIOUS
<1>5. /\ a \in Nat
      /\ \/ \A p \in Granted : periods[p] <= a
         \/ /\ \A p \in Granted : periods[p] <= clock \/ periods[p] <= at
            /\ a = at \/ a + GracePeriod > clock
  BY <1>3, <1>4, AnchorIs DEF RenewalFits
<1>6. \A p \in Granted : periods[p] \in Nat
  BY RowsAre DEF RenewalFits, Granted
<1>7. \/ \A p \in Granted : ~(periods[p] > at)
      \/ clock < at + BillingPeriod
      \/ \E p \in Granted : periods[p] > clock
  BY <1>1, <1>2 DEF FulfilledInTime, At
<1>8. ASSUME NEW p \in Granted PROVE periods[p] < a + BillingPeriod
  <2>1. CASE \A q \in Granted : periods[q] <= a
    BY <1>3, <1>5, <1>6, <2>1
  <2>2. CASE a + GracePeriod > clock /\ \A q \in Granted : periods[q] <= clock \/ periods[q] <= at
    BY <1>3, <1>5, <1>6, <2>2
  <2>3. CASE a = at /\ \A q \in Granted : periods[q] <= clock \/ periods[q] <= at
    <3>1. \A q \in Granted : periods[q] <= clock
      BY <1>3, <1>6, <2>3
    <3>2. periods[p] <= at \/ clock < at + BillingPeriod
      BY <1>3, <1>6, <1>7, <3>1
    <3> QED
      BY <1>3, <1>6, <2>3, <3>1, <3>2
  <2> QED
    BY <1>5, <2>1, <2>2, <2>3
<1> QED
  BY <1>2, <1>4, <1>8

LEMMA DifferKeeps ==
  ASSUME GracePeriod <= BillingPeriod, RenewalFits, PeriodsDiffer, FulfilledInTime,
         [RenewalStep]_subscriptionVars
  PROVE  PeriodsDiffer'
<1>1. ASSUME NEW w \in Requests, Fulfill(w) PROVE PeriodsDiffer'
  <2>1. PICK o : o = requests[w].order
    OBVIOUS
  <2>2. CASE orderRows[o].status = "paid" /\ periods[o] = None
    <3>1. PICK end : end = Anchor(orderRows[o].paidAt) + BillingPeriod
      OBVIOUS
    <3>2. /\ o \in Orders /\ periods'[o] = end /\ end \in Nat /\ periods'[o] # None
          /\ \A p \in Orders \ {o} : periods'[p] = periods[p]
      BY <1>1, <2>1, <2>2, <3>1, FulfillGives
    <3>3. \A p \in Granted : periods[p] < end /\ periods[p] \in Nat
      BY <1>1, <2>1, <2>2, <3>1, LaterThanAll, RowsAre DEF RenewalFits, Granted
    <3>4. /\ Granted' = Granted \cup {o} /\ o \notin Granted
          /\ \A p \in Granted : periods'[p] = periods[p] /\ periods'[p] # end
      BY <2>2, <3>2, <3>3 DEF Granted
    <3> QED
      BY <3>2, <3>4 DEF PeriodsDiffer
  <2>3. CASE ~(orderRows[o].status = "paid" /\ periods[o] = None)
    <3>1. periods' = periods
      BY <1>1, <2>1, <2>3 DEF Fulfill
    <3> QED
      BY <3>1 DEF PeriodsDiffer, Granted
  <2> QED
    BY <2>2, <2>3
<1>2. ASSUME NEW w \in Requests, Work(w), ~Fulfill(w) PROVE periods' = periods
  BY <1>2 DEF Work, ReadOrder, Route, Nested, Apply, Lookup, Create, Write, ApplyUnpaid, Settle,
     Fails, records
<1>3. ASSUME NEW w \in Requests, Abort(w) \/ (\E e \in Events : Deliver(w, e)) PROVE periods' = periods
  BY <1>3 DEF Abort, Deliver, records
<1>4. ASSUME TimePasses \/ UNCHANGED subscriptionVars PROVE periods' = periods
  BY <1>4 DEF TimePasses, subscriptionVars, records
<1>5. ASSUME periods' = periods PROVE PeriodsDiffer'
  BY <1>5 DEF PeriodsDiffer, Granted
<1> QED
  BY <1>1, <1>2, <1>3, <1>4, <1>5 DEF RenewalStep

-----------------------------------------------------------------------------
(* Days of grace.                                                          *)

GraceKept ==
  \A c \in Cycles :
    graces[c] # None => \/ graces'[c] = graces[c]
                        \/ /\ graces'[c] # None /\ graces'[c].status = "expired"
                           /\ clock >= graces[c].end

LEMMA GraceIsKept ==
  ASSUME RenewalFits, [RenewalStep]_subscriptionVars
  PROVE  GraceKept
<1>1. ASSUME NEW w \in Requests, ApplyUnpaid(w) PROVE GraceKept
  BY <1>1, GracesAfter DEF GraceKept
<1>2. ASSUME NEW w \in Requests, Work(w), ~ApplyUnpaid(w) PROVE graces' = graces
  BY <1>2 DEF Work, ReadOrder, Route, Nested, Apply, Lookup, Create, Write, Fulfill, Settle,
     Fails, records
<1>3. ASSUME NEW w \in Requests, Abort(w) \/ (\E e \in Events : Deliver(w, e)) PROVE graces' = graces
  BY <1>3 DEF Abort, Deliver, records
<1>4. ASSUME TimePasses \/ UNCHANGED subscriptionVars PROVE graces' = graces
  BY <1>4 DEF TimePasses, subscriptionVars, records
<1>5. ASSUME graces' = graces PROVE GraceKept
  BY <1>5 DEF GraceKept
<1> QED
  BY <1>1, <1>2, <1>3, <1>4, <1>5 DEF RenewalStep

-----------------------------------------------------------------------------
(* The theorems of renewals.                                               *)

\* Whatever fails and whoever is at work, the rows of a subscription and the
\* requests in flight have their types, and an order that is paid says when
\* (RenewalsTyped).
THEOREM RenewalTypes == RenewalLife => []RenewalsTyped
<1>1. NewSubscription => RenewalFits
  BY SubscriptionStarts
<1>2. RenewalFits /\ [RenewalStep]_subscriptionVars => RenewalFits'
  BY RenewalStepKeeps
<1>3. RenewalFits => RenewalsTyped
  BY FitsGives
<1> QED
  BY <1>1, <1>2, <1>3, PTL DEF RenewalLife

\* An event that the inbox reports as processed has had its effect, and an
\* order whose goods the buyer has never counts as failed: whichever stale rows
\* the requests save, and in whichever order the events come (RenewalsAgree).
THEOREM RowsAndInboxAgree == RenewalLife => []RenewalsAgree
<1>1. NewSubscription => RenewalFits
  BY SubscriptionStarts
<1>2. RenewalFits /\ [RenewalStep]_subscriptionVars => RenewalFits'
  BY RenewalStepKeeps
<1>3. RenewalFits => RenewalsAgree
  BY FitsGives
<1> QED
  BY <1>1, <1>2, <1>3, PTL DEF RenewalLife

\* The buyer gets no more periods than the provider has announced payments for,
\* although the first payment is announced by two events and every event may be
\* processed by several requests at once (OnePeriodPerPayment); and each period
\* begins when its cycle does, or before that, or where another one ends.
THEOREM OnePeriodForEachPayment == RenewalLife => [](OnePeriodPerPayment /\ PeriodsBegin)
<1>1. NewSubscription => RenewalFits
  BY SubscriptionStarts
<1>2. RenewalFits /\ [RenewalStep]_subscriptionVars => RenewalFits'
  BY RenewalStepKeeps
<1>3. RenewalFits => OnePeriodPerPayment /\ PeriodsBegin
  BY OnePeriodEach DEF RenewalFits
<1> QED
  BY <1>1, <1>2, <1>3, PTL DEF RenewalLife

\* As long as payments made while a paid period runs are fulfilled in time, and
\* days of grace are no more than a period, the buyer is given exactly days that
\* were paid for: no two of the periods are the same days (PaidPeriodsAreGiven).
THEOREM PaidPeriodsFit ==
  ASSUME GracePeriod <= BillingPeriod
  PROVE  RenewalLife /\ []FulfilledInTime => []PaidPeriodsAreGiven
<1>1. NewSubscription => RenewalFits /\ PeriodsDiffer
  <2>1. NewSubscription => Granted = {}
    BY DEF NewSubscription, Granted
  <2> QED
    BY <2>1, SubscriptionStarts DEF PeriodsDiffer
<1>2. RenewalFits /\ [RenewalStep]_subscriptionVars => RenewalFits'
  BY RenewalStepKeeps
<1>3. RenewalFits /\ PeriodsDiffer /\ FulfilledInTime /\ [RenewalStep]_subscriptionVars => PeriodsDiffer'
  BY DifferKeeps
<1>4. RenewalFits /\ PeriodsDiffer => PaidPeriodsAreGiven
  <2>1. RenewalFits /\ PeriodsDiffer => PeriodsFit
    BY DEF RenewalFits, PeriodsBegin, PeriodsDiffer, PeriodsFit
  <2> QED
    BY <2>1, OnePeriodEach DEF PaidPeriodsAreGiven
<1> QED
  BY <1>1, <1>2, <1>3, <1>4, PTL DEF RenewalLife

\* Days of grace are neither cut short by an early subscription.expired nor
\* prolonged while they last, and they do not go away (GraceRunsItsCourse).
THEOREM GraceRuns == RenewalLife => GraceRunsItsCourse
<1>1. NewSubscription => RenewalFits
  BY SubscriptionStarts
<1>2. RenewalFits /\ [RenewalStep]_subscriptionVars => RenewalFits'
  BY RenewalStepKeeps
<1>3. RenewalFits /\ [RenewalStep]_subscriptionVars =>
        [\A c \in Cycles :
           graces[c] # None => \/ graces'[c] = graces[c]
                              \/ /\ graces'[c] # None /\ graces'[c].status = "expired"
                                 /\ clock >= graces[c].end]_subscriptionVars
  BY GraceIsKept DEF GraceKept
<1> QED
  BY <1>1, <1>2, <1>3, PTL DEF RenewalLife, GraceRunsItsCourse
=============================================================================
