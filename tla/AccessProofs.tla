----------------------------- MODULE AccessProofs -----------------------------
(* For any number of addresses, devices, challenges and open requests: no order *)
(* of logins and revocations passes the limit of devices or gives an address a  *)
(* second trial, requests that count together pass the limits on challenges by  *)
(* no more than their number, and a challenge whose wrong attempts come one at  *)
(* a time opens one session.                                                    *)
(*                                                                              *)
(* What the session then shows: for every length of periods, graces and trials  *)
(* and any number of orders, cancellations and grants, the answers that are     *)
(* computed from one user's rows by code of their own agree (OneStory), and     *)
(* what is offered can be done (OfferedIsAccepted).  That part first speaks of  *)
(* rows of the right shape, in any state, and then of the rows there can be.    *)
EXTENDS Access, Entitlements, WellFoundedInduction, SequenceTheorems, FiniteSetTheorems, TLAPS

-----------------------------------------------------------------------------
(* Types.                                                                    *)

Row == [status : {"pending", "expired", "consumed"}, attempts : Nat, created : Nat, expires : Int]

Inserting == [pc : {"insert"}, key : Keys, at : Nat]
Mailing == [pc : {"deliver", "giveUp"}, key : Keys, copy : Row]
Trying == [pc : {"expire", "fail", "consume", "register"}, key : Keys, attempt : Attempt, copy : Row]

Shapes ==
  /\ now \in Nat
  /\ challenges \in [Keys -> Row \cup {NoRow}]
  /\ creating \in [Creators -> Inserting \cup Mailing \cup {Idle}]
  /\ verifying \in [Verifiers -> Trying \cup {Idle}]
  /\ devices \in [Emails -> [Devices -> {"none", "active", "disabled"}]]
  /\ sessions \in [Keys -> Nat] /\ wrongs \in [Keys -> Nat]

\* The record that a request holds follows from where it is.
LEMMA Held ==
  ASSUME Shapes
  PROVE  /\ \A c \in Creators : creating[c].pc = "insert" => creating[c] \in Inserting
         /\ \A c \in Creators : creating[c].pc \in {"deliver", "giveUp"} => creating[c] \in Mailing
         /\ \A v \in Verifiers : verifying[v].pc # "idle" => verifying[v] \in Trying
         /\ \A v \in Verifiers : verifying[v] # Idle => verifying[v] \in Trying
         /\ \A k \in Keys : challenges[k] # NoRow => challenges[k] \in Row
         /\ \A k \in Keys : challenges[k].status # "none" => challenges[k] \in Row
  BY DEF Shapes, Inserting, Mailing, Trying, Idle, NoRow, Row

\* The constants that are numbers are positive.
LEMMA Numbers ==
  /\ MaxDevices \in Nat \ {0} /\ MaxAttempts \in Nat \ {0} /\ TTL \in Nat \ {0}
  /\ \A k \in Keys : KeyOf[k].email \in Emails /\ KeyOf[k].device \in Devices
  BY AccessAssumption

-----------------------------------------------------------------------------
(* Devices and trials.                                                       *)

\* Inductive: the active devices are finitely many and within the limit, and a
\* trial is kept under the key of its address, one under each.
Rights ==
  /\ \A e \in Emails : IsFiniteSet(Active(e)) /\ Cardinality(Active(e)) <= MaxDevices
  /\ \A t \in trials : t.email \in Emails /\ t.key = <<t.email>>
  /\ \A t, u \in trials : t.email = u.email => t = u
  /\ \A e \in Emails : (\E d \in Devices : devices[e][d] # "none") => \E t \in trials : t.email = e

\* Binding a device, known or new, keeps the limit and the trial.
LEMMA BindKeeps ==
  ASSUME Shapes, Rights, NEW e \in Emails, NEW d \in Devices, Bind(e, d)
  PROVE  /\ Rights'
         /\ devices' \in [Emails -> [Devices -> {"none", "active", "disabled"}]]
<1>1. devices' = [devices EXCEPT ![e][d] = "active"] /\ trials' = WithTrial(e, d) /\ Bindable(e, d)
  BY DEF Bind
<1>2. devices' \in [Emails -> [Devices -> {"none", "active", "disabled"}]]
  BY <1>1 DEF Shapes
<1>3. ASSUME NEW f \in Emails
      PROVE  IsFiniteSet(Active(f)') /\ Cardinality(Active(f)') <= MaxDevices
  <2>1. CASE f # e
    <3>1. Active(f)' = Active(f)
      BY <1>1, <2>1 DEF Shapes, Active
    <3> QED
      BY <3>1 DEF Rights
  <2>2. CASE f = e
    <3>1. Active(f)' = Active(e) \cup {d}
      BY <1>1, <2>2 DEF Shapes, Active
    <3>2. IsFiniteSet(Active(e)) /\ Cardinality(Active(e)) <= MaxDevices
      BY DEF Rights
    <3>3. CASE devices[e][d] = "active"
      <4>1. Active(f)' = Active(e)
        BY <3>1, <3>3 DEF Active
      <4> QED
        BY <3>2, <4>1
    <3>4. CASE devices[e][d] = "none" /\ Cardinality(Active(e)) < MaxDevices
      <4>1. d \notin Active(e)
        BY <3>4 DEF Active
      <4>2. /\ IsFiniteSet(Active(e) \cup {d})
            /\ Cardinality(Active(e) \cup {d}) = Cardinality(Active(e)) + 1
        BY <3>2, <4>1, FS_AddElement
      <4>3. Cardinality(Active(e)) \in Nat
        BY <3>2, FS_CardinalityType
      <4> QED
        BY <3>1, <3>4, <4>2, <4>3, Numbers
    <3> QED
      BY <1>1, <3>3, <3>4 DEF Bindable
  <2> QED
    BY <2>1, <2>2
<1>4. /\ \A t \in trials' : t.email \in Emails /\ t.key = <<t.email>>
      /\ \A t, u \in trials' : t.email = u.email => t = u
      /\ trials \subseteq trials'
      /\ \E t \in trials' : t.email = e
  <2>1. CASE \E t \in trials : t.key = TrialKey(e, d)
    <3>1. trials' = trials
      BY <1>1, <2>1 DEF WithTrial
    <3>2. \A t \in trials : t.key = <<e>> => t.email = e
      BY DEF Rights
    <3> QED
      BY <2>1, <3>1, <3>2 DEF Rights, TrialKey
  <2>2. CASE ~\E t \in trials : t.key = TrialKey(e, d)
    <3> DEFINE new == [email |-> e, key |-> <<e>>, starts |-> now]
    <3>1. trials' = trials \cup {new}
      BY <1>1, <2>2 DEF WithTrial, TrialKey
    <3>2. \A t \in trials : t.email # e
      BY <2>2 DEF Rights, TrialKey
    <3>3. new.email = e /\ new.key = <<new.email>>
      OBVIOUS
    <3> HIDE DEF new
    <3> QED
      BY <3>1, <3>2, <3>3 DEF Rights
  <2> QED
    BY <2>1, <2>2
<1>5. ASSUME NEW f \in Emails, NEW g \in Devices, devices'[f][g] # "none"
      PROVE  \E t \in trials' : t.email = f
  <2>1. CASE f = e
    BY <1>4, <2>1
  <2>2. CASE f # e
    <3>1. devices[f][g] # "none"
      BY <1>1, <1>5, <2>2 DEF Shapes
    <3> QED
      BY <1>4, <3>1 DEF Rights
  <2> QED
    BY <2>1, <2>2
<1> QED
  BY <1>2, <1>3, <1>4, <1>5 DEF Rights

\* A revocation frees a slot and leaves the trial.
LEMMA RevokeKeeps ==
  ASSUME Shapes, Rights, NEW e \in Emails, NEW d \in Devices, RevokeDevice(e, d)
  PROVE  /\ Rights'
         /\ devices' \in [Emails -> [Devices -> {"none", "active", "disabled"}]]
<1>1. devices' = [devices EXCEPT ![e][d] = "disabled"] /\ trials' = trials /\ devices[e][d] = "active"
  BY DEF RevokeDevice
<1>2. devices' \in [Emails -> [Devices -> {"none", "active", "disabled"}]]
  BY <1>1 DEF Shapes
<1>3. ASSUME NEW f \in Emails
      PROVE  IsFiniteSet(Active(f)') /\ Cardinality(Active(f)') <= MaxDevices
  <2>1. Active(f)' \subseteq Active(f)
    BY <1>1 DEF Shapes, Active
  <2>2. IsFiniteSet(Active(f)) /\ Cardinality(Active(f)) <= MaxDevices
    BY DEF Rights
  <2>3. IsFiniteSet(Active(f)') /\ Cardinality(Active(f)') <= Cardinality(Active(f))
    BY <2>1, <2>2, FS_Subset
  <2>4. Cardinality(Active(f)) \in Nat /\ Cardinality(Active(f)') \in Nat
    BY <2>2, <2>3, FS_CardinalityType
  <2> QED
    BY <2>2, <2>3, <2>4, Numbers
<1>4. ASSUME NEW f \in Emails, NEW g \in Devices, devices'[f][g] # "none"
      PROVE  \E t \in trials' : t.email = f
  <2>1. devices[f][g] # "none"
    BY <1>1, <1>4 DEF Shapes
  <2> QED
    BY <1>1, <2>1 DEF Rights
<1> QED
  BY <1>1, <1>2, <1>3, <1>4 DEF Rights

-----------------------------------------------------------------------------
(* Every step keeps the types.                                               *)

LEMMA InitShapes == Init => Shapes /\ Rights
<1> SUFFICES ASSUME Init PROVE Shapes /\ Rights
  OBVIOUS
<1>1. Shapes
  BY DEF Init, Shapes, Idle, NoRow
<1>2. \A e \in Emails : Active(e) = {}
  BY DEF Init, Active
<1>3. \A e \in Emails : IsFiniteSet(Active(e)) /\ Cardinality(Active(e)) <= MaxDevices
  <2>1. IsFiniteSet({}) /\ Cardinality({}) = 0
    BY FS_EmptySet
  <2> QED
    BY <1>2, <2>1, Numbers
<1>4. Rights
  BY <1>3 DEF Init, Rights
<1> QED
  BY <1>1, <1>4

\* Creating a challenge.
LEMMA CreatingShapes ==
  ASSUME Shapes, NEW c \in Creators,
         \/ \E k \in Keys : Count(c, k)
         \/ Insert(c) \/ Deliver(c) \/ DeliveryFails(c) \/ GiveUp(c)
  PROVE  Shapes'
<1>1. CASE \E k \in Keys : Count(c, k)
  BY <1>1 DEF Count, Shapes, Inserting
<1>2. CASE Insert(c)
  <2> DEFINE k == creating[c].key
             row == [status |-> "pending", attempts |-> 0, created |-> creating[c].at,
                     expires |-> creating[c].at + TTL]
             mailing == [pc |-> "deliver", key |-> k, copy |-> row]
  <2>1. k \in Keys /\ creating[c].at \in Nat
    BY <1>2, Held DEF Insert, Inserting
  <2>2. row \in Row
    BY <2>1, Numbers DEF Row
  <2>3. mailing \in Mailing
    BY <2>1, <2>2 DEF Mailing
  <2> HIDE DEF mailing, row
  <2>4. /\ challenges' = challenges \/ challenges' = [challenges EXCEPT ![k] = row]
        /\ \/ creating' = [creating EXCEPT ![c] = Idle]
           \/ creating' = [creating EXCEPT ![c] = mailing]
    BY <1>2 DEF Insert, mailing, row
  <2> QED
    BY <1>2, <2>1, <2>2, <2>3, <2>4 DEF Insert, Shapes
<1>3. CASE Deliver(c)
  BY <1>3 DEF Deliver, Shapes
<1>4. CASE DeliveryFails(c)
  <2>1. creating[c] \in Mailing
    BY <1>4, Held DEF DeliveryFails
  <2>2. [creating[c] EXCEPT !.pc = "giveUp"] \in Mailing
    BY <2>1 DEF Mailing
  <2>3. creating' = [creating EXCEPT ![c] = [creating[c] EXCEPT !.pc = "giveUp"]]
    BY <1>4 DEF DeliveryFails
  <2> QED
    BY <1>4, <2>2, <2>3 DEF DeliveryFails, Shapes
<1>5. CASE GiveUp(c)
  <2> DEFINE row == [creating[c].copy EXCEPT !.status = "expired"]
  <2>1. creating[c] \in Mailing
    BY <1>5, Held DEF GiveUp
  <2>2. row \in Row /\ creating[c].key \in Keys
    BY <2>1 DEF Mailing, Row
  <2>3. challenges' = challenges \/ challenges' = [challenges EXCEPT ![creating[c].key] = row]
    BY <1>5 DEF GiveUp
  <2> HIDE DEF row
  <2> QED
    BY <1>5, <2>2, <2>3 DEF GiveUp, Shapes
<1> QED
  BY <1>1, <1>2, <1>3, <1>4, <1>5

\* A wrong attempt counts in the row it read, and ends the row at the limit.
LEMMA FailedRow ==
  ASSUME NEW row \in Row
  PROVE  /\ Failed(row) \in Row
         /\ Failed(row).attempts = row.attempts + 1 /\ Failed(row).created = row.created
         /\ Failed(row).status = "pending" => row.attempts + 1 < MaxAttempts
<1> DEFINE status == IF row.attempts + 1 >= MaxAttempts THEN "expired" ELSE row.status
<1>1. Failed(row) = [row EXCEPT !.attempts = row.attempts + 1, !.status = status]
  BY DEF Failed
<1>2. status \in {"pending", "expired", "consumed"}
  BY DEF Row
<1>3. row.attempts \in Nat
  BY DEF Row
<1>4. status = "pending" => row.attempts + 1 < MaxAttempts
  BY <1>3, Numbers
<1> HIDE DEF status
<1> DEFINE n == row.attempts + 1
           saved == [row EXCEPT !.attempts = n, !.status = status]
<1>5. n \in Nat
  BY <1>3
<1>6. Failed(row) = saved
  BY <1>1
<1> HIDE DEF n
<1>7. saved \in Row /\ saved.attempts = n /\ saved.status = status /\ saved.created = row.created
  BY <1>2, <1>5 DEF Row
<1> HIDE DEF saved
<1> QED
  BY <1>4, <1>6, <1>7 DEF n

\* Verifying a code, up to the registration.
LEMMA VerifyingShapes ==
  ASSUME Shapes, NEW v \in Verifiers,
         \/ \E k \in Keys, a \in Attempt : Read(v, k, a)
         \/ SaveExpired(v) \/ SaveFailed(v) \/ Consume(v)
  PROVE  Shapes'
<1>1. CASE \E k \in Keys, a \in Attempt : Read(v, k, a)
  <2> PICK k \in Keys, a \in Attempt : Read(v, k, a)
    BY <1>1
  <2>1. challenges[k] \in Row
    BY Held DEF Read, Created
  <2>2. Verdict(challenges[k], a) \in {"expire", "fail", "consume", "register"}
    BY DEF Verdict
  <2>3. [pc |-> Verdict(challenges[k], a), key |-> k, attempt |-> a, copy |-> challenges[k]] \in Trying
    BY <2>1, <2>2 DEF Trying
  <2> DEFINE try == [pc |-> Verdict(challenges[k], a), key |-> k, attempt |-> a, copy |-> challenges[k]]
  <2>4. verifying' = [verifying EXCEPT ![v] = try]
    BY DEF Read
  <2>5. UNCHANGED <<now, challenges, mailed, creating, devices, trials, sessions, wrongs, faults>>
    BY DEF Read
  <2> HIDE DEF try
  <2>6. try \in Trying
    BY <2>3 DEF try
  <2> QED
    BY <2>4, <2>5, <2>6 DEF Shapes
<1>2. CASE SaveExpired(v)
  <2>1. verifying[v] \in Trying
    BY <1>2, Held DEF SaveExpired
  <2>2. [verifying[v].copy EXCEPT !.status = "expired"] \in Row /\ verifying[v].key \in Keys
    BY <2>1 DEF Trying, Row
  <2> QED
    BY <1>2, <2>2 DEF SaveExpired, SavesCopy, Shapes
<1>3. CASE SaveFailed(v)
  <2>1. verifying[v] \in Trying
    BY <1>3, Held DEF SaveFailed
  <2>2. verifying[v].copy \in Row /\ verifying[v].key \in Keys
    BY <2>1 DEF Trying
  <2>3. Failed(verifying[v].copy) \in Row
    BY <2>2, FailedRow
  <2>4. wrongs' \in [Keys -> Nat]
    BY <1>3, <2>2 DEF SaveFailed, Shapes
  <2> QED
    BY <1>3, <2>2, <2>3, <2>4 DEF SaveFailed, SavesCopy, Shapes
<1>4. CASE Consume(v)
  <2> DEFINE k == verifying[v].key
  <2>1. verifying[v] \in Trying
    BY <1>4, Held DEF Consume
  <2>2. [verifying[v] EXCEPT !.pc = "register"] \in Trying /\ k \in Keys
    BY <2>1 DEF Trying
  <2>3. CASE Consumable(challenges[k])
    <3>1. challenges[k] \in Row
      BY <2>2, <2>3, Held DEF Consumable
    <3>2. [challenges[k] EXCEPT !.status = "consumed"] \in Row
      BY <3>1 DEF Row
    <3>3. /\ challenges' = [challenges EXCEPT ![k] = [challenges[k] EXCEPT !.status = "consumed"]]
          /\ verifying' = [verifying EXCEPT ![v] = [verifying[v] EXCEPT !.pc = "register"]]
      BY <1>4, <2>3 DEF Consume
    <3> QED
      BY <1>4, <2>2, <3>2, <3>3 DEF Consume, Shapes
  <2>4. CASE ~Consumable(challenges[k])
    BY <1>4, <2>4 DEF Consume, Shapes
  <2> QED
    BY <2>3, <2>4
<1> QED
  BY <1>1, <1>2, <1>3, <1>4

\* The steps that touch devices and trials, or the time.
LEMMA OtherSteps ==
  ASSUME Shapes, Rights,
         \/ \E v \in Verifiers : Register(v) \/ RegisterFails(v)
         \/ \E e \in Emails, d \in Devices : RegisterDirectly(e, d) \/ RevokeDevice(e, d)
         \/ Tick
  PROVE  Shapes' /\ Rights'
<1>1. ASSUME NEW v \in Verifiers, Register(v) \/ RegisterFails(v)
      PROVE  Shapes' /\ Rights'
  <2> DEFINE k == verifying[v].key
  <2>1. verifying[v] \in Trying
    BY <1>1, Held DEF Register, RegisterFails
  <2>2. k \in Keys /\ KeyOf[k].email \in Emails /\ KeyOf[k].device \in Devices
    BY <2>1, Numbers DEF Trying
  <2>3. Bind(KeyOf[k].email, KeyOf[k].device) \/ UNCHANGED <<devices, trials>>
    BY <1>1 DEF Register, RegisterFails
  <2>4. Rights' /\ devices' \in [Emails -> [Devices -> {"none", "active", "disabled"}]]
    <3>1. CASE Bind(KeyOf[k].email, KeyOf[k].device)
      BY <2>2, <3>1, BindKeeps
    <3>2. CASE UNCHANGED <<devices, trials>>
      BY <3>2 DEF Rights, Active, Shapes
    <3> QED
      BY <2>3, <3>1, <3>2
  <2>5. sessions' = sessions \/ sessions' = [sessions EXCEPT ![k] = @ + 1]
    BY <1>1 DEF Register, RegisterFails
  <2>6. sessions' \in [Keys -> Nat]
    BY <2>2, <2>5 DEF Shapes
  <2>7. /\ verifying' = [verifying EXCEPT ![v] = Idle]
        /\ UNCHANGED <<now, challenges, creating, wrongs>>
    BY <1>1 DEF Register, RegisterFails
  <2> QED
    BY <2>4, <2>6, <2>7 DEF Shapes
<1>2. ASSUME NEW e \in Emails, NEW d \in Devices, RegisterDirectly(e, d) \/ RevokeDevice(e, d)
      PROVE  Shapes' /\ Rights'
  <2>1. Rights' /\ devices' \in [Emails -> [Devices -> {"none", "active", "disabled"}]]
    BY <1>2, BindKeeps, RevokeKeeps DEF RegisterDirectly
  <2> QED
    BY <1>2, <2>1 DEF RegisterDirectly, RevokeDevice, Shapes
<1>3. CASE Tick
  BY <1>3, SMTT(40) DEF Tick, Shapes, Rights, Active
<1> QED
  BY <1>1, <1>2, <1>3

LEMMA StepKeeps == Shapes /\ Rights /\ [Next]_vars => Shapes' /\ Rights'
<1> SUFFICES ASSUME Shapes, Rights, [Next]_vars PROVE Shapes' /\ Rights'
  OBVIOUS
<1>1. ASSUME UNCHANGED <<devices, trials>> PROVE Rights'
  BY <1>1 DEF Rights, Active
<1>2. ASSUME NEW c \in Creators,
             \/ \E k \in Keys : Count(c, k)
             \/ Insert(c) \/ Deliver(c) \/ DeliveryFails(c) \/ GiveUp(c)
      PROVE  Shapes' /\ Rights'
  <2>1. UNCHANGED <<devices, trials>>
    BY <1>2 DEF Count, Insert, Deliver, DeliveryFails, GiveUp
  <2> QED
    BY <1>1, <1>2, <2>1, CreatingShapes
<1>3. ASSUME NEW v \in Verifiers,
             \/ \E k \in Keys, a \in Attempt : Read(v, k, a)
             \/ SaveExpired(v) \/ SaveFailed(v) \/ Consume(v)
      PROVE  Shapes' /\ Rights'
  <2>1. UNCHANGED <<devices, trials>>
    BY <1>3 DEF Read, SaveExpired, SaveFailed, Consume
  <2> QED
    BY <1>1, <1>3, <2>1, VerifyingShapes
<1>4. CASE UNCHANGED vars
  <2>1. /\ UNCHANGED <<now, challenges, creating, verifying>>
        /\ UNCHANGED <<devices, trials, sessions, wrongs>>
    BY <1>4 DEF vars
  <2>2. Shapes'
    BY <2>1 DEF Shapes
  <2> QED
    BY <1>1, <2>1, <2>2
<1> QED
  BY <1>2, <1>3, <1>4, OtherSteps DEF Next

\* For any number of addresses and devices: no order of logins, registrations and
\* revocations passes the limit of devices or gives an address a second trial, and
\* a device that was ever bound left its address a trial.
THEOREM DevicesAndTrials == Spec => [](DeviceLimit /\ TrialOnce)
<1>1. Init => Shapes /\ Rights
  BY InitShapes
<1>2. Shapes /\ Rights /\ [Next]_vars => Shapes' /\ Rights'
  BY StepKeeps
<1>3. Shapes /\ Rights => DeviceLimit /\ TrialOnce
  <2> SUFFICES ASSUME Rights PROVE DeviceLimit /\ TrialOnce
    OBVIOUS
  <2>1. DeviceLimit
    BY DEF Rights, DeviceLimit
  <2>2. ASSUME NEW e \in Emails
        PROVE  Cardinality({t \in trials : t.email = e}) <= 1
    <3> DEFINE own == {t \in trials : t.email = e}
    <3>1. CASE own = {}
      BY <3>1, FS_EmptySet
    <3>2. CASE own # {}
      <4> PICK t \in own : TRUE
        BY <3>2
      <4>1. own = {t}
        BY DEF Rights
      <4> HIDE DEF own
      <4>2. Cardinality(own) = 1
        BY <4>1, FS_Singleton
      <4> QED
        BY <4>2 DEF own
    <3> QED
      BY <3>1, <3>2
  <2> QED
    BY <2>1, <2>2 DEF Rights, TrialOnce
<1> QED
  BY <1>1, <1>2, <1>3, PTL DEF Spec

-----------------------------------------------------------------------------
(* Sessions.  A challenge that is pending has given none; while a wrong      *)
(* attempt is under way for it nobody else's is, so that the row the attempt *)
(* read and saves is the current one and its count is exact; of the requests *)
(* that consume it one gets through and registers.                           *)

On(v, k) == verifying[v] # Idle /\ verifying[v].key = k

\* What a request for k knows.
TryOK(v, k) ==
  /\ verifying[v].attempt = "right" => verifying[v].pc # "fail"
  /\ verifying[v].attempt = "wrong" => verifying[v].pc \in {"expire", "fail"}
  /\ verifying[v].pc = "fail" =>
       sessions[k] = 0 /\ wrongs[k] = verifying[v].copy.attempts /\ wrongs[k] < MaxAttempts
  /\ verifying[v].pc \in {"consume", "register"} => wrongs[k] < MaxAttempts
  /\ verifying[v].pc = "register" => sessions[k] = 0

\* Inductive for a key, when no wrong attempt overlaps with another.
KeyOK(k) ==
  /\ challenges[k] = NoRow =>
       sessions[k] = 0 /\ wrongs[k] = 0 /\ \A v \in Verifiers : ~On(v, k)
  /\ challenges[k].status = "pending" =>
       /\ sessions[k] = 0 /\ wrongs[k] = challenges[k].attempts /\ wrongs[k] < MaxAttempts
       /\ \A v \in Verifiers : On(v, k) => verifying[v].pc # "register"
  /\ \A v \in Verifiers : On(v, k) => TryOK(v, k)
  /\ \A v, w \in Verifiers :
       On(v, k) /\ On(w, k) /\ v # w =>
         verifying[v].attempt = "right" /\ ~(verifying[v].pc = "register" /\ verifying[w].pc = "register")

\* A step that leaves a key's row and counts alone, and at most ends requests for
\* it, keeps its invariant.
LEMMA Frame ==
  ASSUME NEW k \in Keys, KeyOK(k),
         challenges'[k] = challenges[k], sessions'[k] = sessions[k], wrongs'[k] = wrongs[k],
         \A v \in Verifiers : On(v, k)' => verifying'[v] = verifying[v]
  PROVE  KeyOK(k)'
<1>1. \A v \in Verifiers : On(v, k)' => On(v, k) /\ verifying'[v] = verifying[v]
  BY DEF On
<1>2. \A v \in Verifiers : On(v, k)' => TryOK(v, k)'
  BY <1>1 DEF KeyOK, TryOK
<1> QED
  BY <1>1, <1>2 DEF KeyOK

\* A step of a request for one key leaves the other keys alone.
LEMMA OtherKeys ==
  ASSUME Shapes, NEW k \in Keys, NEW j \in Keys, j # k, KeyOK(j), NEW v \in Verifiers,
         challenges'[j] = challenges[j], sessions'[j] = sessions[j], wrongs'[j] = wrongs[j],
         NEW r, r = Idle \/ r.key = k, verifying' = [verifying EXCEPT ![v] = r]
  PROVE  KeyOK(j)'
<1>1. \A w \in Verifiers : On(w, j)' => verifying'[w] = verifying[w]
  BY DEF Shapes, On
<1> QED
  BY <1>1, Frame

\* Creating a challenge and the steps that are not about one.
LEMMA CreatingKeeps ==
  ASSUME Shapes, NEW j \in Keys, KeyOK(j), NEW c \in Creators,
         \/ \E k \in Keys : Count(c, k)
         \/ Insert(c) \/ Deliver(c) \/ DeliveryFails(c) \/ GiveUp(c)
  PROVE  KeyOK(j)'
<1>1. UNCHANGED <<verifying, sessions, wrongs>>
  BY DEF Count, Insert, Deliver, DeliveryFails, GiveUp
<1>2. CASE challenges'[j] = challenges[j]
  BY <1>1, <1>2, Frame DEF On
<1>3. CASE challenges'[j] # challenges[j]
  <2>1. ~(\E k \in Keys : Count(c, k)) /\ ~Deliver(c) /\ ~DeliveryFails(c)
    BY <1>3 DEF Count, Deliver, DeliveryFails
  <2>2. CASE Insert(c)
    <3> DEFINE k == creating[c].key
               row == [status |-> "pending", attempts |-> 0, created |-> creating[c].at,
                       expires |-> creating[c].at + TTL]
    <3>1. k \in Keys
      BY <2>2, Held DEF Insert, Inserting
    <3>2. row.status = "pending" /\ row.attempts = 0 /\ row # NoRow
      BY DEF NoRow
    <3>3. k \notin Created /\ challenges' = [challenges EXCEPT ![k] = row]
      BY <1>3, <2>2 DEF Insert
    <3> HIDE DEF row
    <3>4. j = k /\ challenges'[j] = row
      BY <1>3, <3>1, <3>3 DEF Shapes
    <3>5. challenges[j] = NoRow
      BY <3>1, <3>3, <3>4 DEF Created
    <3>6. sessions[j] = 0 /\ wrongs[j] = 0 /\ \A v \in Verifiers : ~On(v, j)
      BY <3>5 DEF KeyOK
    <3>7. \A v \in Verifiers : ~On(v, j)'
      BY <1>1, <3>6 DEF On
    <3> QED
      BY <1>1, <3>2, <3>4, <3>6, <3>7, Numbers DEF KeyOK
  <2>3. CASE GiveUp(c)
    <3> DEFINE k == creating[c].key
               row == [creating[c].copy EXCEPT !.status = "expired"]
    <3>1. creating[c] \in Mailing
      BY <2>3, Held DEF GiveUp
    <3>2. k \in Keys /\ row \in Row /\ row.status = "expired"
      BY <3>1 DEF Mailing, Row
    <3>3. challenges' = [challenges EXCEPT ![k] = row]
      BY <1>3, <2>3 DEF GiveUp
    <3> HIDE DEF row
    <3>4. challenges'[j] = row
      BY <1>3, <3>2, <3>3 DEF Shapes
    <3>5. \A v \in Verifiers : On(v, j)' = On(v, j) /\ TryOK(v, j)' = TryOK(v, j)
      BY <1>1 DEF On, TryOK
    <3>6. challenges'[j] # NoRow /\ challenges'[j].status # "pending"
      BY <3>2, <3>4 DEF Row, NoRow
    <3> QED
      BY <1>1, <3>5, <3>6 DEF KeyOK
  <2> QED
    BY <2>1, <2>2, <2>3
<1> QED
  BY <1>2, <1>3

\* A request that reads the row.
LEMMA ReadKeeps ==
  ASSUME Shapes, "wrong" \notin Overlapping, \A j \in Keys : KeyOK(j),
         NEW v \in Verifiers, NEW k \in Keys, NEW a \in Attempt, Read(v, k, a)
  PROVE  \A j \in Keys : KeyOK(j)'
<1> DEFINE pc == Verdict(challenges[k], a)
           copy == challenges[k]
           try == [pc |-> pc, key |-> k, attempt |-> a, copy |-> copy]
<1>1. /\ UNCHANGED <<challenges, sessions, wrongs>>
      /\ verifying' = [verifying EXCEPT ![v] = try]
      /\ verifying[v] = Idle /\ challenges[k].status = "pending" /\ MayOverlap(k, a)
  BY DEF Read
<1>2. /\ a \in {"right", "wrong"} /\ pc \in {"expire", "fail", "consume"}
      /\ a = "right" => pc # "fail"
      /\ a = "wrong" => pc # "consume"
  BY DEF Verdict, Attempt
<1> HIDE DEF pc
<1>3. try.pc = pc /\ try.key = k /\ try.attempt = a /\ try.copy = copy /\ try # Idle
  BY DEF Idle
<1> HIDE DEF try
<1>4. ASSUME NEW j \in Keys, j # k PROVE KeyOK(j)'
  BY <1>1, <1>3, <1>4, OtherKeys
<1>5. KeyOK(k)'
  <2>1. verifying'[v] = try /\ \A w \in Verifiers : w # v => verifying'[w] = verifying[w]
    BY <1>1 DEF Shapes
  <2>2. \A w \in Verifiers : w # v /\ On(w, k)' => On(w, k) /\ verifying'[w] = verifying[w]
    BY <2>1 DEF On
  <2>3. /\ sessions[k] = 0 /\ wrongs[k] = copy.attempts /\ wrongs[k] < MaxAttempts
        /\ \A w \in Verifiers : On(w, k) => TryOK(w, k) /\ verifying[w].pc # "register"
    BY <1>1 DEF KeyOK
  <2>4. TryOK(v, k)'
    BY <1>1, <1>2, <1>3, <2>1, <2>3 DEF TryOK
  <2>5. \A w \in Verifiers : On(w, k)' => TryOK(w, k)' /\ verifying'[w].pc # "register"
    BY <1>1, <1>2, <1>3, <2>1, <2>2, <2>3, <2>4 DEF TryOK
  <2>6. ASSUME NEW w \in Verifiers, w # v, On(w, k)'
        PROVE  a = "right" /\ verifying'[w].attempt = "right"
    <3>1. On(w, k) /\ verifying'[w] = verifying[w]
      BY <2>2, <2>6
    <3>2. Busy(k)
      BY <3>1 DEF Busy, On
    <3>3. a \in Overlapping /\ verifying[w].attempt \in Overlapping
      BY <1>1, <3>1, <3>2 DEF MayOverlap, On
    <3> QED
      BY <3>1, <3>3, AccessAssumption
  <2>7. \A w, x \in Verifiers :
          On(w, k)' /\ On(x, k)' /\ w # x => verifying'[w].attempt = "right"
    BY <1>3, <2>1, <2>6
  <2>8. challenges'[k] # NoRow
    BY <1>1 DEF NoRow
  <2> QED
    BY <1>1, <2>3, <2>5, <2>7, <2>8 DEF KeyOK
<1> QED
  BY <1>4, <1>5

\* A request that finds its challenge expired, or its attempt wrong, saves the row it read.
LEMMA SavingKeeps ==
  ASSUME Shapes, \A j \in Keys : KeyOK(j), NEW v \in Verifiers, SaveExpired(v) \/ SaveFailed(v)
  PROVE  \A j \in Keys : KeyOK(j)'
<1> DEFINE copy == verifying[v].copy
<1>1. verifying[v] \in Trying
  BY Held DEF SaveExpired, SaveFailed
<1> PICK k \in Keys : k = verifying[v].key
  BY <1>1 DEF Trying
<1>2. copy \in Row /\ On(v, k)
  BY <1>1 DEF Trying, Idle, On
<1>3. PICK row : /\ SavesCopy(v, row) /\ UNCHANGED sessions
                 /\ \/ SaveExpired(v) /\ row = [copy EXCEPT !.status = "expired"] /\ wrongs' = wrongs
                    \/ SaveFailed(v) /\ row = Failed(copy) /\ wrongs' = [wrongs EXCEPT ![k] = @ + 1]
  BY DEF SaveExpired, SaveFailed
<1>4. /\ challenges' = [challenges EXCEPT ![k] = row] /\ verifying' = [verifying EXCEPT ![v] = Idle]
      /\ \A j \in Keys : j # k => wrongs'[j] = wrongs[j]
  BY <1>2, <1>3 DEF SavesCopy, Shapes
<1>5. ASSUME NEW j \in Keys, j # k PROVE KeyOK(j)'
  <2>1. challenges'[j] = challenges[j] /\ sessions'[j] = sessions[j] /\ wrongs'[j] = wrongs[j]
    BY <1>3, <1>4, <1>5 DEF Shapes
  <2> QED
    BY <1>2, <1>4, <1>5, <2>1, OtherKeys
<1>6. KeyOK(k)'
  <2>1. challenges'[k] = row
    BY <1>2, <1>4 DEF Shapes
  <2>2. ~On(v, k)' /\ \A w \in Verifiers : On(w, k)' => On(w, k) /\ verifying'[w] = verifying[w] /\ w # v
    BY <1>4 DEF Shapes, On
  <2>3. KeyOK(k)
    BY <1>2
  <2>4. CASE SaveExpired(v)
    <3>1. verifying[v].pc = "expire"
      BY <2>4 DEF SaveExpired
    <3>2. wrongs' = wrongs /\ row = [copy EXCEPT !.status = "expired"]
      BY <1>3, <2>4, <3>1 DEF SaveFailed
    <3>3. row \in Row /\ row.status = "expired"
      BY <1>2, <3>2 DEF Row
    <3>4. row # NoRow /\ row.status # "pending"
      BY <3>3 DEF Row, NoRow
    <3>5. \A w \in Verifiers : On(w, k)' => TryOK(w, k)'
      BY <1>3, <2>2, <2>3, <3>2 DEF KeyOK, TryOK
    <3> QED
      BY <2>1, <2>2, <2>3, <3>4, <3>5 DEF KeyOK
  <2>5. CASE SaveFailed(v)
    <3>1. verifying[v].pc = "fail"
      BY <2>5 DEF SaveFailed
    <3>2. wrongs' = [wrongs EXCEPT ![k] = @ + 1] /\ row = Failed(copy)
      BY <1>3, <2>5, <3>1 DEF SaveExpired
    <3>3. sessions[k] = 0 /\ wrongs[k] = copy.attempts /\ verifying[v].attempt = "wrong"
      BY <1>1, <1>2, <2>3, <3>1 DEF KeyOK, TryOK, Trying, Attempt
    <3>4. \A w \in Verifiers : ~On(w, k)'
      BY <1>2, <2>2, <2>3, <3>3 DEF KeyOK
    <3>5. row \in Row /\ row.attempts = copy.attempts + 1
          /\ (row.status = "pending" => copy.attempts + 1 < MaxAttempts)
      BY <1>2, <3>2, FailedRow
    <3>6. row # NoRow
      BY <3>5 DEF Row, NoRow
    <3>7. wrongs'[k] = wrongs[k] + 1
      BY <1>2, <3>2 DEF Shapes
    <3> QED
      BY <1>3, <2>1, <3>3, <3>4, <3>5, <3>6, <3>7 DEF KeyOK
  <2> QED
    BY <2>4, <2>5
<1> QED
  BY <1>5, <1>6

\* The update that consumes a pending row: the request that gets through registers.
LEMMA ConsumeKeeps ==
  ASSUME Shapes, \A j \in Keys : KeyOK(j), NEW v \in Verifiers, Consume(v)
  PROVE  \A j \in Keys : KeyOK(j)'
<1>1. verifying[v] \in Trying /\ verifying[v].pc = "consume" /\ UNCHANGED <<sessions, wrongs>>
  BY Held DEF Consume
<1> PICK k \in Keys : k = verifying[v].key
  BY <1>1 DEF Trying
<1> DEFINE row == [challenges[k] EXCEPT !.status = "consumed"]
           try == [verifying[v] EXCEPT !.pc = "register"]
<1>2. On(v, k)
  BY <1>1 DEF Trying, Idle, On
<1>3. CASE challenges[k].status # "pending"
  <2>1. verifying' = [verifying EXCEPT ![v] = Idle] /\ challenges' = challenges
    BY <1>3 DEF Consume, Consumable
  <2>2. ASSUME NEW j \in Keys PROVE KeyOK(j)'
    <3>1. \A w \in Verifiers : On(w, j)' => verifying'[w] = verifying[w]
      BY <2>1 DEF Shapes, On
    <3> QED
      BY <1>1, <2>1, <3>1, Frame
  <2> QED
    BY <2>2
<1>4. CASE challenges[k].status = "pending"
  <2>1. /\ challenges' = [challenges EXCEPT ![k] = row]
        /\ verifying' = [verifying EXCEPT ![v] = try]
    BY <1>4 DEF Consume, Consumable
  <2>2. challenges[k] \in Row
    BY <1>2, <1>4, Held
  <2>3. row \in Row /\ row.status = "consumed"
    BY <2>2 DEF Row
  <2>4. try.key = k /\ try.pc = "register" /\ try.attempt = verifying[v].attempt /\ try \in Trying
    BY <1>1 DEF Trying
  <2> HIDE DEF row, try
  <2>5. try # Idle /\ row # NoRow /\ row.status # "pending"
    BY <2>3, <2>4 DEF Trying, Idle, Row, NoRow
  <2>6. ASSUME NEW j \in Keys, j # k PROVE KeyOK(j)'
    <3>1. challenges'[j] = challenges[j]
      BY <2>1, <2>6 DEF Shapes
    <3> QED
      BY <1>1, <1>2, <2>1, <2>4, <2>6, <3>1, OtherKeys
  <2>7. KeyOK(k)'
    <3>1. /\ challenges'[k] = row /\ verifying'[v] = try
          /\ \A w \in Verifiers : w # v => verifying'[w] = verifying[w]
      BY <1>2, <2>1 DEF Shapes
    <3>2. \A w \in Verifiers : w # v /\ On(w, k)' => On(w, k) /\ verifying'[w] = verifying[w]
      BY <3>1 DEF On
    <3>3. KeyOK(k)
      BY <1>2
    <3>4. sessions[k] = 0 /\ \A w \in Verifiers : On(w, k) => verifying[w].pc # "register"
      BY <1>4, <3>3 DEF KeyOK
    <3>5. TryOK(v, k)
      BY <1>2, <3>3 DEF KeyOK
    <3>6. verifying[v].attempt = "right" /\ wrongs[k] < MaxAttempts
      BY <1>1, <3>5 DEF TryOK, Trying, Attempt
    <3>7. TryOK(v, k)'
      BY <1>1, <2>4, <3>1, <3>4, <3>6 DEF TryOK
    <3>8. \A w \in Verifiers : w # v /\ On(w, k)' => TryOK(w, k)'
      BY <1>1, <3>2, <3>3 DEF KeyOK, TryOK
    <3>9. \A w, x \in Verifiers :
            On(w, k)' /\ On(x, k)' /\ w # x =>
              /\ verifying'[w].attempt = "right"
              /\ ~(verifying'[w].pc = "register" /\ verifying'[x].pc = "register")
      BY <1>2, <2>4, <3>1, <3>2, <3>3, <3>4, <3>6 DEF KeyOK
    <3> QED
      BY <2>5, <3>1, <3>7, <3>8, <3>9 DEF KeyOK
  <2> QED
    BY <2>6, <2>7
<1> QED
  BY <1>3, <1>4

\* A registration, which alone gives a session: the first, and before the last
\* allowed wrong attempt.
LEMMA RegisterKeeps ==
  ASSUME Shapes, \A j \in Keys : KeyOK(j), NEW v \in Verifiers, Register(v) \/ RegisterFails(v)
  PROVE  /\ \A j \in Keys : KeyOK(j)'
         /\ \A j \in Keys : sessions'[j] > sessions[j] =>
              sessions[j] = 0 /\ sessions'[j] = 1 /\ wrongs[j] < MaxAttempts
<1>1. /\ verifying[v] \in Trying /\ verifying[v].pc = "register"
      /\ verifying' = [verifying EXCEPT ![v] = Idle]
      /\ UNCHANGED <<challenges, wrongs>>
      /\ sessions' = sessions \/ sessions' = [sessions EXCEPT ![verifying[v].key] = @ + 1]
  BY Held DEF Register, RegisterFails
<1> PICK k \in Keys : k = verifying[v].key
  BY <1>1 DEF Trying
<1>2. On(v, k)
  BY <1>1 DEF Trying, Idle, On
<1>3. TryOK(v, k) /\ KeyOK(k)
  BY <1>2 DEF KeyOK
<1>4. sessions[k] = 0 /\ wrongs[k] < MaxAttempts
  BY <1>1, <1>3 DEF TryOK
<1>5. /\ \A j \in Keys : j # k => sessions'[j] = sessions[j]
      /\ sessions'[k] \in {0, 1}
  BY <1>1, <1>2, <1>4 DEF Shapes
<1>6. ASSUME NEW j \in Keys, j # k PROVE KeyOK(j)'
  BY <1>1, <1>2, <1>5, <1>6, OtherKeys
<1>7. KeyOK(k)'
  <2>1. ~On(v, k)' /\ \A w \in Verifiers : On(w, k)' => On(w, k) /\ verifying'[w] = verifying[w] /\ w # v
    BY <1>1 DEF Shapes, On
  <2>2. challenges[k] # NoRow /\ challenges[k].status # "pending"
    BY <1>1, <1>2, <1>3 DEF KeyOK
  <2>3. \A w \in Verifiers :
          On(w, k)' => verifying[w].attempt = "right" /\ verifying[w].pc # "register" /\ TryOK(w, k)
    BY <1>1, <1>2, <1>3, <2>1 DEF KeyOK
  <2>4. \A w \in Verifiers : On(w, k)' => TryOK(w, k)'
    BY <1>1, <2>1, <2>3 DEF TryOK
  <2> QED
    BY <1>1, <2>1, <2>2, <2>3, <2>4 DEF KeyOK
<1>8. \A j \in Keys : sessions[j] \in Nat
  BY DEF Shapes
<1> QED
  BY <1>4, <1>5, <1>6, <1>7, <1>8

\* A step without a verification.
LEMMA StillKeeps ==
  ASSUME \A j \in Keys : KeyOK(j), UNCHANGED <<challenges, verifying, sessions, wrongs>>
  PROVE  \A j \in Keys : KeyOK(j)'
<1> SUFFICES ASSUME NEW j \in Keys PROVE KeyOK(j)'
  OBVIOUS
<1> QED
  BY Frame

LEMMA KeysKeep ==
  ASSUME "wrong" \notin Overlapping, Shapes, \A j \in Keys : KeyOK(j), [Next]_vars
  PROVE  /\ \A j \in Keys : KeyOK(j)'
         /\ \A j \in Keys : sessions'[j] > sessions[j] =>
              sessions[j] = 0 /\ sessions'[j] = 1 /\ wrongs[j] < MaxAttempts
<1>1. ASSUME sessions' = sessions
      PROVE  \A j \in Keys : ~(sessions'[j] > sessions[j])
  <2>1. \A j \in Keys : sessions[j] \in Nat
    BY DEF Shapes
  <2> QED
    BY <1>1, <2>1
<1>2. ASSUME NEW c \in Creators,
             \/ \E k \in Keys : Count(c, k)
             \/ Insert(c) \/ Deliver(c) \/ DeliveryFails(c) \/ GiveUp(c)
      PROVE  (\A j \in Keys : KeyOK(j)') /\ sessions' = sessions
  BY <1>2, CreatingKeeps DEF Count, Insert, Deliver, DeliveryFails, GiveUp
<1>3. ASSUME NEW v \in Verifiers,
             \/ \E k \in Keys, a \in Attempt : Read(v, k, a)
             \/ SaveExpired(v) \/ SaveFailed(v) \/ Consume(v)
      PROVE  (\A j \in Keys : KeyOK(j)') /\ sessions' = sessions
  <2>1. sessions' = sessions
    BY <1>3 DEF Read, SaveExpired, SaveFailed, Consume
  <2> QED
    BY <1>3, <2>1, ReadKeeps, SavingKeeps, ConsumeKeeps
<1>4. ASSUME NEW e \in Emails, NEW d \in Devices, RegisterDirectly(e, d) \/ RevokeDevice(e, d)
      PROVE  (\A j \in Keys : KeyOK(j)') /\ sessions' = sessions
  BY <1>4, StillKeeps DEF RegisterDirectly, RevokeDevice
<1>5. ASSUME Tick \/ UNCHANGED vars
      PROVE  (\A j \in Keys : KeyOK(j)') /\ sessions' = sessions
  BY <1>5, StillKeeps DEF Tick, vars
<1> QED
  BY <1>1, <1>2, <1>3, <1>4, <1>5, RegisterKeeps DEF Next

\* When the wrong attempts on a challenge come one at a time: for any number of
\* requests, right codes sent together, and expiries and deliveries in any order, a
\* challenge opens one session, and none after the allowed number of wrong attempts.
THEOREM CodeOpensOnce ==
  ASSUME "wrong" \notin Overlapping
  PROVE  Spec => OneSessionPerChallenge
<1> DEFINE Inv == Shapes /\ Rights /\ \A j \in Keys : KeyOK(j)
<1>1. Init => Inv
  <2> SUFFICES ASSUME Init PROVE \A j \in Keys : KeyOK(j)
    BY InitShapes
  <2> SUFFICES ASSUME NEW j \in Keys PROVE KeyOK(j)
    OBVIOUS
  <2>1. challenges[j] = NoRow /\ sessions[j] = 0 /\ wrongs[j] = 0
    BY DEF Init
  <2>2. challenges[j].status # "pending"
    BY <2>1 DEF NoRow
  <2>3. \A v \in Verifiers : ~On(v, j)
    BY DEF Init, On
  <2> QED
    BY <2>1, <2>2, <2>3 DEF KeyOK
<1>2. Inv /\ [Next]_vars => Inv'
  BY StepKeeps, KeysKeep
<1>3. Inv /\ [Next]_vars =>
        [\A k \in Keys : sessions'[k] > sessions[k] =>
           sessions[k] = 0 /\ sessions'[k] = 1 /\ wrongs[k] < MaxAttempts]_sessions
  BY KeysKeep
<1> QED
  BY <1>1, <1>2, <1>3, PTL DEF Spec, OneSessionPerChallenge

-----------------------------------------------------------------------------
(* The limits on challenges.  A request that counts sees the rows that are   *)
(* inserted by then; those that come later belong to requests that are open  *)
(* with it, which are no more than Creators.                                 *)

\* Rows stay, with the time they were created; a request that holds a copy of a
\* row holds that time.
Copies ==
  /\ \A c \in Creators : creating[c].pc \in {"deliver", "giveUp"} =>
       /\ creating[c].key \in Created
       /\ creating[c].copy.created = challenges[creating[c].key].created
  /\ \A v \in Verifiers : verifying[v] # Idle =>
       /\ verifying[v].key \in Created
       /\ verifying[v].copy.created = challenges[verifying[v].key].created

Same ==
  /\ Created' = Created
  /\ \A k \in Created : challenges'[k].created = challenges[k].created

\* Saving a row of a challenge that has one.
LEMMA Rewriting ==
  ASSUME Shapes, NEW k \in Created, NEW row \in Row, row.created = challenges[k].created,
         challenges' = [challenges EXCEPT ![k] = row]
  PROVE  Same
<1>1. k \in Keys /\ row # NoRow
  BY DEF Created, Row, NoRow
<1>2. \A j \in Keys : challenges'[j] = IF j = k THEN row ELSE challenges[j]
  BY <1>1 DEF Shapes
<1>3. Created' = Created
  BY <1>1, <1>2 DEF Created
<1> QED
  BY <1>2, <1>3 DEF Same, Created

\* Only an insert adds a row, and nothing changes when one was created.
LEMMA RowsStay ==
  ASSUME Shapes, Copies, [Next]_vars
  PROVE  Same \/ \E c \in Creators : Insert(c)
<1>1. ASSUME challenges' = challenges PROVE Same
  BY <1>1 DEF Same, Created
<1>2. ASSUME NEW c \in Creators, GiveUp(c) PROVE Same
  <2> DEFINE row == [creating[c].copy EXCEPT !.status = "expired"]
  <2>1. creating[c] \in Mailing
    BY <1>2, Held DEF GiveUp
  <2>2. PICK k \in Created : k = creating[c].key /\ creating[c].copy.created = challenges[k].created
    BY <2>1 DEF Copies, Mailing
  <2>3. row \in Row /\ row.created = challenges[k].created
    BY <2>1, <2>2 DEF Mailing, Row
  <2>4. challenges' = challenges \/ challenges' = [challenges EXCEPT ![k] = row]
    BY <1>2, <2>2 DEF GiveUp
  <2> HIDE DEF row
  <2> QED
    BY <1>1, <2>3, <2>4, Rewriting
<1>3. ASSUME NEW v \in Verifiers, SaveExpired(v) \/ SaveFailed(v) PROVE Same
  <2> DEFINE copy == verifying[v].copy
  <2>1. verifying[v] \in Trying /\ verifying[v] # Idle
    BY <1>3, Held DEF SaveExpired, SaveFailed, Idle
  <2>2. PICK k \in Created : k = verifying[v].key /\ copy.created = challenges[k].created
    BY <2>1 DEF Copies
  <2>3. copy \in Row
    BY <2>1 DEF Trying
  <2>4. PICK row : /\ challenges' = [challenges EXCEPT ![k] = row]
                   /\ row = [copy EXCEPT !.status = "expired"] \/ row = Failed(copy)
    BY <1>3, <2>2 DEF SaveExpired, SaveFailed, SavesCopy
  <2>5. row \in Row /\ row.created = copy.created
    BY <2>3, <2>4, FailedRow DEF Row
  <2> QED
    BY <2>2, <2>4, <2>5, Rewriting
<1>4. ASSUME NEW v \in Verifiers, Consume(v) PROVE Same
  <2> DEFINE k == verifying[v].key
             row == [challenges[k] EXCEPT !.status = "consumed"]
  <2>1. verifying[v] \in Trying /\ verifying[v] # Idle
    BY <1>4, Held DEF Consume, Idle
  <2>2. k \in Created /\ k \in Keys /\ challenges[k] \in Row
    BY <2>1, Held DEF Copies, Created
  <2>3. row \in Row /\ row.created = challenges[k].created
    BY <2>2 DEF Row
  <2>4. challenges' = challenges \/ challenges' = [challenges EXCEPT ![k] = row]
    BY <1>4 DEF Consume
  <2> HIDE DEF row
  <2> QED
    BY <1>1, <2>2, <2>3, <2>4, Rewriting
<1>5. ASSUME NEW v \in Verifiers,
             \/ \E k \in Keys, a \in Attempt : Read(v, k, a)
             \/ Register(v) \/ RegisterFails(v)
      PROVE  Same
  BY <1>1, <1>5 DEF Read, Register, RegisterFails
<1>6. ASSUME NEW c \in Creators,
             (\E k \in Keys : Count(c, k)) \/ Deliver(c) \/ DeliveryFails(c)
      PROVE  Same
  BY <1>1, <1>6 DEF Count, Deliver, DeliveryFails
<1>7. ASSUME NEW e \in Emails, NEW d \in Devices, RegisterDirectly(e, d) \/ RevokeDevice(e, d)
      PROVE  Same
  BY <1>1, <1>7 DEF RegisterDirectly, RevokeDevice
<1>8. ASSUME Tick \/ UNCHANGED vars PROVE Same
  BY <1>1, <1>8 DEF Tick, vars
<1> QED
  BY <1>2, <1>3, <1>4, <1>5, <1>6, <1>7, <1>8 DEF Next

\* What Insert does to the rows.
LEMMA Inserts ==
  ASSUME Shapes, NEW c \in Creators, Insert(c)
  PROVE  \E k \in Keys :
           /\ creating[c].pc = "insert" /\ creating[c].key = k /\ creating[c].at \in Nat
           /\ UNCHANGED verifying
           /\ \A b \in Creators : b # c => creating'[b] = creating[b]
           /\ \/ Same /\ creating'[c] = Idle
              \/ /\ k \notin Created /\ Created' = Created \cup {k}
                 /\ \A j \in Created : challenges'[j] = challenges[j]
                 /\ challenges'[k].created = creating[c].at
                 /\ creating'[c].pc = "deliver" /\ creating'[c].key = k
                 /\ creating'[c].copy = challenges'[k]
<1> PICK k \in Keys : k = creating[c].key
  BY Held DEF Insert, Inserting
<1> DEFINE row == [status |-> "pending", attempts |-> 0, created |-> creating[c].at,
                   expires |-> creating[c].at + TTL]
           mailing == [pc |-> "deliver", key |-> k, copy |-> row]
<1>1. creating[c].pc = "insert" /\ creating[c].at \in Nat /\ UNCHANGED verifying
  BY Held DEF Insert, Inserting
<1>2. CASE k \in Created
  <2>1. creating' = [creating EXCEPT ![c] = Idle] /\ challenges' = challenges
    BY <1>2 DEF Insert
  <2>2. /\ creating'[c] = Idle /\ Same
        /\ \A b \in Creators : b # c => creating'[b] = creating[b]
    BY <2>1 DEF Shapes, Same, Created
  <2> QED
    BY <1>1, <2>2
<1>3. CASE k \notin Created
  <2>1. /\ creating' = [creating EXCEPT ![c] = mailing]
        /\ challenges' = [challenges EXCEPT ![k] = row]
    BY <1>3 DEF Insert
  <2>2. /\ row.created = creating[c].at /\ row # NoRow
        /\ mailing.pc = "deliver" /\ mailing.key = k /\ mailing.copy = row
    BY DEF NoRow
  <2> HIDE DEF row, mailing
  <2>3. /\ creating'[c] = mailing
        /\ \A b \in Creators : b # c => creating'[b] = creating[b]
        /\ \A j \in Keys : challenges'[j] = IF j = k THEN row ELSE challenges[j]
    BY <2>1 DEF Shapes
  <2>4. Created' = Created \cup {k} /\ \A j \in Created : challenges'[j] = challenges[j]
    BY <1>3, <2>2, <2>3 DEF Created
  <2> QED
    BY <1>1, <1>3, <2>2, <2>3, <2>4
<1> QED
  BY <1>2, <1>3

\* Copies stay copies.
LEMMA CopiesStay ==
  ASSUME Shapes, Copies, [Next]_vars
  PROVE  Copies'
<1>1. \A k \in Created : k \in Created' /\ challenges'[k].created = challenges[k].created
  BY RowsStay, Inserts DEF Same
<1>2. ASSUME NEW c \in Creators, creating'[c].pc \in {"deliver", "giveUp"}
      PROVE  \/ /\ creating[c].pc \in {"deliver", "giveUp"}
                /\ creating'[c].key = creating[c].key /\ creating'[c].copy = creating[c].copy
             \/ /\ creating'[c].key \in Created'
                /\ creating'[c].copy.created = challenges'[creating'[c].key].created
  <2>1. CASE creating'[c] = creating[c]
    BY <1>2, <2>1
  <2>2. CASE creating'[c] # creating[c]
    <3>1. PICK b \in Creators : \/ \E k \in Keys : Count(b, k)
                                \/ Insert(b) \/ Deliver(b) \/ DeliveryFails(b) \/ GiveUp(b)
      BY <2>2 DEF Next, vars, Read, SaveExpired, SaveFailed, Consume, Register, RegisterFails,
                  RegisterDirectly, RevokeDevice, Tick
    <3>2. CASE Insert(b)
      BY <2>2, <1>2, <3>2, Inserts DEF Idle
    <3>3. CASE DeliveryFails(b)
      <4>1. creating[b] \in Mailing /\ creating' = [creating EXCEPT ![b] = [creating[b] EXCEPT !.pc = "giveUp"]]
        BY <3>3, Held DEF DeliveryFails
      <4>2. /\ creating[b].pc = "deliver"
            /\ [creating[b] EXCEPT !.pc = "giveUp"].key = creating[b].key
            /\ [creating[b] EXCEPT !.pc = "giveUp"].copy = creating[b].copy
        BY <3>3, <4>1 DEF DeliveryFails, Mailing
      <4>3. b = c /\ creating'[c] = [creating[b] EXCEPT !.pc = "giveUp"]
        BY <2>2, <4>1 DEF Shapes
      <4> QED
        BY <4>2, <4>3
    <3>4. CASE Deliver(b) \/ GiveUp(b)
      <4>1. creating'[c] = Idle
        BY <2>2, <3>4 DEF Deliver, GiveUp, Shapes
      <4> QED
        BY <1>2, <4>1 DEF Idle
    <3>5. CASE \E k \in Keys : Count(b, k)
      <4>1. PICK k \in Keys : creating' = [creating EXCEPT ![b] = [pc |-> "insert", key |-> k, at |-> now]]
        BY <3>5 DEF Count
      <4>2. creating'[c] = [pc |-> "insert", key |-> k, at |-> now]
        BY <2>2, <4>1 DEF Shapes
      <4> QED
        BY <1>2, <4>2
    <3> QED
      BY <3>1, <3>2, <3>3, <3>4, <3>5
  <2> QED
    BY <2>1, <2>2
<1>3. ASSUME NEW v \in Verifiers, verifying'[v] # Idle
      PROVE  \/ /\ verifying[v] # Idle
                /\ verifying'[v].key = verifying[v].key /\ verifying'[v].copy = verifying[v].copy
             \/ /\ verifying'[v].key \in Created
                /\ verifying'[v].copy = challenges[verifying'[v].key]
  <2>1. CASE verifying'[v] = verifying[v]
    BY <1>3, <2>1
  <2>2. CASE verifying'[v] # verifying[v]
    <3>1. PICK w \in Verifiers : \/ \E k \in Keys, a \in Attempt : Read(w, k, a)
                                 \/ SaveExpired(w) \/ SaveFailed(w) \/ Consume(w)
                                 \/ Register(w) \/ RegisterFails(w)
      BY <2>2 DEF Next, vars, Count, Insert, Deliver, DeliveryFails, GiveUp,
                  RegisterDirectly, RevokeDevice, Tick
    <3>2. CASE \E k \in Keys, a \in Attempt : Read(w, k, a)
      <4>1. PICK k \in Keys, a \in Attempt : Read(w, k, a)
        BY <3>2
      <4> DEFINE try == [pc |-> Verdict(challenges[k], a), key |-> k, attempt |-> a, copy |-> challenges[k]]
      <4>2. verifying' = [verifying EXCEPT ![w] = try] /\ k \in Created
        BY <4>1 DEF Read
      <4>3. try.key = k /\ try.copy = challenges[k]
        OBVIOUS
      <4> HIDE DEF try
      <4>4. verifying'[v] = try
        BY <2>2, <4>2 DEF Shapes
      <4> QED
        BY <4>2, <4>3, <4>4
    <3>3. CASE SaveExpired(w) \/ SaveFailed(w) \/ Register(w) \/ RegisterFails(w)
      <4>1. verifying' = [verifying EXCEPT ![w] = Idle]
        BY <3>3 DEF SaveExpired, SaveFailed, SavesCopy, Register, RegisterFails
      <4> QED
        BY <1>3, <2>2, <4>1 DEF Shapes
    <3>4. CASE Consume(w)
      <4> DEFINE try == [verifying[w] EXCEPT !.pc = "register"]
      <4>1. verifying' = [verifying EXCEPT ![w] = Idle] \/ verifying' = [verifying EXCEPT ![w] = try]
        BY <3>4 DEF Consume
      <4>2. verifying[w] \in Trying
        BY <3>4, Held DEF Consume
      <4>3. try.key = verifying[w].key /\ try.copy = verifying[w].copy /\ verifying[w] # Idle
        BY <4>2 DEF Trying, Idle
      <4> HIDE DEF try
      <4>4. v = w /\ verifying'[v] = try
        BY <1>3, <2>2, <4>1 DEF Shapes
      <4> QED
        BY <4>3, <4>4
    <3> QED
      BY <3>1, <3>2, <3>3, <3>4
  <2> QED
    BY <2>1, <2>2
<1>4. ASSUME NEW c \in Creators, creating'[c].pc \in {"deliver", "giveUp"}
      PROVE  /\ creating'[c].key \in Created'
             /\ creating'[c].copy.created = challenges'[creating'[c].key].created
  BY <1>1, <1>2, <1>4 DEF Copies
<1>5. ASSUME NEW v \in Verifiers, verifying'[v] # Idle
      PROVE  /\ verifying'[v].key \in Created'
             /\ verifying'[v].copy.created = challenges'[verifying'[v].key].created
  BY <1>1, <1>3, <1>5 DEF Copies
<1> QED
  BY <1>4, <1>5 DEF Copies

-----------------------------------------------------------------------------
(* Counting them.                                                            *)

\* The challenges of K that are in the window that ends at t, and the requests
\* that counted in it and have not inserted theirs.
Kept(K, t) == {k \in K \cap Created : challenges[k].created \in (t - Window)..t}
Coming(K, t) ==
  {c \in Creators : creating[c].pc = "insert" /\ creating[c].key \in K /\ creating[c].at \in (t - Window)..t}

Quota(K, max) ==
  \A t \in Int : Cardinality(Kept(K, t)) + Cardinality(Coming(K, t)) <= max + Cardinality(Creators) - 1

Quotas ==
  /\ IsFiniteSet(Created)
  /\ Quota(Keys, MaxPerIP)
  /\ \A e \in Emails : Quota(KeysOf(e), MaxPerEmail)

LEMMA Finite ==
  ASSUME IsFiniteSet(Creators), IsFiniteSet(Created), NEW K, NEW t
  PROVE  /\ IsFiniteSet(Kept(K, t)) /\ IsFiniteSet(Coming(K, t))
         /\ Cardinality(Kept(K, t)) \in Nat /\ Cardinality(Coming(K, t)) \in Nat
         /\ Cardinality(Creators) \in Nat /\ Cardinality(Coming(K, t)) <= Cardinality(Creators)
<1>1. Kept(K, t) \subseteq Created /\ Coming(K, t) \subseteq Creators
  BY DEF Kept, Coming
<1> QED
  BY <1>1, FS_Subset, FS_CardinalityType

\* A request that counts: the rows it counted are those of every window that ends
\* from now on, and each other open request brings one more at most.
LEMMA CountKeeps ==
  ASSUME IsFiniteSet(Creators), IsFiniteSet(Created), Shapes,
         NEW c \in Creators, NEW k \in Keys, Count(c, k),
         NEW K, NEW max \in Nat, Quota(K, max), k \in K => InWindow(K, now) < max
  PROVE  Quota(K, max)'
<1> SUFFICES ASSUME NEW t \in Int
             PROVE  Cardinality(Kept(K, t)') + Cardinality(Coming(K, t)') <= max + Cardinality(Creators) - 1
  BY DEF Quota
<1>1. /\ challenges' = challenges /\ now \in Nat /\ Window \in Nat
      /\ creating[c] = Idle
      /\ creating' = [creating EXCEPT ![c] = [pc |-> "insert", key |-> k, at |-> now]]
  BY AccessAssumption DEF Count, Shapes
<1>2. Kept(K, t)' = Kept(K, t) /\ Created' = Created
  BY <1>1 DEF Kept, Created
<1>3. /\ creating'[c] = [pc |-> "insert", key |-> k, at |-> now]
      /\ \A b \in Creators : b # c => creating'[b] = creating[b]
  BY <1>1 DEF Shapes
<1>4. CASE k \in K /\ now \in (t - Window)..t
  <2> DEFINE seen == {j \in K \cap Created : challenges[j].created >= now - Window}
  <2>1. Kept(K, t) \subseteq seen
    <3> SUFFICES ASSUME NEW j \in Kept(K, t) PROVE challenges[j].created >= now - Window
      BY DEF Kept
    <3>1. challenges[j].created \in (t - Window)..t
      BY DEF Kept
    <3> QED
      BY <1>1, <1>4, <3>1
  <2>2. IsFiniteSet(seen)
    BY FS_Subset
  <2>3. Cardinality(Kept(K, t)) <= Cardinality(seen) /\ Cardinality(seen) \in Nat
    BY <2>1, <2>2, FS_Subset, FS_CardinalityType
  <2>4. Cardinality(seen) < max
    BY <1>4 DEF InWindow
  <2>5. IsFiniteSet(Coming(K, t)') /\ Cardinality(Coming(K, t)') <= Cardinality(Creators)
    BY FS_Subset DEF Coming
  <2>6. /\ Cardinality(Kept(K, t)) \in Nat /\ Cardinality(Creators) \in Nat
        /\ Cardinality(Coming(K, t)') \in Nat
    BY <2>5, Finite, FS_CardinalityType
  <2> HIDE DEF seen
  <2> QED
    BY <1>2, <2>3, <2>4, <2>5, <2>6
<1>5. CASE ~(k \in K /\ now \in (t - Window)..t)
  <2>1. Coming(K, t)' = Coming(K, t)
    BY <1>1, <1>3, <1>5 DEF Coming, Idle
  <2> QED
    BY <1>2, <2>1 DEF Quota
<1> QED
  BY <1>4, <1>5

\* An insert turns a request that counted into its row, or into nothing.
LEMMA InsertKeeps ==
  ASSUME IsFiniteSet(Creators), IsFiniteSet(Created), Shapes,
         NEW c \in Creators, Insert(c), NEW K, NEW max \in Nat, Quota(K, max)
  PROVE  Quota(K, max)' /\ IsFiniteSet(Created')
<1> PICK k \in Keys :
           /\ creating[c].pc = "insert" /\ creating[c].key = k /\ creating[c].at \in Nat
           /\ \A b \in Creators : b # c => creating'[b] = creating[b]
           /\ \/ Same /\ creating'[c] = Idle
              \/ /\ k \notin Created /\ Created' = Created \cup {k}
                 /\ \A j \in Created : challenges'[j] = challenges[j]
                 /\ challenges'[k].created = creating[c].at
                 /\ creating'[c].pc = "deliver"
  BY Inserts
<1>1. IsFiniteSet(Created')
  BY FS_AddElement DEF Same
<1> SUFFICES ASSUME NEW t \in Int
             PROVE  Cardinality(Kept(K, t)') + Cardinality(Coming(K, t)') <= max + Cardinality(Creators) - 1
  BY <1>1 DEF Quota
<1>2. Coming(K, t)' = Coming(K, t) \ {c}
  BY DEF Coming, Idle
<1>3. /\ IsFiniteSet(Kept(K, t)) /\ IsFiniteSet(Coming(K, t))
      /\ Cardinality(Kept(K, t)) \in Nat /\ Cardinality(Coming(K, t)) \in Nat
      /\ Cardinality(Creators) \in Nat
      /\ Cardinality(Kept(K, t)) + Cardinality(Coming(K, t)) <= max + Cardinality(Creators) - 1
  BY Finite DEF Quota
<1>4. CASE Kept(K, t)' = Kept(K, t)
  <2>1. Cardinality(Coming(K, t)') <= Cardinality(Coming(K, t)) /\ Cardinality(Coming(K, t)') \in Nat
    BY <1>2, <1>3, FS_Subset, FS_CardinalityType
  <2> QED
    BY <1>3, <1>4, <2>1
<1>5. CASE Kept(K, t)' # Kept(K, t)
  <2>1. /\ k \notin Created /\ Created' = Created \cup {k}
        /\ \A j \in Created : challenges'[j] = challenges[j]
        /\ challenges'[k].created = creating[c].at
    BY <1>5 DEF Same, Kept
  <2>2. /\ k \in K /\ creating[c].at \in (t - Window)..t
        /\ Kept(K, t)' = Kept(K, t) \cup {k}
    BY <1>5, <2>1 DEF Kept
  <2>3. c \in Coming(K, t) /\ k \notin Kept(K, t)
    BY <2>1, <2>2 DEF Coming, Kept
  <2>4. Cardinality(Kept(K, t)') = Cardinality(Kept(K, t)) + 1
    <3>1. IsFiniteSet(Kept(K, t)) /\ k \notin Kept(K, t)
      BY <1>3, <2>3
    <3>2. Cardinality(Kept(K, t) \cup {k}) = Cardinality(Kept(K, t)) + 1
      BY <3>1, FS_AddElement
    <3> QED
      BY <2>2, <3>2
  <2>5. Cardinality(Coming(K, t)') = Cardinality(Coming(K, t)) - 1
    BY <1>2, <1>3, <2>3, FS_RemoveElement
  <2> QED
    BY <1>3, <2>4, <2>5
<1> QED
  BY <1>4, <1>5

\* The other steps leave the rows' times and the requests that counted.
LEMMA OthersKeepQuota ==
  ASSUME Same, NEW K, NEW max,
         \A c \in Creators : creating'[c] = creating[c] \/ (creating[c].pc # "insert" /\ creating'[c].pc # "insert"),
         Quota(K, max)
  PROVE  Quota(K, max)'
<1>1. ASSUME NEW t \in Int PROVE Kept(K, t)' = Kept(K, t) /\ Coming(K, t)' = Coming(K, t)
  BY DEF Same, Kept, Coming
<1> QED
  BY <1>1 DEF Quota

LEMMA QuotasKept ==
  ASSUME IsFiniteSet(Creators), Shapes, Copies, Quotas, [Next]_vars
  PROVE  Quotas'
<1> USE DEF Quotas
<1>1. /\ MaxPerIP \in Nat /\ MaxPerEmail \in Nat
      /\ \A e \in Emails : KeysOf(e)' = KeysOf(e)
  BY AccessAssumption DEF KeysOf
<1>2. ASSUME NEW c \in Creators, NEW k \in Keys, Count(c, k) PROVE Quotas'
  <2>1. /\ \A e \in Emails : k \in KeysOf(e) => InWindow(KeysOf(e), now) < MaxPerEmail
        /\ InWindow(Keys, now) < MaxPerIP
    BY <1>2 DEF Count, RateAllows, KeysOf
  <2>2. Quota(Keys, MaxPerIP)'
    BY <1>1, <1>2, <2>1, CountKeeps
  <2>3. ASSUME NEW e \in Emails PROVE Quota(KeysOf(e), MaxPerEmail)'
    <3> DEFINE K == KeysOf(e)
    <3>1. Quota(K, MaxPerEmail) /\ (k \in K => InWindow(K, now) < MaxPerEmail)
      BY <2>1
    <3> HIDE DEF K
    <3>2. Quota(K, MaxPerEmail)'
      BY <1>1, <1>2, <3>1, CountKeeps
    <3> QED
      BY <3>2 DEF K
  <2>4. Created' = Created
    BY <1>2 DEF Count, Created
  <2> QED
    BY <2>2, <2>3, <2>4
<1>3. ASSUME NEW c \in Creators, Insert(c) PROVE Quotas'
  <2>1. Quota(Keys, MaxPerIP)' /\ IsFiniteSet(Created')
    BY <1>1, <1>3, InsertKeeps
  <2>2. ASSUME NEW e \in Emails PROVE Quota(KeysOf(e), MaxPerEmail)'
    <3> DEFINE K == KeysOf(e)
    <3>1. Quota(K, MaxPerEmail)
      OBVIOUS
    <3> HIDE DEF K
    <3>2. Quota(K, MaxPerEmail)'
      BY <1>1, <1>3, <3>1, InsertKeeps
    <3> QED
      BY <3>2 DEF K
  <2> QED
    BY <2>1, <2>2
<1>4. ASSUME ~\E c \in Creators : Insert(c) \/ \E k \in Keys : Count(c, k)
      PROVE  Quotas'
  <2>1. Same
    BY <1>4, RowsStay
  <2>2. \A c \in Creators : creating'[c] = creating[c] \/ (creating[c].pc # "insert" /\ creating'[c].pc # "insert")
    <3> SUFFICES ASSUME NEW c \in Creators, creating'[c] # creating[c]
                 PROVE  creating[c].pc # "insert" /\ creating'[c].pc # "insert"
      OBVIOUS
    <3>1. PICK b \in Creators : Deliver(b) \/ DeliveryFails(b) \/ GiveUp(b)
      BY <1>4 DEF Next, vars, Read, SaveExpired, SaveFailed, Consume, Register, RegisterFails,
                  RegisterDirectly, RevokeDevice, Tick
    <3>2. CASE DeliveryFails(b)
      <4>1. creating[b] \in Mailing /\ creating' = [creating EXCEPT ![b] = [creating[b] EXCEPT !.pc = "giveUp"]]
        BY <3>2, Held DEF DeliveryFails
      <4>2. creating[b].pc = "deliver" /\ [creating[b] EXCEPT !.pc = "giveUp"].pc = "giveUp"
        BY <3>2, <4>1 DEF DeliveryFails, Mailing
      <4> QED
        BY <4>1, <4>2 DEF Shapes
    <3>3. CASE Deliver(b) \/ GiveUp(b)
      <4>1. creating' = [creating EXCEPT ![b] = Idle] /\ creating[b].pc # "insert"
        BY <3>3 DEF Deliver, GiveUp
      <4> QED
        BY <4>1 DEF Shapes, Idle
    <3> QED
      BY <3>1, <3>2, <3>3
  <2>3. Quota(Keys, MaxPerIP)' /\ IsFiniteSet(Created')
    BY <2>1, <2>2, OthersKeepQuota DEF Same
  <2>4. ASSUME NEW e \in Emails PROVE Quota(KeysOf(e), MaxPerEmail)'
    <3> DEFINE K == KeysOf(e)
    <3>1. Quota(K, MaxPerEmail)
      OBVIOUS
    <3> HIDE DEF K
    <3>2. Quota(K, MaxPerEmail)'
      BY <2>1, <2>2, <3>1, OthersKeepQuota
    <3> QED
      BY <3>2 DEF K
  <2> QED
    BY <2>3, <2>4
<1> QED
  BY <1>2, <1>3, <1>4

\* For any number of requests at once: however they count, insert, register and
\* revoke, an address and an IP address have no more challenges in a window than the
\* limit and the other open requests, a user no more active devices than allowed, and
\* an address one trial.
THEOREM LimitsAlwaysHold ==
  ASSUME IsFiniteSet(Creators)
  PROVE  Spec => []LimitsHold
<1> DEFINE Inv == Shapes /\ Copies /\ Quotas
<1>1. Init => Inv
  <2> SUFFICES ASSUME Init PROVE Copies /\ Quotas
    BY InitShapes
  <2>1. Created = {} /\ \A c \in Creators : creating[c].pc = "idle"
    BY DEF Init, Created, Idle
  <2>2. Copies
    BY <2>1 DEF Init, Copies
  <2>3. ASSUME NEW K, NEW max \in Nat \ {0} PROVE Quota(K, max)
    <3>1. ASSUME NEW t \in Int PROVE Kept(K, t) = {} /\ Coming(K, t) = {}
      BY <2>1 DEF Kept, Coming
    <3>2. Cardinality({}) = 0 /\ Cardinality(Creators) \in Nat
      BY FS_EmptySet, FS_CardinalityType
    <3>3. 0 + 0 <= max + Cardinality(Creators) - 1
      BY <3>2
    <3>4. ASSUME NEW t \in Int
          PROVE  Cardinality(Kept(K, t)) + Cardinality(Coming(K, t)) <= max + Cardinality(Creators) - 1
      BY <3>1, <3>2, <3>3
    <3> QED
      BY <3>4 DEF Quota
  <2>4. IsFiniteSet(Created)
    BY <2>1, FS_EmptySet
  <2> QED
    BY <2>2, <2>3, <2>4, AccessAssumption DEF Quotas
<1>2. Inv /\ Rights /\ [Next]_vars => Inv'
  BY StepKeeps, CopiesStay, QuotasKept
<1>3. Inv => RateOverrun
  <2> SUFFICES ASSUME Inv, NEW t \in 0..MaxTime
               PROVE  LET between(K) == {k \in K \cap Created : challenges[k].created \in (t - Window)..t}
                          late == Cardinality(Creators) - 1
                      IN  /\ \A e \in Emails : Cardinality(between(KeysOf(e))) <= MaxPerEmail + late
                          /\ Cardinality(between(Keys)) <= MaxPerIP + late
    BY DEF RateOverrun
  <2>1. ASSUME NEW K, NEW max \in Nat, Quota(K, max)
        PROVE  Cardinality({k \in K \cap Created : challenges[k].created \in (t - Window)..t})
                 <= max + (Cardinality(Creators) - 1)
    <3>1. /\ Cardinality(Kept(K, t)) \in Nat /\ Cardinality(Coming(K, t)) \in Nat
          /\ Cardinality(Creators) \in Nat
      BY Finite DEF Quotas
    <3>2. Cardinality(Kept(K, t)) + Cardinality(Coming(K, t)) <= max + Cardinality(Creators) - 1
      BY <2>1 DEF Quota
    <3>3. Cardinality(Kept(K, t)) <= max + (Cardinality(Creators) - 1)
      BY <3>1, <3>2
    <3> QED
      BY <3>3 DEF Kept
  <2> QED
    BY <2>1, AccessAssumption DEF Quotas
<1>4. Init => Rights
  BY InitShapes
<1>5. Inv /\ Rights /\ [Next]_vars => Rights'
  BY StepKeeps
<1> QED
  BY <1>1, <1>2, <1>3, <1>4, <1>5, DevicesAndTrials, PTL DEF Spec, LimitsHold

-----------------------------------------------------------------------------
(* The types in full: the numbers in a row are within their limits because   *)
(* every request that saves a row read one that was pending.                 *)

Sound(row) ==
  /\ row \in Row /\ row.attempts <= MaxAttempts
  /\ row.created \in 0..MaxTime /\ row.expires = row.created + TTL
  /\ row.status = "pending" => row.attempts < MaxAttempts

SoundRows ==
  /\ \A k \in Created : Sound(challenges[k])
  /\ \A c \in Creators : /\ creating[c].pc = "insert" => creating[c].at \in 0..MaxTime
                         /\ creating[c].pc \in {"deliver", "giveUp"} => Sound(creating[c].copy)
  /\ \A v \in Verifiers : verifying[v] # Idle =>
       Sound(verifying[v].copy) /\ verifying[v].copy.status = "pending"

Numbered ==
  /\ now \in 0..MaxTime /\ faults \in 0..MaxFaults
  /\ mailed \subseteq Created
  /\ \A t \in trials : t.starts \in 0..MaxTime

\* Ending a row that is within the limits, or counting one more wrong attempt in
\* a pending one, leaves it within them.
LEMMA SoundEnds ==
  ASSUME NEW row, Sound(row)
  PROVE  /\ Sound([row EXCEPT !.status = "expired"]) /\ Sound([row EXCEPT !.status = "consumed"])
         /\ row.status = "pending" => Sound(Failed(row))
<1>1. row \in Row /\ row.attempts \in Nat /\ MaxAttempts \in Nat
  BY Numbers DEF Sound, Row
<1>2. ASSUME NEW s \in {"expired", "consumed"} PROVE Sound([row EXCEPT !.status = s])
  <2> DEFINE end == [row EXCEPT !.status = s]
  <2>1. /\ end \in Row /\ end.status = s /\ end.attempts = row.attempts
        /\ end.created = row.created /\ end.expires = row.expires
    BY <1>1 DEF Row
  <2> HIDE DEF end
  <2>2. Sound(end)
    BY <2>1 DEF Sound
  <2> QED
    BY <2>2 DEF end
<1>3. ASSUME row.status = "pending" PROVE Sound(Failed(row))
  <2> DEFINE status == IF row.attempts + 1 >= MaxAttempts THEN "expired" ELSE row.status
             n == row.attempts + 1
  <2>1. Failed(row) = [row EXCEPT !.attempts = n, !.status = status]
    BY DEF Failed
  <2>2. Failed(row).expires = row.expires
    <3> HIDE DEF status, n
    <3> QED
      BY <1>1, <2>1 DEF Row
  <2>3. /\ Failed(row) \in Row /\ Failed(row).attempts = row.attempts + 1
        /\ Failed(row).created = row.created
        /\ Failed(row).status = "pending" => row.attempts + 1 < MaxAttempts
    BY <1>1, FailedRow
  <2>4. row.attempts + 1 <= MaxAttempts
    BY <1>1, <1>3 DEF Sound
  <2> QED
    BY <2>2, <2>3, <2>4 DEF Sound
<1> QED
  BY <1>2, <1>3

\* A step saves at most one row, and at most one request goes on with a copy.
LEMMA SoundFrame ==
  ASSUME Shapes, SoundRows, challenges' = challenges, creating' = creating, verifying' = verifying
  PROVE  SoundRows'
BY DEF SoundRows, Created

LEMMA SoundCreating ==
  ASSUME Shapes, Copies, SoundRows, now \in 0..MaxTime, NEW c \in Creators,
         \/ \E k \in Keys : Count(c, k)
         \/ Insert(c) \/ Deliver(c) \/ DeliveryFails(c) \/ GiveUp(c)
  PROVE  SoundRows'
<1>1. verifying' = verifying
  BY DEF Count, Insert, Deliver, DeliveryFails, GiveUp
<1>2. SUFFICES /\ \A k \in Created' : Sound(challenges'[k])
               /\ \A b \in Creators :
                    /\ creating'[b].pc = "insert" => creating'[b].at \in 0..MaxTime
                    /\ creating'[b].pc \in {"deliver", "giveUp"} => Sound(creating'[b].copy)
  BY <1>1 DEF SoundRows
<1>3. ASSUME NEW r, creating' = [creating EXCEPT ![c] = r],
             r.pc = "insert" => r.at \in 0..MaxTime,
             r.pc \in {"deliver", "giveUp"} => Sound(r.copy)
      PROVE  \A b \in Creators :
               /\ creating'[b].pc = "insert" => creating'[b].at \in 0..MaxTime
               /\ creating'[b].pc \in {"deliver", "giveUp"} => Sound(creating'[b].copy)
  <2>1. \A b \in Creators : creating'[b] = IF b = c THEN r ELSE creating[b]
    BY <1>3 DEF Shapes
  <2> QED
    BY <1>3, <2>1 DEF SoundRows
<1>4. ASSUME NEW k \in Keys, NEW row, Sound(row), challenges' = [challenges EXCEPT ![k] = row]
      PROVE  \A j \in Created' : Sound(challenges'[j])
  <2>1. \A j \in Keys : challenges'[j] = IF j = k THEN row ELSE challenges[j]
    BY <1>4 DEF Shapes
  <2> QED
    BY <1>4, <2>1 DEF SoundRows, Created
<1>5. ASSUME challenges' = challenges PROVE \A j \in Created' : Sound(challenges'[j])
  BY <1>5 DEF SoundRows, Created
<1>6. Idle.pc \notin {"insert", "deliver", "giveUp"}
  BY DEF Idle
<1>7. ASSUME NEW k \in Keys, Count(c, k) PROVE SoundRows'
  <2> DEFINE r == [pc |-> "insert", key |-> k, at |-> now]
  <2>1. r.pc = "insert" /\ r.at = now
    OBVIOUS
  <2>2. creating' = [creating EXCEPT ![c] = r] /\ challenges' = challenges
    BY <1>7 DEF Count
  <2> HIDE DEF r
  <2> QED
    BY <1>1, <1>3, <1>5, <2>1, <2>2 DEF SoundRows
<1>8. CASE Insert(c)
  <2> DEFINE k == creating[c].key
             row == [status |-> "pending", attempts |-> 0, created |-> creating[c].at,
                     expires |-> creating[c].at + TTL]
             r == [pc |-> "deliver", key |-> k, copy |-> row]
  <2>1. k \in Keys /\ creating[c].at \in 0..MaxTime /\ creating[c].at \in Nat
    BY <1>8, Held DEF Insert, Inserting, SoundRows
  <2>2. Sound(row)
    <3>1. /\ row \in Row /\ row.attempts = 0 /\ row.created = creating[c].at
          /\ row.expires = creating[c].at + TTL
      BY <2>1, Numbers DEF Row
    <3> HIDE DEF row
    <3> QED
      BY <2>1, <3>1, Numbers DEF Sound
  <2>3. r.pc = "deliver" /\ r.copy = row
    OBVIOUS
  <2> HIDE DEF row, r
  <2>4. \/ creating' = [creating EXCEPT ![c] = Idle] /\ challenges' = challenges
        \/ creating' = [creating EXCEPT ![c] = r] /\ challenges' = [challenges EXCEPT ![k] = row]
    BY <1>8 DEF Insert, row, r
  <2>5. CASE creating' = [creating EXCEPT ![c] = Idle] /\ challenges' = challenges
    BY <1>2, <1>3, <1>5, <1>6, <2>5
  <2>6. CASE creating' = [creating EXCEPT ![c] = r] /\ challenges' = [challenges EXCEPT ![k] = row]
    <3>1. \A j \in Created' : Sound(challenges'[j])
      BY <1>4, <2>1, <2>2, <2>6
    <3>2. \A b \in Creators :
            /\ creating'[b].pc = "insert" => creating'[b].at \in 0..MaxTime
            /\ creating'[b].pc \in {"deliver", "giveUp"} => Sound(creating'[b].copy)
      BY <1>3, <2>2, <2>3, <2>6
    <3> QED
      BY <1>2, <3>1, <3>2
  <2> QED
    BY <2>4, <2>5, <2>6
<1>9. CASE Deliver(c)
  BY <1>2, <1>3, <1>5, <1>6, <1>9 DEF Deliver
<1>10. CASE DeliveryFails(c)
  <2> DEFINE r == [creating[c] EXCEPT !.pc = "giveUp"]
  <2>1. creating[c] \in Mailing /\ Sound(creating[c].copy)
    BY <1>10, Held DEF DeliveryFails, SoundRows
  <2>2. r.pc = "giveUp" /\ r.copy = creating[c].copy
    BY <2>1 DEF Mailing
  <2>3. creating' = [creating EXCEPT ![c] = r] /\ challenges' = challenges
    BY <1>10 DEF DeliveryFails
  <2> HIDE DEF r
  <2> QED
    BY <1>2, <1>3, <1>5, <2>1, <2>2, <2>3
<1>11. CASE GiveUp(c)
  <2>1. creating[c] \in Mailing /\ Sound(creating[c].copy) /\ creating[c].key \in Keys
    BY <1>11, Held DEF GiveUp, SoundRows, Mailing
  <2>2. Sound([creating[c].copy EXCEPT !.status = "expired"])
    BY <2>1, SoundEnds
  <2>3. \A j \in Created' : Sound(challenges'[j])
    BY <1>4, <1>5, <1>11, <2>1, <2>2 DEF GiveUp
  <2>4. creating' = [creating EXCEPT ![c] = Idle]
    BY <1>11 DEF GiveUp
  <2> QED
    BY <1>2, <1>3, <1>6, <2>3, <2>4
<1> QED
  BY <1>2, <1>7, <1>8, <1>9, <1>10, <1>11 DEF SoundRows

LEMMA SoundVerifying ==
  ASSUME Shapes, Copies, SoundRows, NEW v \in Verifiers,
         \/ \E k \in Keys, a \in Attempt : Read(v, k, a)
         \/ SaveExpired(v) \/ SaveFailed(v) \/ Consume(v)
         \/ Register(v) \/ RegisterFails(v)
  PROVE  SoundRows'
<1>1. creating' = creating
  BY DEF Read, SaveExpired, SaveFailed, Consume, Register, RegisterFails
<1>2. SUFFICES /\ \A k \in Created' : Sound(challenges'[k])
               /\ \A w \in Verifiers : verifying'[w] # Idle =>
                    Sound(verifying'[w].copy) /\ verifying'[w].copy.status = "pending"
  BY <1>1 DEF SoundRows
<1>3. ASSUME NEW r, verifying' = [verifying EXCEPT ![v] = r],
             r # Idle => Sound(r.copy) /\ r.copy.status = "pending"
      PROVE  \A w \in Verifiers : verifying'[w] # Idle =>
               Sound(verifying'[w].copy) /\ verifying'[w].copy.status = "pending"
  <2>1. \A w \in Verifiers : verifying'[w] = IF w = v THEN r ELSE verifying[w]
    BY <1>3 DEF Shapes
  <2> QED
    BY <1>3, <2>1 DEF SoundRows
<1>4. ASSUME NEW k \in Keys, NEW row, Sound(row), challenges' = [challenges EXCEPT ![k] = row]
      PROVE  \A j \in Created' : Sound(challenges'[j])
  <2>1. \A j \in Keys : challenges'[j] = IF j = k THEN row ELSE challenges[j]
    BY <1>4 DEF Shapes
  <2> QED
    BY <1>4, <2>1 DEF SoundRows, Created
<1>5. ASSUME challenges' = challenges PROVE \A j \in Created' : Sound(challenges'[j])
  BY <1>5 DEF SoundRows, Created
<1>6. ASSUME NEW k \in Keys, NEW a \in Attempt, Read(v, k, a) PROVE SoundRows'
  <2> DEFINE r == [pc |-> Verdict(challenges[k], a), key |-> k, attempt |-> a, copy |-> challenges[k]]
  <2>1. r.copy = challenges[k]
    OBVIOUS
  <2>2. verifying' = [verifying EXCEPT ![v] = r] /\ challenges' = challenges
    BY <1>6 DEF Read
  <2>3. Sound(challenges[k]) /\ challenges[k].status = "pending"
    BY <1>6 DEF Read, SoundRows
  <2> HIDE DEF r
  <2> QED
    BY <1>1, <1>3, <1>5, <2>1, <2>2, <2>3 DEF SoundRows
<1>7. CASE SaveExpired(v) \/ SaveFailed(v)
  <2>1. verifying[v] \in Trying /\ verifying[v] # Idle /\ verifying[v].key \in Keys
    BY <1>7, Held DEF SaveExpired, SaveFailed, Idle, Trying
  <2>2. Sound(verifying[v].copy) /\ verifying[v].copy.status = "pending"
    BY <2>1 DEF SoundRows
  <2>3. PICK row : /\ challenges' = [challenges EXCEPT ![verifying[v].key] = row]
                   /\ \/ row = [verifying[v].copy EXCEPT !.status = "expired"]
                      \/ row = Failed(verifying[v].copy)
    BY <1>7 DEF SaveExpired, SaveFailed, SavesCopy
  <2>4. Sound(row)
    BY <2>2, <2>3, SoundEnds
  <2>5. verifying' = [verifying EXCEPT ![v] = Idle]
    BY <1>7 DEF SaveExpired, SaveFailed, SavesCopy
  <2> QED
    BY <1>2, <1>3, <1>4, <2>1, <2>3, <2>4, <2>5
<1>8. CASE Consume(v)
  <2> DEFINE k == verifying[v].key
             row == [challenges[k] EXCEPT !.status = "consumed"]
             r == [verifying[v] EXCEPT !.pc = "register"]
  <2>1. verifying[v] \in Trying /\ verifying[v] # Idle /\ k \in Keys
    BY <1>8, Held DEF Consume, Idle, Trying
  <2>2. k \in Created
    BY <2>1 DEF Copies
  <2>3. Sound(row)
    <3>1. Sound(challenges[k])
      BY <2>2 DEF SoundRows
    <3> QED
      BY <3>1, SoundEnds
  <2>4. r.copy = verifying[v].copy
    BY <2>1 DEF Trying
  <2>5. Sound(verifying[v].copy) /\ verifying[v].copy.status = "pending"
    BY <2>1 DEF SoundRows
  <2> HIDE DEF row, r
  <2>6. \/ challenges' = [challenges EXCEPT ![k] = row] /\ verifying' = [verifying EXCEPT ![v] = r]
        \/ challenges' = challenges /\ verifying' = [verifying EXCEPT ![v] = Idle]
    BY <1>8 DEF Consume, row, r
  <2>7. CASE challenges' = [challenges EXCEPT ![k] = row] /\ verifying' = [verifying EXCEPT ![v] = r]
    <3>1. \A j \in Created' : Sound(challenges'[j])
      BY <1>4, <2>1, <2>3, <2>7
    <3> QED
      BY <1>2, <1>3, <2>4, <2>5, <2>7, <3>1
  <2>8. CASE challenges' = challenges /\ verifying' = [verifying EXCEPT ![v] = Idle]
    BY <1>2, <1>3, <1>5, <2>8
  <2> QED
    BY <2>6, <2>7, <2>8
<1>9. CASE Register(v) \/ RegisterFails(v)
  <2>1. verifying' = [verifying EXCEPT ![v] = Idle] /\ challenges' = challenges
    BY <1>9 DEF Register, RegisterFails
  <2> QED
    BY <1>2, <1>3, <1>5, <2>1
<1> QED
  BY <1>2, <1>6, <1>7, <1>8, <1>9 DEF SoundRows

LEMMA SoundStep ==
  ASSUME Shapes, Copies, SoundRows, now \in 0..MaxTime, [Next]_vars
  PROVE  SoundRows'
<1>1. ASSUME NEW e \in Emails, NEW d \in Devices, RegisterDirectly(e, d) \/ RevokeDevice(e, d)
      PROVE  SoundRows'
  BY <1>1, SoundFrame DEF RegisterDirectly, RevokeDevice
<1>2. CASE Tick \/ UNCHANGED vars
  BY <1>2, SoundFrame DEF Tick, vars
<1> QED
  BY <1>1, <1>2, SoundCreating, SoundVerifying DEF Next

\* Only what was inserted is mailed; a trial starts at the time of its session.
LEMMA NumberedStep ==
  ASSUME Shapes, Copies, Numbered, [Next]_vars
  PROVE  Numbered'
<1>1. \A k \in Created : k \in Created'
  BY RowsStay, Inserts DEF Same
<1>2. MaxTime \in Nat /\ MaxFaults \in Nat
  BY AccessAssumption
<1>3. now' = now \/ Tick
  BY DEF Next, vars, Count, Insert, Deliver, DeliveryFails, GiveUp, Read,
         SaveExpired, SaveFailed, Consume, Register, RegisterFails, RegisterDirectly, RevokeDevice
<1>4. faults' = faults \/ Fault
  BY DEF Next, vars, Tick, Count, Insert, Deliver, DeliveryFails, GiveUp, Read,
         SaveExpired, SaveFailed, Consume, Register, RegisterFails, RegisterDirectly, RevokeDevice
<1>5. mailed' \subseteq Created'
  <2>1. ASSUME NEW c \in Creators, Deliver(c) \/ DeliveryFails(c) PROVE mailed' \subseteq Created
    BY <2>1 DEF Deliver, DeliveryFails, Copies, Numbered
  <2>2. mailed' = mailed \/ \E c \in Creators : Deliver(c) \/ DeliveryFails(c)
    BY DEF Next, vars, Tick, Count, Insert, GiveUp, Read,
           SaveExpired, SaveFailed, Consume, Register, RegisterFails, RegisterDirectly, RevokeDevice
  <2> QED
    BY <1>1, <2>1, <2>2 DEF Numbered
<1>6. \A t \in trials' : t.starts \in 0..MaxTime
  <2>1. ASSUME NEW e, NEW d, Bind(e, d) PROVE \A t \in trials' : t.starts \in 0..MaxTime
    BY <2>1 DEF Bind, WithTrial, Numbered
  <2>2. trials' = trials \/ \E e, d : Bind(e, d)
    BY DEF Next, vars, Tick, Count, Insert, Deliver, DeliveryFails, GiveUp, Read,
           SaveExpired, SaveFailed, Consume, Register, RegisterFails, RegisterDirectly, RevokeDevice
  <2> QED
    BY <2>1, <2>2 DEF Numbered
<1>7. now' \in 0..MaxTime /\ faults' \in 0..MaxFaults
  BY <1>2, <1>3, <1>4 DEF Numbered, Tick, Fault
<1> QED
  BY <1>5, <1>6, <1>7 DEF Numbered

\* Every variable has its type: a row never counts more wrong attempts than are
\* allowed, although requests save rows that they read earlier, nothing is mailed
\* that was not inserted, and the times in rows are times that were.
THEOREM AccessTypes == Spec => []TypeOK
<1> DEFINE Inv == Shapes /\ Rights /\ Copies /\ SoundRows /\ Numbered
<1>1. Init => Inv
  <2> SUFFICES ASSUME Init PROVE Copies /\ SoundRows /\ Numbered
    BY InitShapes
  <2>1. Created = {}
    BY DEF Init, Created
  <2> QED
    BY <2>1, AccessAssumption DEF Init, Copies, SoundRows, Numbered, Idle
<1>2. Inv /\ [Next]_vars => Inv'
  <2>1. Numbered => now \in 0..MaxTime
    BY DEF Numbered
  <2> QED
    BY <2>1, StepKeeps, CopiesStay, SoundStep, NumberedStep
<1>3. Inv => TypeOK
  <2> SUFFICES ASSUME Inv PROVE TypeOK
    OBVIOUS
  <2>1. ASSUME NEW k \in Created
        PROVE  /\ challenges[k].status \in {"pending", "expired", "consumed"}
               /\ challenges[k].attempts \in 0..MaxAttempts
               /\ challenges[k].created \in 0..MaxTime
               /\ challenges[k].expires = challenges[k].created + TTL
    <3>1. Sound(challenges[k])
      BY DEF SoundRows
    <3>2. challenges[k].attempts \in Nat /\ challenges[k].status \in {"pending", "expired", "consumed"}
      BY <3>1 DEF Sound, Row
    <3> QED
      BY <3>1, <3>2, Numbers DEF Sound
  <2>2. /\ \A c \in Creators : creating[c].pc \in {"idle", "insert", "deliver", "giveUp"}
        /\ \A v \in Verifiers : verifying[v].pc \in {"idle", "expire", "fail", "consume", "register"}
    BY DEF Shapes, Idle, Inserting, Mailing, Trying
  <2> QED
    BY <2>1, <2>2 DEF TypeOK, Shapes, Rights, Numbered
<1> QED
  BY <1>1, <1>2, <1>3, PTL DEF Spec

-----------------------------------------------------------------------------
(* Rows of grants that the views agree on.                                 *)

GrantKeys ==
  {<<"trial">>} \cup {<<"order", i>> : i \in Nat} \cup {<<"renewal of", i>> : i \in Nat}
  \cup {<<"new", i>> : i \in Nat} \cup {<<"admin", e>> : e \in Goods}

Grants ==
  [entitlement : Goods, source : {"trial", "fulfillment", "grace", "manual"},
   status : {"active", "revoked"}, starts : Nat, expires : Nat \cup {Never},
   revoked : Nat \cup {Never}, key : GrantKeys]

\* What was taken back is not active; trials and graces end.
SoundGrants(G) ==
  /\ G \subseteq Grants
  /\ \A g \in G : /\ g.status = "active" => g.revoked = Never
                  /\ g.source \in {"trial", "grace"} => g.expires # Never

\* The goods of one purchase, trial or grace are given and taken back together.
Twin(g, h) ==
  /\ h.source = g.source /\ h.status = g.status /\ h.revoked = g.revoked
  /\ h.starts = g.starts /\ h.expires = g.expires /\ h.key = g.key

Paired(G) ==
  \A g \in G : g.source # "manual" => \A e \in Goods : \E h \in G : h.entitlement = e /\ Twin(g, h)

\* A trial that has begun has been given.
Given(G, trial0) ==
  \E g \in G : /\ g.source = "trial" /\ g.status = "active"
               /\ g.starts = trial0 /\ g.expires = trial0 + TrialLength

\* Of the cancellations at most the one last written is running.
OneLive(rs, t) ==
  \A i \in DOMAIN rs : rs[i].active /\ rs[i].periodEnd > t => i = Len(rs)

LEMMA TwinActive ==
  ASSUME NEW g, NEW h, Twin(g, h), NEW t
  PROVE  ActiveAt(g, t) <=> ActiveAt(h, t)
  BY DEF Twin, ActiveAt

-----------------------------------------------------------------------------
(* The plan of the cloud storage.                                          *)

HeldGrants(G, t) == {g \in ActiveGrants(G, t) : g.entitlement = "cloud_storage"}

Kind(g) == IF g.source = "fulfillment" /\ g.expires = Never THEN "lifetime"
           ELSE IF g.source \in {"fulfillment", "grace"} THEN "monthly"
           ELSE IF g.source = "trial" THEN "trial"
           ELSE "custom"

Kinds(G, t) == {Kind(g) : g \in HeldGrants(G, t)}

LEMMA CloudPlanIs ==
  ASSUME NEW G, NEW t
  PROVE  /\ Kinds(G, t) = {} => CloudPlan(G, t) = "none"
         /\ "lifetime" \in Kinds(G, t) => CloudPlan(G, t) = "lifetime"
         /\ "monthly" \in Kinds(G, t) /\ "lifetime" \notin Kinds(G, t) => CloudPlan(G, t) = "monthly"
         /\ "trial" \in Kinds(G, t) /\ Kinds(G, t) \subseteq {"trial", "custom"} => CloudPlan(G, t) = "trial"
<1> DEFINE K == Kinds(G, t)
           Best(k) == \/ k = "lifetime"
                      \/ k = "monthly" /\ "lifetime" \notin K
                      \/ k = "trial" /\ K \subseteq {"trial", "custom"}
                      \/ k = "custom" /\ K = {"custom"}
<1>1. CloudPlan(G, t) = IF K = {} THEN "none" ELSE CHOOSE k \in K : Best(k)
  BY DEF CloudPlan, Kinds, Kind, HeldGrants
<1> HIDE DEF K
<1>2. ASSUME "lifetime" \in K PROVE (CHOOSE k \in K : Best(k)) = "lifetime"
  <2>1. Best("lifetime") /\ \A k \in K : Best(k) => k = "lifetime"
    BY <1>2
  <2> HIDE DEF Best
  <2> QED
    BY <1>2, <2>1
<1>3. ASSUME "monthly" \in K, "lifetime" \notin K PROVE (CHOOSE k \in K : Best(k)) = "monthly"
  <2>1. Best("monthly") /\ \A k \in K : Best(k) => k = "monthly"
    BY <1>3
  <2> HIDE DEF Best
  <2> QED
    BY <1>3, <2>1
<1>4. ASSUME "trial" \in K, K \subseteq {"trial", "custom"} PROVE (CHOOSE k \in K : Best(k)) = "trial"
  <2>1. Best("trial") /\ \A k \in K : Best(k) => k = "trial"
    BY <1>4
  <2> HIDE DEF Best
  <2> QED
    BY <1>4, <2>1
<1>5. CASE K = {}
  BY <1>1, <1>5 DEF K
<1>6. CASE K # {}
  <2>1. CloudPlan(G, t) = CHOOSE k \in K : Best(k)
    BY <1>1, <1>6
  <2> HIDE DEF Best
  <2> QED
    BY <1>2, <1>3, <1>4, <1>6, <2>1 DEF K
<1> QED
  BY <1>5, <1>6

LEMMA KindsKnown ==
  ASSUME NEW G, NEW t
  PROVE  /\ Kinds(G, t) \subseteq {"lifetime", "monthly", "trial", "custom"}
         /\ \A g \in G : ActiveAt(g, t) /\ g.entitlement = "cloud_storage" => Kind(g) \in Kinds(G, t)
         /\ \A k \in Kinds(G, t) : \E g \in G : ActiveAt(g, t) /\ g.entitlement = "cloud_storage" /\ k = Kind(g)
  BY DEF Kinds, Kind, HeldGrants, ActiveGrants

\* A grant that runs, unless an administrator made it, has one of the cloud storage beside it.
LEMMA Beside ==
  ASSUME NEW G, SoundGrants(G), Paired(G), NEW t \in Nat, NEW g \in G,
         ActiveAt(g, t), g.source # "manual"
  PROVE  /\ Kind(g) \in Kinds(G, t)
         /\ "cloud_storage" \in EntitledTo(G, t)
<1>1. PICK h \in G : h.entitlement = "cloud_storage" /\ Twin(g, h)
  BY DEF Paired, Goods
<1>2. ActiveAt(h, t)
  BY <1>1, TwinActive
<1>3. Kind(h) = Kind(g)
  BY <1>1 DEF Kind, Twin
<1>4. Kind(h) \in Kinds(G, t)
  BY <1>1, <1>2, KindsKnown
<1> QED
  BY <1>1, <1>2, <1>3, <1>4 DEF EntitledTo, ActiveGrants, Software, CurrentEntitlements

LEMMA SoftwareAll ==
  ASSUME NEW G, SoundGrants(G), NEW g \in G
  PROVE  Software(g) /\ g.entitlement \in CurrentEntitlements
  BY DEF SoundGrants, Grants, Goods, Software, CurrentEntitlements

\* The grants bought that run are those the projection goes by.
LEMMA BoughtIs ==
  ASSUME NEW G, SoundGrants(G), NEW t
  PROVE  /\ Bought(G, t) = {g \in G : g.source = "fulfillment" /\ ActiveAt(g, t)}
         /\ EntitledTo(G, t) = {g.entitlement : g \in {x \in G : ActiveAt(x, t)}}
  BY SoftwareAll DEF Bought, EntitledTo, ActiveGrants

LEMMA FromIs ==
  ASSUME NEW G, SoundGrants(G), NEW t, NEW s
  PROVE  From(G, s, t) = {g \in G : g.source = s /\ ActiveAt(g, t)}
  BY SoftwareAll DEF From, ActiveGrants

LEMMA Entitling ==
  ASSUME NEW G, SoundGrants(G), NEW t, NEW g \in G, ActiveAt(g, t)
  PROVE  g.entitlement \in EntitledTo(G, t)
  BY SoftwareAll DEF EntitledTo, ActiveGrants

\* What a plan is, by the grants.
LEMMA PlanIs ==
  ASSUME NEW G, SoundGrants(G), NEW rs, NEW t
  PROVE  LET B == {g \in G : g.source = "fulfillment" /\ ActiveAt(g, t)}
             plan == Projection(G, rs, t)
         IN  /\ plan.sku \in {"lifetime", "monthly", "none"}
             /\ plan.sku = "lifetime" <=> \E g \in B : g.expires = Never
             /\ plan.sku = "none" <=> B = {}
             /\ plan.status = "cancel_at_period_end" => plan.sku = "monthly"
             /\ plan.sku = "monthly" =>
                  plan.status = IF FindActive(rs, t) = {} THEN "active" ELSE "cancel_at_period_end"
<1>1. PICK B : B = {g \in G : g.source = "fulfillment" /\ ActiveAt(g, t)}
  OBVIOUS
<1>2. Bought(G, t) = B
  BY <1>1, BoughtIs
<1>3. CASE LifetimeGrants(G, t) # {}
  <2>1. Projection(G, rs, t) = Subscription("lifetime", "active", Never)
    BY <1>3 DEF Projection
  <2> QED
    BY <1>1, <1>2, <1>3, <2>1 DEF LifetimeGrants, Subscription
<1>4. CASE LifetimeGrants(G, t) = {} /\ MonthlyGrants(G, t) = {}
  <2>1. Projection(G, rs, t) = Subscription("none", "none", Never)
    BY <1>4 DEF Projection
  <2> QED
    BY <1>1, <1>2, <1>4, <2>1 DEF LifetimeGrants, MonthlyGrants, Subscription
<1>5. CASE LifetimeGrants(G, t) = {} /\ MonthlyGrants(G, t) # {}
  <2>1. PICK end : Projection(G, rs, t) =
                     Subscription("monthly",
                       IF FindActive(rs, t) = {} THEN "active" ELSE "cancel_at_period_end", end)
    BY <1>5 DEF Projection
  <2> QED
    BY <1>1, <1>2, <1>5, <2>1 DEF LifetimeGrants, MonthlyGrants, Subscription
<1> QED
  BY <1>3, <1>4, <1>5

\* The state of a licence, by the grants that run.
LEMMA LicenseIs ==
  ASSUME NEW G, SoundGrants(G), Paired(G), NEW t \in Nat, NEW tr \in Nat \cup {Never},
         tr # Never => tr <= t /\ Given(G, tr)
  PROVE  LET B == {g \in G : g.source = "fulfillment" /\ ActiveAt(g, t)}
             state == License(G, tr, t).state
         IN  /\ (\E g \in B : g.expires = Never) => state = "lifetime"
             /\ B # {} => state \in {"lifetime", "subscription"}
             /\ state = "subscription" => B # {} /\ \A g \in B : g.expires # Never
             /\ state = "grace" => /\ B = {}
                                   /\ \E g \in G : ActiveAt(g, t) /\ g.source = "grace"
             /\ state = "trial" => /\ B = {}
                                   /\ ~\E g \in G : ActiveAt(g, t) /\ g.source = "grace"
                                   /\ \E g \in G : ActiveAt(g, t) /\ g.source = "trial"
             /\ state = "basic" => tr = Never \/ tr + TrialLength <= t
<1>1. PICK B : B = {g \in G : g.source = "fulfillment" /\ ActiveAt(g, t)}
  OBVIOUS
<1>2. PICK R : R = {g \in G : g.source = "grace" /\ ActiveAt(g, t)}
  OBVIOUS
<1>3. PICK T : T = {g \in G : g.source = "trial" /\ ActiveAt(g, t)}
  OBVIOUS
<1>4. PICK M : M = {g \in G : g.source = "manual" /\ ActiveAt(g, t)}
  OBVIOUS
<1>5. /\ From(G, "fulfillment", t) = B /\ From(G, "grace", t) = R
      /\ From(G, "trial", t) = T /\ From(G, "manual", t) = M
  <2>1. From(G, "fulfillment", t) = B
    BY <1>1, FromIs
  <2>2. From(G, "grace", t) = R
    BY <1>2, FromIs
  <2>3. From(G, "trial", t) = T
    BY <1>3, FromIs
  <2>4. From(G, "manual", t) = M
    BY <1>4, FromIs
  <2> QED
    BY <2>1, <2>2, <2>3, <2>4
<1>6. Ending(R) = R /\ Ending(T) = T
  BY <1>2, <1>3 DEF Ending, SoundGrants
<1>7. License(G, tr, t) =
        IF \E g \in B \cup M : g.expires = Never THEN LicenseOf("lifetime", Never)
        ELSE IF B # {} THEN LicenseOf("subscription", Latest(B))
        ELSE IF R # {} THEN LicenseOf("grace", Latest(R))
        ELSE IF EntitledTo(G, t) # {} /\ TrialRuns(tr, t) THEN LicenseOf("trial", tr + TrialLength)
        ELSE IF T # {} THEN LicenseOf("trial", Latest(T))
        ELSE LicenseOf("basic", Never)
  BY <1>5, <1>6 DEF License
<1>8. TrialRuns(tr, t) => T # {} /\ EntitledTo(G, t) # {}
  <2> SUFFICES ASSUME TrialRuns(tr, t) PROVE T # {} /\ EntitledTo(G, t) # {}
    OBVIOUS
  <2>1. PICK g \in G : g.source = "trial" /\ g.status = "active" /\ g.starts = tr /\ g.expires = tr + TrialLength
    BY DEF TrialRuns, Given
  <2>2. ActiveAt(g, t)
    <3>1. tr <= t /\ t < tr + TrialLength
      BY DEF TrialRuns
    <3>2. tr \in Nat /\ TrialLength \in Nat
      BY TrialAssumption DEF TrialRuns
    <3>3. g.starts <= t /\ g.expires > t
      BY <2>1, <3>1, <3>2
    <3> QED
      BY <2>1, <3>3 DEF ActiveAt
  <2>3. T # {}
    BY <1>3, <2>1, <2>2
  <2> QED
    BY <2>2, <2>3, Entitling
<1>9. tr # Never /\ tr + TrialLength > t => TrialRuns(tr, t)
  BY TrialAssumption DEF TrialRuns
<1>10. tr = Never \/ tr + TrialLength <= t \/ TrialRuns(tr, t)
  BY <1>9, TrialAssumption
<1> HIDE DEF LicenseOf
<1>11. CASE \E g \in B \cup M : g.expires = Never
  <2>1. License(G, tr, t).state = "lifetime"
    BY <1>7, <1>11 DEF LicenseOf
  <2> QED
    BY <1>1, <2>1
<1>12. CASE ~(\E g \in B \cup M : g.expires = Never) /\ B # {}
  <2>1. License(G, tr, t).state = "subscription"
    BY <1>7, <1>12 DEF LicenseOf
  <2> QED
    BY <1>1, <1>12, <2>1
<1>13. CASE ~(\E g \in B \cup M : g.expires = Never) /\ B = {} /\ R # {}
  <2>1. License(G, tr, t).state = "grace"
    BY <1>7, <1>13 DEF LicenseOf
  <2> QED
    BY <1>1, <1>2, <1>13, <2>1
<1>14. CASE ~(\E g \in B \cup M : g.expires = Never) /\ B = {} /\ R = {} /\ T # {}
  <2>1. License(G, tr, t).state = "trial"
    BY <1>7, <1>14 DEF LicenseOf
  <2> QED
    BY <1>1, <1>2, <1>3, <1>14, <2>1
<1>15. CASE ~(\E g \in B \cup M : g.expires = Never) /\ B = {} /\ R = {} /\ T = {}
  <2>1. License(G, tr, t).state = "basic"
    BY <1>7, <1>8, <1>15 DEF LicenseOf
  <2> QED
    BY <1>1, <1>8, <1>10, <1>15, <2>1
<1> QED
  BY <1>11, <1>12, <1>13, <1>14, <1>15

\* The plan of the cloud storage, by the grants that run.
LEMMA CloudIs ==
  ASSUME NEW G, SoundGrants(G), Paired(G), NEW t \in Nat
  PROVE  LET B == {g \in G : g.source = "fulfillment" /\ ActiveAt(g, t)}
             R == {g \in G : g.source = "grace" /\ ActiveAt(g, t)}
             T == {g \in G : g.source = "trial" /\ ActiveAt(g, t)}
         IN  /\ (\E g \in B : g.expires = Never) => CloudFeature(G, t) = "lifetime"
             /\ B \cup R # {} /\ (\A g \in B : g.expires # Never) => CloudFeature(G, t) = "monthly"
             /\ B \cup R = {} /\ T # {} => CloudFeature(G, t) = "trial"
<1>1. PICK B : B = {g \in G : g.source = "fulfillment" /\ ActiveAt(g, t)}
  OBVIOUS
<1>2. PICK R : R = {g \in G : g.source = "grace" /\ ActiveAt(g, t)}
  OBVIOUS
<1>3. PICK T : T = {g \in G : g.source = "trial" /\ ActiveAt(g, t)}
  OBVIOUS
<1>4. \A g \in B \cup R \cup T : Kind(g) \in Kinds(G, t) /\ "cloud_storage" \in EntitledTo(G, t)
  <2> TAKE g \in B \cup R \cup T
  <2>1. g \in G /\ ActiveAt(g, t) /\ g.source # "manual"
    BY <1>1, <1>2, <1>3
  <2> QED
    BY <2>1, Beside
<1>5. \A k \in Kinds(G, t) : /\ k = "lifetime" => \E g \in B : g.expires = Never
                             /\ k = "monthly" => B \cup R # {}
                             /\ k = "trial" => T # {}
                             /\ k \in {"lifetime", "monthly", "trial", "custom"}
  <2> TAKE k \in Kinds(G, t)
  <2>1. PICK g \in G : ActiveAt(g, t) /\ k = Kind(g)
    BY KindsKnown
  <2> QED
    BY <2>1, <1>1, <1>2, <1>3 DEF Kind
<1>6. ASSUME NEW g \in B, g.expires = Never PROVE CloudFeature(G, t) = "lifetime"
  <2>1. Kind(g) = "lifetime"
    BY <1>1, <1>6 DEF Kind
  <2> QED
    BY <1>4, <1>6, <2>1, CloudPlanIs DEF CloudFeature
<1>7. ASSUME NEW g \in B \cup R, \A h \in B : h.expires # Never PROVE CloudFeature(G, t) = "monthly"
  <2>1. Kind(g) = "monthly"
    BY <1>1, <1>2, <1>7 DEF Kind
  <2>2. "monthly" \in Kinds(G, t) /\ "lifetime" \notin Kinds(G, t) /\ "cloud_storage" \in EntitledTo(G, t)
    BY <1>4, <1>5, <1>7, <2>1
  <2> QED
    BY <2>2, CloudPlanIs DEF CloudFeature
<1>8. ASSUME B \cup R = {}, NEW g \in T PROVE CloudFeature(G, t) = "trial"
  <2>1. Kind(g) = "trial"
    BY <1>3, <1>8 DEF Kind
  <2>2. "trial" \in Kinds(G, t) /\ Kinds(G, t) \subseteq {"trial", "custom"} /\ "cloud_storage" \in EntitledTo(G, t)
    BY <1>4, <1>5, <1>8, <2>1
  <2> QED
    BY <2>2, CloudPlanIs DEF CloudFeature
<1> QED
  BY <1>1, <1>2, <1>3, <1>6, <1>7, <1>8

\* The pages of the administrators count the same grants.
LEMMA PagesAgree ==
  ASSUME NEW G, SoundGrants(G), NEW t
  PROVE  /\ AdminEntitlements(G, t) = EntitledTo(G, t)
         /\ EntitlementSnapshot(G, t) = EntitledTo(G, t)
<1>1. \A g \in G : AdminActive(g, t) <=> ActiveAt(g, t)
  BY DEF SoundGrants, AdminActive, ActiveAt
<1>2. EntitledTo(G, t) = {g.entitlement : g \in {x \in G : ActiveAt(x, t)}}
  BY BoughtIs
<1> QED
  BY <1>1, <1>2, SoftwareAll DEF AdminEntitlements, EntitlementSnapshot

\* Without the entitlement there is no plan.
LEMMA NoCloud ==
  ASSUME NEW G, SoundGrants(G), NEW t
  PROVE  CloudPlan(G, t) = CloudFeature(G, t)
<1>1. CASE "cloud_storage" \in EntitledTo(G, t)
  BY <1>1 DEF CloudFeature
<1>2. CASE "cloud_storage" \notin EntitledTo(G, t)
  <2>1. Kinds(G, t) = {}
    BY <1>2, BoughtIs, KindsKnown
  <2> QED
    BY <1>2, <2>1, CloudPlanIs DEF CloudFeature
<1> QED
  BY <1>1, <1>2

-----------------------------------------------------------------------------
(* The first property, of any rows of the right shape.                     *)

LEMMA ViewsAgree ==
  ASSUME SoundGrants(grants), Paired(grants), today \in Nat, trial \in Nat \cup {Never},
         trial # Never => trial <= today /\ Given(grants, trial)
  PROVE  OneStory
<1> DEFINE app == Snapshot(grants, rows, trial, today)
           admin == AdminSummary(grants, rows, trial, today)
           plan == Projection(grants, rows, today)
           state == License(grants, trial, today).state
           cloud == CloudFeature(grants, today)
<1>1. PICK B : B = {g \in grants : g.source = "fulfillment" /\ ActiveAt(g, today)}
  OBVIOUS
<1>2. PICK R : R = {g \in grants : g.source = "grace" /\ ActiveAt(g, today)}
  OBVIOUS
<1>3. PICK T : T = {g \in grants : g.source = "trial" /\ ActiveAt(g, today)}
  OBVIOUS
<1>4. /\ (\E g \in B : g.expires = Never) => state = "lifetime"
      /\ B # {} => state \in {"lifetime", "subscription"}
      /\ state = "subscription" => B # {} /\ \A g \in B : g.expires # Never
      /\ state = "grace" => B = {} /\ R # {}
      /\ state = "trial" => B = {} /\ R = {} /\ T # {}
      /\ state = "basic" => trial = Never \/ trial + TrialLength <= today
  <2> HIDE DEF state
  <2> QED
    BY LicenseIs, <1>1, <1>2, <1>3 DEF state
<1>5. /\ (\E g \in B : g.expires = Never) => cloud = "lifetime"
      /\ B \cup R # {} /\ (\A g \in B : g.expires # Never) => cloud = "monthly"
      /\ B \cup R = {} /\ T # {} => cloud = "trial"
  BY CloudIs, <1>1, <1>2, <1>3
<1>6. /\ plan.sku \in {"lifetime", "monthly", "none"}
      /\ plan.sku = "lifetime" <=> \E g \in B : g.expires = Never
      /\ plan.sku = "none" <=> B = {}
  BY PlanIs, <1>1
<1>7. /\ app.license.state = state /\ app.cloud = cloud
      /\ app.entitlements = EntitledTo(grants, today)
      /\ app.renewing = Renewing(grants, rows, trial, today)
      /\ admin.subscription = plan /\ admin.trial = AdminTrial(trial, today)
      /\ admin.entitlements = EntitledTo(grants, today)
      /\ admin.cloud = cloud
      /\ AdminAccount(grants, trial, today) = [entitlements |-> EntitledTo(grants, today), trial |-> AdminTrial(trial, today)]
      /\ EntitlementSnapshot(grants, today) = EntitledTo(grants, today)
  BY PagesAgree, NoCloud DEF Snapshot, AdminSummary, AdminAccount, AdminCloud
<1>8. state = "basic" => AdminTrial(trial, today) # "issued"
  BY <1>4 DEF AdminTrial
<1>9. state = "subscription" => Renewing(grants, rows, trial, today) = [status |-> plan.status, end |-> plan.end]
  <2>1. state = "subscription" => plan.sku = "monthly"
    BY <1>4, <1>6
  <2> QED
    BY <2>1 DEF Renewing
<1> HIDE DEF app, admin, plan, state, cloud
<1>10. /\ plan.sku = "lifetime" => state = "lifetime" /\ cloud = "lifetime"
       /\ plan.sku = "monthly" => state \in {"subscription", "lifetime"} /\ cloud = "monthly"
       /\ plan.sku = "none" => state # "subscription"
       /\ state = "grace" => cloud = "monthly"
       /\ state = "trial" => cloud = "trial"
  <2>1. plan.sku = "monthly" => B # {} /\ \A g \in B : g.expires # Never
    BY <1>6
  <2>2. plan.sku = "monthly" => state \in {"subscription", "lifetime"} /\ cloud = "monthly"
    BY <1>4, <1>5, <2>1
  <2>3. plan.sku = "lifetime" => state = "lifetime" /\ cloud = "lifetime"
    BY <1>4, <1>5, <1>6
  <2>4. plan.sku = "none" => state # "subscription"
    BY <1>4, <1>6
  <2>5. state = "grace" => cloud = "monthly"
    BY <1>4, <1>5
  <2>6. state = "trial" => cloud = "trial"
    BY <1>4, <1>5
  <2> QED
    BY <2>2, <2>3, <2>4, <2>5, <2>6
<1>11. OneStory <=>
        /\ plan.sku = "lifetime" => state = "lifetime" /\ cloud = "lifetime"
        /\ plan.sku = "monthly"  => state \in {"subscription", "lifetime"} /\ cloud = "monthly"
        /\ plan.sku = "none"     => state # "subscription"
        /\ state = "grace" => cloud = "monthly"
        /\ state = "trial" => cloud = "trial"
        /\ state = "basic" => admin.trial # "issued"
        /\ state = "subscription" => app.renewing = [status |-> plan.status, end |-> plan.end]
        /\ app.entitlements = admin.entitlements
        /\ AdminAccount(grants, trial, today) = [entitlements |-> app.entitlements, trial |-> admin.trial]
        /\ app.entitlements = EntitlementSnapshot(grants, today)
        /\ app.cloud = admin.cloud
  BY <1>7 DEF OneStory, app, admin
<1> QED
  BY <1>7, <1>8, <1>9, <1>10, <1>11

-----------------------------------------------------------------------------
(* The second.                                                             *)

Live(rs, t) == {i \in DOMAIN rs : rs[i].active /\ rs[i].periodEnd > t}

RowsKnown(rs) ==
  /\ Len(rs) \in Nat /\ DOMAIN rs = 1..Len(rs)
  /\ \A i \in DOMAIN rs : rs[i].active \in BOOLEAN /\ rs[i].periodEnd \in Nat

\* Of such rows the one found is the one last written, if it is running.
LEMMA LastIsFound ==
  ASSUME NEW rs, RowsKnown(rs), NEW t \in Nat, OneLive(rs, t)
  PROVE  /\ FindActive(rs, t) = Live(rs, t)
         /\ Live(rs, t) \subseteq {Len(rs)}
         /\ FindActive(LatestRow(rs), t) = {} <=> Live(rs, t) = {}
<1>1. Live(rs, t) \subseteq {Len(rs)}
  BY DEF Live, OneLive
<1>2. FindActive(rs, t) = Live(rs, t)
  BY <1>1 DEF FindActive, Live, RowsKnown
<1>3. CASE rs = <<>>
  BY <1>3 DEF LatestRow, FindActive, Live
<1>4. CASE rs # <<>>
  <2>1. Len(rs) \in DOMAIN rs
    BY <1>4 DEF RowsKnown
  <2>2. LatestRow(rs) = <<rs[Len(rs)]>>
    BY <1>4 DEF LatestRow
  <2>3. PICK last : last = rs[Len(rs)]
    OBVIOUS
  <2>4. last.periodEnd \in Nat
    BY <2>1, <2>3 DEF RowsKnown
  <2>5. FindActive(<<last>>, t) = {} <=> ~(last.active /\ last.periodEnd > t)
    BY <2>4 DEF FindActive
  <2>6. Live(rs, t) = {} <=> ~(last.active /\ last.periodEnd > t)
    BY <1>1, <2>1, <2>3 DEF Live
  <2> QED
    BY <1>1, <1>2, <2>2, <2>3, <2>5, <2>6
<1> QED
  BY <1>1, <1>2, <1>3, <1>4

LEMMA ButtonsWork ==
  ASSUME SoundGrants(grants), today \in Nat, RowsKnown(rows), OneLive(rows, today)
  PROVE  OfferedIsAccepted
<1> DEFINE plan == Projection(grants, rows, today)
           list == AdminList(grants, rows, orders, today)
           ended == FindActive(rows, today) # {}
           B == {g \in grants : g.source = "fulfillment" /\ ActiveAt(g, today)}
           S(sku) == GrantsFor(grants, sku)
           Line(sku) == AdminSubscription(grants, rows, orders, sku, today)
<1>1. ended <=> FindActive(LatestRow(rows), today) # {}
  BY LastIsFound
<1>2. /\ plan.sku \in {"lifetime", "monthly", "none"}
      /\ plan.sku = "lifetime" <=> \E g \in B : g.expires = Never
      /\ plan.sku = "none" <=> B = {}
      /\ plan.status = "cancel_at_period_end" => plan.sku = "monthly"
      /\ plan.sku = "monthly" => plan.status = IF ended THEN "cancel_at_period_end" ELSE "active"
  BY PlanIs
<1>3. \A g \in grants : Software(g)
  BY SoftwareAll
<1>4. \A sku : S(sku) \subseteq grants /\ SoundGrants(S(sku))
  <2>1. \A sku : S(sku) \subseteq grants
    BY DEF GrantsFor, SoldGrants
  <2> QED
    BY <2>1 DEF SoundGrants
<1>5. /\ \A g \in S("lifetime") : g.expires = Never
      /\ \A g \in S("monthly") : g.expires # Never
      /\ {g \in S("monthly") : g.source = "fulfillment" /\ ActiveAt(g, today)} = {g \in B : g.expires # Never}
  BY <1>3 DEF GrantsFor, SoldGrants, SKUOf
<1>6. \A sku : sku \in {"monthly", "lifetime"} => sku \in SKUs
  BY DEF SKUs
<1>7. B # {} => plan.sku \in Candidates(grants, rows, orders)
  <2>1. CASE \E g \in B : g.expires = Never
    <3>1. plan.sku = "lifetime"
      BY <1>2, <2>1
    <3> QED
      BY <1>3, <2>1, <3>1 DEF Candidates, FromGrants, SoldGrants, SKUOf
  <2>2. CASE B # {} /\ \A g \in B : g.expires # Never
    <3>1. plan.sku = "monthly"
      BY <1>2, <2>2
    <3> QED
      BY <1>3, <2>2, <3>1 DEF Candidates, FromGrants, SoldGrants, SKUOf
  <2> QED
    BY <2>1, <2>2
<1>8. \A sku \in DOMAIN list : list[sku] = Line(sku)
  BY DEF AdminList
<1>9. DOMAIN list = Candidates(grants, rows, orders)
  BY DEF AdminList
<1>10. \A sku \in DOMAIN list : sku # "monthly" => ~list[sku].canCancel /\ ~list[sku].canResume
  <2> TAKE sku \in DOMAIN list
  <2> SUFFICES ASSUME sku # "monthly" PROVE ~list[sku].canCancel /\ ~list[sku].canResume
    OBVIOUS
  <2>1. \A g \in S(sku) : g.expires = Never
    BY DEF GrantsFor, SKUOf
  <2>2. Projection(S(sku), <<>>, today).sku # "monthly"
    <3>1. PICK p : p = Projection(S(sku), <<>>, today)
      OBVIOUS
    <3>2. PICK C : C = {g \in S(sku) : g.source = "fulfillment" /\ ActiveAt(g, today)}
      OBVIOUS
    <3>3. /\ p.sku \in {"lifetime", "monthly", "none"}
          /\ p.sku = "lifetime" <=> \E g \in C : g.expires = Never
          /\ p.sku = "none" <=> C = {}
      BY PlanIs, <1>4, <3>1, <3>2
    <3> QED
      BY <2>1, <3>1, <3>2, <3>3
  <2>3. PICK p : p = Projection(S(sku), <<>>, today)
    OBVIOUS
  <2>4. Line(sku).canCancel = (p.sku = "monthly" /\ p.status = "active")
    BY <2>3 DEF AdminSubscription
  <2>5. Line(sku).canResume = (p.sku = "monthly" /\ p.status = "cancel_at_period_end")
    BY <2>3 DEF AdminSubscription
  <2>6. p.sku # "monthly" /\ list[sku] = Line(sku)
    BY <1>8, <2>2, <2>3
  <2> HIDE DEF list, Line
  <2> QED
    BY <2>4, <2>5, <2>6
<1>11. LET b == {g \in B : g.expires # Never} # {}
       IN  /\ Line("monthly").canCancel <=> b /\ ~ended
           /\ Line("monthly").canResume <=> b /\ ended
  <2>1. PICK p : p = Projection(S("monthly"), LatestRow(rows), today)
    OBVIOUS
  <2>2. PICK C : C = {g \in S("monthly") : g.source = "fulfillment" /\ ActiveAt(g, today)}
    OBVIOUS
  <2>3. /\ p.sku \in {"lifetime", "monthly", "none"}
        /\ p.sku = "lifetime" <=> \E g \in C : g.expires = Never
        /\ p.sku = "none" <=> C = {}
        /\ p.sku = "monthly" => p.status = IF FindActive(LatestRow(rows), today) = {} THEN "active" ELSE "cancel_at_period_end"
    BY PlanIs, <1>4, <2>1, <2>2
  <2>4. C = {g \in B : g.expires # Never} /\ \A g \in C : g.expires # Never
    BY <1>5, <2>2
  <2>5. p.sku = "monthly" <=> C # {}
    BY <2>3, <2>4
  <2>6. /\ Line("monthly").canCancel <=> p.sku = "monthly" /\ p.status = "active"
        /\ Line("monthly").canResume <=> p.sku = "monthly" /\ p.status = "cancel_at_period_end"
    BY <2>1 DEF AdminSubscription
  <2> HIDE DEF B, ended, Line, S
  <2>7. C # {} => p.status = IF ended THEN "cancel_at_period_end" ELSE "active"
    BY <2>3, <2>5, <1>1
  <2> QED
    BY <2>4, <2>5, <2>6, <2>7
<1>12. {g \in B : g.expires # Never} # {} => CancellableGrants(grants, today) # {}
  BY <1>3 DEF CancellableGrants, ActiveAt
<1>13. plan.sku # "none" => plan.sku \in DOMAIN list
  BY <1>2, <1>7, <1>9
<1>14. plan.sku = "monthly" => {g \in B : g.expires # Never} # {} /\ "monthly" \in DOMAIN list
  BY <1>2, <1>13
<1> HIDE DEF plan, list, ended, B, Line
<1>15. \A sku \in SKUs : /\ Advice(plan, sku) = "resume" => list["monthly"].canResume
                         /\ Advice(plan, sku) = "manage" => list["monthly"].canCancel
  <2>1. \A sku \in SKUs : Advice(plan, sku) = "resume" => plan.sku = "monthly" /\ ended
    BY <1>2 DEF Advice
  <2>2. \A sku \in SKUs : Advice(plan, sku) = "manage" => plan.sku = "monthly" /\ ~ended
    BY <1>2 DEF Advice
  <2> QED
    BY <1>8, <1>11, <1>14, <2>1, <2>2
<1>16. \A sku \in DOMAIN list :
         /\ list[sku].canCancel => CancellableGrants(grants, today) # {} /\ ~ended
         /\ list[sku].canResume => CancellableGrants(grants, today) # {} /\ ended
  BY <1>8, <1>10, <1>11, <1>12
<1> QED
  BY <1>13, <1>15, <1>16 DEF OfferedIsAccepted, plan, list, ended

-----------------------------------------------------------------------------
(* The rows there can be.                                                  *)

PaidOrders == [sku : SKUs, status : {"fulfilled", "refunded"}]

CancellationRows == [active : BOOLEAN, periodEnd : Nat]

\* There is a last moment that grants speak of.
Bounded(G) == \E b \in Nat : \A g \in G : g.expires = Never \/ g.expires <= b

\* Where a grant comes from is told by its key; n orders have been paid and c
\* grants made by the administrator.
Labelled(G, n, c) ==
  \A g \in G : /\ g.source = "trial" => g.key = <<"trial">>
               /\ g.source = "fulfillment" => \E i \in 1..n : g.key = <<"order", i>>
               /\ g.source = "grace" => \E i \in Nat : g.key = <<"renewal of", i>>
               /\ g.source = "manual" => \/ \E e \in Goods : g.key = <<"admin", e>>
                                         \/ \E i \in Nat : i < c /\ g.key = <<"new", i>>

Unique(G) == \A g, h \in G : g.key = h.key /\ g.entitlement = h.entitlement => g = h

ManualOf(G) == {g \in G : g.source = "manual"}

\* The inductive invariant: of the grants ...
GrantsFit ==
  /\ SoundGrants(grants)
  /\ Paired(grants)
  /\ Bounded(grants)
  /\ IsFiniteSet(grants)
  /\ Labelled(grants, Len(orders), Cardinality(ManualOf(grants)))
  /\ Unique(grants)

\* ... of the trial, of which a user has one ...
TrialFits ==
  /\ trial \in (0..LastDay) \cup {Never}
  /\ trial # Never => trial <= today /\ Given(grants, trial)
  /\ trial = Never => \A g \in grants : g.source # "trial"

\* ... of the requests that have been read ...
AskingFits ==
  /\ asking \subseteq [entitlement : ManualGoods, keyed : BOOLEAN]
  /\ \A ask \in asking : ask.keyed => \A g \in grants : g.key # <<"admin", ask.entitlement>>

\* ... and of the rest.
AccountFits ==
  /\ today \in 0..LastDay
  /\ orders \in Seq(PaidOrders)
  /\ rows \in Seq(CancellationRows)
  /\ OneLive(rows, today)
  /\ GrantsFit
  /\ TrialFits
  /\ AskingFits

LEMMA KeysDiffer ==
  \A i, j : /\ <<"trial">> # <<"order", i>> /\ <<"trial">> # <<"renewal of", i>>
            /\ <<"trial">> # <<"admin", i>> /\ <<"trial">> # <<"new", i>>
            /\ <<"order", i>> # <<"renewal of", j>> /\ <<"order", i>> # <<"admin", j>>
            /\ <<"order", i>> # <<"new", j>> /\ <<"renewal of", i>> # <<"admin", j>>
            /\ <<"renewal of", i>> # <<"new", j>> /\ <<"admin", i>> # <<"new", j>>
            /\ <<"order", i>> = <<"order", j>> => i = j
            /\ <<"renewal of", i>> = <<"renewal of", j>> => i = j
            /\ <<"admin", i>> = <<"admin", j>> => i = j
            /\ <<"new", i>> = <<"new", j>> => i = j
<1>1. \A i : /\ <<"trial">> # <<"order", i>> /\ <<"trial">> # <<"renewal of", i>>
             /\ <<"trial">> # <<"admin", i>> /\ <<"trial">> # <<"new", i>>
  OBVIOUS
<1>2. \A i, j : /\ <<"order", i>> # <<"renewal of", j>> /\ <<"order", i>> # <<"admin", j>>
                /\ <<"order", i>> # <<"new", j>> /\ <<"renewal of", i>> # <<"admin", j>>
                /\ <<"renewal of", i>> # <<"new", j>> /\ <<"admin", i>> # <<"new", j>>
  OBVIOUS
<1>3. \A i, j : /\ <<"order", i>> = <<"order", j>> => i = j
                /\ <<"renewal of", i>> = <<"renewal of", j>> => i = j
                /\ <<"admin", i>> = <<"admin", j>> => i = j
                /\ <<"new", i>> = <<"new", j>> => i = j
  OBVIOUS
<1> QED
  BY <1>1, <1>2, <1>3

\* A bounded set of natural numbers has a greatest element.
LEMMA GreatestIs ==
  ASSUME NEW S \in SUBSET Nat, S # {}, NEW b \in Nat, \A x \in S : x <= b
  PROVE  Greatest(S) \in S /\ Greatest(S) \in Nat /\ \A x \in S : x <= Greatest(S)
<1> DEFINE U == {u \in Nat : \A x \in S : x <= u}
<1>1. IsWellFoundedOn(OpToRel(<, Nat), Nat)
  BY NatLessThanWellFounded
<1>2. U \subseteq Nat /\ U # {}
  OBVIOUS
<1>3. PICK u \in U : \A v \in U : ~(<<v, u>> \in OpToRel(<, Nat))
  BY <1>1, <1>2, WFMin
<1>4. \A v \in U : ~(v < u)
  BY <1>2, <1>3 DEF OpToRel
<1>5. u \in S
  <2> SUFFICES ASSUME u \notin S PROVE FALSE
    OBVIOUS
  <2>1. \A x \in S : x < u
    OBVIOUS
  <2>2. u > 0
    <3>1. PICK x \in S : x \in Nat
      OBVIOUS
    <3> QED
      BY <2>1, <3>1
  <2>3. u - 1 \in U
    BY <2>1, <2>2
  <2> QED
    BY <1>4, <2>3
<1>6. \E y \in S : \A x \in S : x <= y
  BY <1>5
<1> QED
  BY <1>6 DEF Greatest

\* The last of grants that end.
LEMMA LatestIs ==
  ASSUME NEW G, SoundGrants(G), Bounded(G), NEW H \in SUBSET G, H # {}, \A g \in H : g.expires # Never
  PROVE  Latest(H) \in Nat
<1>1. PICK b \in Nat : \A g \in G : g.expires = Never \/ g.expires <= b
  BY DEF Bounded
<1>2. PICK S : S = {g.expires : g \in H}
  OBVIOUS
<1>3. S \in SUBSET Nat /\ S # {} /\ \A x \in S : x <= b
  BY <1>1, <1>2 DEF SoundGrants, Grants
<1>4. Greatest(S) \in Nat
  BY <1>3, GreatestIs
<1> QED
  BY <1>2, <1>4 DEF Latest

-----------------------------------------------------------------------------
(* Steps that give both goods.                                             *)

Pair(source, from, end, key) == {NewGrant(e, source, from, end, key) : e \in Goods}

\* One purchase, trial or grace more: a pair of grants under a key of its own.
LEMMA PairAdded ==
  ASSUME NEW G, SoundGrants(G), Paired(G), Bounded(G), IsFiniteSet(G), Unique(G),
         NEW source \in {"trial", "fulfillment", "grace"}, NEW from \in Nat,
         NEW end \in Nat \cup {Never}, source # "fulfillment" => end # Never,
         NEW key \in GrantKeys, \A g \in G : g.key # key,
         NEW H, H = G \cup Pair(source, from, end, key)
  PROVE  /\ SoundGrants(H) /\ Paired(H) /\ Bounded(H) /\ IsFiniteSet(H) /\ Unique(H)
         /\ ManualOf(H) = ManualOf(G)
<1>1. PICK s : s = NewGrant("editorial_studio", source, from, end, key)
  OBVIOUS
<1>2. PICK c : c = NewGrant("cloud_storage", source, from, end, key)
  OBVIOUS
<1>3. H = (G \cup {s}) \cup {c}
  BY <1>1, <1>2 DEF Goods, Pair
<1>4. \A g \in {s, c} : /\ g.source = source /\ g.status = "active" /\ g.starts = from
                        /\ g.expires = end /\ g.revoked = Never /\ g.key = key
  BY <1>1, <1>2 DEF NewGrant
<1>5. s.entitlement = "editorial_studio" /\ c.entitlement = "cloud_storage"
  BY <1>1, <1>2 DEF NewGrant
<1>6. s \in Grants /\ c \in Grants
  BY <1>1, <1>2 DEF NewGrant, Grants, Goods
<1>7. SoundGrants(H)
  BY <1>3, <1>4, <1>6 DEF SoundGrants
<1>8. Paired(H)
  <2>1. \A g \in {s, c} : \A e \in Goods : \E h \in {s, c} : h.entitlement = e /\ Twin(g, h)
    BY <1>4, <1>5 DEF Goods, Twin
  <2> QED
    BY <1>3, <2>1 DEF Paired
<1>9. Bounded(H)
  <2>1. PICK b \in Nat : \A g \in G : g.expires = Never \/ g.expires <= b
    BY DEF Bounded
  <2>2. PICK d \in Nat : b <= d /\ (end = Never \/ end <= d)
    <3>1. CASE end = Never
      BY <3>1
    <3>2. CASE end \in Nat
      BY <3>2
    <3> QED
      BY <3>1, <3>2
  <2>3. \A g \in G : g.expires = Never \/ g.expires <= d
    BY <2>1, <2>2 DEF SoundGrants, Grants
  <2> QED
    BY <1>3, <1>4, <2>2, <2>3 DEF Bounded
<1>10. IsFiniteSet(H)
  <2>1. IsFiniteSet(G \cup {s})
    BY FS_AddElement
  <2> QED
    BY <1>3, <2>1, FS_AddElement
<1>11. Unique(H)
  BY <1>3, <1>4, <1>5 DEF Unique
<1>12. ManualOf(H) = ManualOf(G)
  BY <1>3, <1>4 DEF ManualOf
<1> QED
  BY <1>7, <1>8, <1>9, <1>10, <1>11, <1>12

\* What a pair that was added leaves alone.
LEMMA PairKeeps ==
  ASSUME AccountFits, NEW source, NEW from, NEW end, NEW key,
         grants' = grants \cup Pair(source, from, end, key),
         \A e : key # <<"admin", e>>
  PROVE  /\ \A g \in grants' : g \in grants \/ (g.source = source /\ g.key = key)
         /\ \A tr : Given(grants, tr) => Given(grants', tr)
         /\ \A ask \in asking : ask.keyed => \A g \in grants' : g.key # <<"admin", ask.entitlement>>
<1>1. \A g \in grants' : g \in grants \/ (g.source = source /\ g.key = key)
  BY DEF NewGrant, Pair
<1> QED
  BY <1>1 DEF Given, AccountFits, AskingFits

LEMMA StartTrialKeeps == ASSUME AccountFits, StartTrial PROVE AccountFits'
<1> DEFINE key == <<"trial">>
<1>1. today \in Nat /\ today + TrialLength \in Nat /\ today + TrialLength # Never
  BY TrialAssumption, NeverAssumption, LengthsAssumption DEF AccountFits
<1>2. trial = Never /\ trial' = today /\ UNCHANGED <<today, orders, rows, asking>>
      /\ grants' = grants \cup Pair("trial", today, today + TrialLength, key)
  BY DEF StartTrial, Pair
<1>3. key \in GrantKeys
  BY DEF GrantKeys
<1>4. \A g \in grants : g.key # key
  <2> TAKE g \in grants
  <2>1. g.source # "trial" /\ g.source \in {"trial", "fulfillment", "grace", "manual"}
    BY <1>2 DEF AccountFits, TrialFits, GrantsFit, SoundGrants, Grants
  <2> QED
    BY <2>1, KeysDiffer DEF AccountFits, GrantsFit, Labelled
<1>5. /\ SoundGrants(grants') /\ Paired(grants') /\ Bounded(grants') /\ IsFiniteSet(grants') /\ Unique(grants')
      /\ ManualOf(grants') = ManualOf(grants)
  <2> HIDE DEF key
  <2>1. "trial" \in {"trial", "fulfillment", "grace"}
    OBVIOUS
  <2> QED
    BY <1>1, <1>2, <1>3, <1>4, <2>1, PairAdded DEF AccountFits, GrantsFit
<1>6. \A e : key # <<"admin", e>>
  BY KeysDiffer
<1>7. /\ \A g \in grants' : g \in grants \/ (g.source = "trial" /\ g.key = key)
      /\ \A ask \in asking : ask.keyed => \A g \in grants' : g.key # <<"admin", ask.entitlement>>
  <2> HIDE DEF key
  <2> QED
    BY <1>2, <1>6, PairKeeps
<1>8. Labelled(grants', Len(orders'), Cardinality(ManualOf(grants')))
  BY <1>2, <1>5, <1>7 DEF AccountFits, GrantsFit, Labelled
<1>9. Given(grants', trial')
  <2>1. PICK g : g = NewGrant("cloud_storage", "trial", today, today + TrialLength, key)
    OBVIOUS
  <2>2. g \in grants'
    BY <1>2, <2>1 DEF Goods, Pair
  <2> QED
    BY <1>2, <2>1, <2>2 DEF Given, NewGrant
<1>10. trial' # Never /\ trial' \in 0..LastDay /\ trial' <= today'
  BY <1>1, <1>2, NeverAssumption DEF AccountFits
<1>11. GrantsFit'
  BY <1>5, <1>8 DEF GrantsFit
<1>12. TrialFits'
  BY <1>2, <1>9, <1>10 DEF TrialFits
<1>13. AskingFits'
  BY <1>2, <1>7 DEF AccountFits, AskingFits
<1> QED
  BY <1>2, <1>11, <1>12, <1>13 DEF AccountFits

\* A paid month of either good is counted from the same moment.
LEMMA AnchorIs ==
  ASSUME AccountFits PROVE \A e, f \in Goods : Anchor(e) = Anchor(f) /\ Anchor(e) \in Nat
<1> DEFINE L(e) == {g \in grants : g.entitlement = e /\ g.status = "active"
                                   /\ (g.expires = Never \/ g.expires > today)}
           P(e) == {g \in L(e) : g.source = "fulfillment" /\ g.expires # Never}
           R(e) == {g \in L(e) : g.source = "grace" /\ g.starts < today}
           X(e) == {g.expires : g \in P(e)}
           Y(e) == {g.starts : g \in R(e)}
<1>1. \A e : Anchor(e) = IF P(e) # {} THEN Latest(P(e)) ELSE IF R(e) # {} THEN Greatest(Y(e)) ELSE today
  BY DEF Anchor
<1>2. SoundGrants(grants) /\ Paired(grants) /\ Bounded(grants) /\ today \in Nat
  BY LengthsAssumption DEF AccountFits, GrantsFit
<1>3. ASSUME NEW e \in Goods PROVE (P(e) # {} => Latest(P(e)) \in Nat) /\ (R(e) # {} => Greatest(Y(e)) \in Nat)
  <2>1. P(e) \in SUBSET grants /\ \A g \in P(e) : g.expires # Never
    OBVIOUS
  <2>2. P(e) # {} => Latest(P(e)) \in Nat
    <3> HIDE DEF P
    <3> QED
      BY <1>2, <2>1, LatestIs
  <2>3. Y(e) \in SUBSET Nat /\ \A y \in Y(e) : y <= today
    BY <1>2 DEF SoundGrants, Grants
  <2>4. R(e) # {} => Y(e) # {}
    OBVIOUS
  <2>5. R(e) # {} => Greatest(Y(e)) \in Nat
    <3> HIDE DEF R, Y
    <3> QED
      BY <1>2, <2>3, <2>4, GreatestIs
  <2> QED
    BY <2>2, <2>5
<1>4. ASSUME NEW e \in Goods, NEW f \in Goods PROVE X(e) \subseteq X(f) /\ Y(e) \subseteq Y(f)
  <2>1. ASSUME NEW g \in P(e) PROVE g.expires \in X(f)
    <3>1. PICK h \in grants : h.entitlement = f /\ Twin(g, h)
      BY <1>2, <2>1 DEF Paired
    <3> QED
      BY <2>1, <3>1 DEF Twin
  <2>2. ASSUME NEW g \in R(e) PROVE g.starts \in Y(f)
    <3>1. PICK h \in grants : h.entitlement = f /\ Twin(g, h)
      BY <1>2, <2>2 DEF Paired
    <3> QED
      BY <2>2, <3>1 DEF Twin
  <2> QED
    BY <2>1, <2>2
<1>5. \A e : Latest(P(e)) = Greatest(X(e)) /\ (P(e) # {} <=> X(e) # {}) /\ (R(e) # {} <=> Y(e) # {})
  BY DEF Latest
<1> HIDE DEF P, R, X, Y
<1>6. \A e : Anchor(e) = IF X(e) # {} THEN Greatest(X(e)) ELSE IF Y(e) # {} THEN Greatest(Y(e)) ELSE today
  BY <1>1, <1>5
<1>7. \A e, f \in Goods : X(e) = X(f) /\ Y(e) = Y(f)
  BY <1>4
<1>8. \A e, f \in Goods : Anchor(e) = Anchor(f)
  BY <1>6, <1>7
<1>9. \A e \in Goods : Anchor(e) \in Nat
  BY <1>1, <1>2, <1>3
<1> QED
  BY <1>8, <1>9

LEMMA FulfilKeeps == ASSUME AccountFits, NEW sku \in SKUs, Fulfil(sku) PROVE AccountFits'
<1>1. PICK n \in Nat : n = Len(orders) + 1
  BY DEF AccountFits
<1> DEFINE key == <<"order", n>>
<1>2. /\ orders' = Append(orders, [sku |-> sku, status |-> "fulfilled"])
      /\ grants' = grants \cup Delivered(sku, n) /\ UNCHANGED <<today, trial, rows, asking>>
  BY <1>1 DEF Fulfil
<1>3. PICK end \in Nat \cup {Never} : grants' = grants \cup Pair("fulfillment", today, end, key)
  <2>1. PICK m \in Nat : \A e \in Goods : Anchor(e) = m
    BY AnchorIs DEF Goods
  <2>2. PICK end : end = IF sku = "lifetime" THEN Never ELSE m + Period
    OBVIOUS
  <2>3. end \in Nat \cup {Never}
    BY <2>2, LengthsAssumption
  <2>4. \A e \in Goods : (IF sku = "lifetime" THEN Never ELSE Anchor(e) + Period) = end
    BY <2>1, <2>2
  <2>5. Delivered(sku, n) = Pair("fulfillment", today, end, key)
    BY <2>4 DEF Delivered, Pair
  <2> QED
    BY <1>2, <2>3, <2>5
<1>4. key \in GrantKeys /\ today \in Nat
  BY LengthsAssumption DEF GrantKeys, AccountFits
<1>5. \A g \in grants : g.key # key
  <2> TAKE g \in grants
  <2>1. \A i \in 1..Len(orders) : <<"order", i>> # key
    BY <1>1, KeysDiffer DEF AccountFits
  <2>2. g.source \in {"trial", "fulfillment", "grace", "manual"}
    BY DEF AccountFits, GrantsFit, SoundGrants, Grants
  <2> QED
    BY <2>1, <2>2, KeysDiffer DEF AccountFits, GrantsFit, Labelled
<1>6. \A e : key # <<"admin", e>>
  BY KeysDiffer
<1> HIDE DEF key
<1>7. /\ SoundGrants(grants') /\ Paired(grants') /\ Bounded(grants') /\ IsFiniteSet(grants') /\ Unique(grants')
      /\ ManualOf(grants') = ManualOf(grants)
  <2>1. "fulfillment" \in {"trial", "fulfillment", "grace"}
    OBVIOUS
  <2> QED
    BY <1>3, <1>4, <1>5, <2>1, PairAdded DEF AccountFits, GrantsFit
<1>8. /\ \A g \in grants' : g \in grants \/ (g.source = "fulfillment" /\ g.key = key)
      /\ \A tr : Given(grants, tr) => Given(grants', tr)
      /\ \A ask \in asking : ask.keyed => \A g \in grants' : g.key # <<"admin", ask.entitlement>>
  BY <1>3, <1>6, PairKeeps
<1>9. orders' \in Seq(PaidOrders) /\ Len(orders') = n
  BY <1>1, <1>2 DEF AccountFits, PaidOrders
<1>10. Labelled(grants', Len(orders'), Cardinality(ManualOf(grants')))
  <2>1. n \in 1..n /\ 1..Len(orders) \subseteq 1..n
    BY <1>1 DEF AccountFits
  <2>2. \A g \in grants : g.source = "fulfillment" => \E i \in 1..n : g.key = <<"order", i>>
    BY <2>1 DEF AccountFits, GrantsFit, Labelled
  <2> QED
    BY <1>7, <1>8, <1>9, <2>1, <2>2 DEF AccountFits, GrantsFit, Labelled, key
<1>11. GrantsFit'
  BY <1>7, <1>10 DEF GrantsFit
<1>12. TrialFits'
  BY <1>2, <1>8 DEF AccountFits, TrialFits
<1>13. AskingFits'
  BY <1>2, <1>8 DEF AccountFits, AskingFits
<1> QED
  BY <1>2, <1>9, <1>11, <1>12, <1>13 DEF AccountFits

\* The grants among which a period is looked for have a last end.
LEMMA PeriodIs ==
  ASSUME AccountFits, CancellableGrants(grants, today) # {}
  PROVE  Latest(CancellableGrants(grants, today)) \in Nat
<1>1. PICK H : H = CancellableGrants(grants, today)
  OBVIOUS
<1>2. H \in SUBSET grants /\ H # {} /\ \A g \in H : g.expires # Never
  BY <1>1 DEF CancellableGrants
<1>3. Latest(H) \in Nat
  BY <1>2, LatestIs DEF AccountFits, GrantsFit
<1> QED
  BY <1>1, <1>3

LEMMA RenewalFailsKeeps == ASSUME AccountFits, RenewalFails PROVE AccountFits'
<1>1. PICK end \in Nat : end = Latest(CancellableGrants(grants, today))
  BY PeriodIs DEF RenewalFails
<1>2. PICK i \in Nat : i = Greatest(Months)
  <2>1. Months \in SUBSET Nat /\ Months # {} /\ \A x \in Months : x <= Len(orders)
    <3>1. DOMAIN orders = 1..Len(orders) /\ Len(orders) \in Nat
      BY DEF AccountFits
    <3>2. Months \subseteq DOMAIN orders /\ Months # {}
      BY DEF RenewalFails, Months
    <3> QED
      BY <3>1, <3>2
  <2>2. Len(orders) \in Nat
    BY DEF AccountFits
  <2> HIDE DEF Months
  <2> QED
    BY <2>1, <2>2, GreatestIs
<1> DEFINE key == <<"renewal of", i>>
<1>3. PICK end2 \in Nat : end2 = end + GraceLength
  BY LengthsAssumption
<1>4. /\ \A g \in grants : g.key # key
      /\ grants' = grants \cup Pair("grace", end, end2, key)
      /\ UNCHANGED <<today, trial, orders, rows, asking>>
  BY <1>1, <1>2, <1>3 DEF RenewalFails, Pair
<1>5. key \in GrantKeys /\ end2 # Never
  BY <1>3, NeverAssumption DEF GrantKeys
<1>6. \A e : key # <<"admin", e>>
  BY KeysDiffer
<1> HIDE DEF key
<1>7. /\ SoundGrants(grants') /\ Paired(grants') /\ Bounded(grants') /\ IsFiniteSet(grants') /\ Unique(grants')
      /\ ManualOf(grants') = ManualOf(grants)
  <2>1. "grace" \in {"trial", "fulfillment", "grace"}
    OBVIOUS
  <2> QED
    BY <1>3, <1>4, <1>5, <2>1, PairAdded DEF AccountFits, GrantsFit
<1>8. /\ \A g \in grants' : g \in grants \/ (g.source = "grace" /\ g.key = key)
      /\ \A tr : Given(grants, tr) => Given(grants', tr)
      /\ \A ask \in asking : ask.keyed => \A g \in grants' : g.key # <<"admin", ask.entitlement>>
  BY <1>4, <1>6, PairKeeps
<1>9. Labelled(grants', Len(orders'), Cardinality(ManualOf(grants')))
  BY <1>4, <1>7, <1>8 DEF AccountFits, GrantsFit, Labelled, key
<1>10. GrantsFit'
  BY <1>7, <1>9 DEF GrantsFit
<1>11. TrialFits'
  BY <1>4, <1>8 DEF AccountFits, TrialFits
<1>12. AskingFits'
  BY <1>4, <1>8 DEF AccountFits, AskingFits
<1> QED
  BY <1>4, <1>10, <1>11, <1>12 DEF AccountFits

-----------------------------------------------------------------------------
(* A refund.                                                               *)

LEMMA TakenBackIs ==
  ASSUME today \in Nat, NEW g \in Grants
  PROVE  /\ TakenBack(g) \in Grants
         /\ TakenBack(g).entitlement = g.entitlement /\ TakenBack(g).source = g.source
         /\ TakenBack(g).starts = g.starts /\ TakenBack(g).key = g.key
         /\ TakenBack(g).status = "revoked" /\ TakenBack(g).revoked = today
         /\ TakenBack(g).expires = IF g.expires = Never \/ g.expires > today THEN today ELSE g.expires
         /\ TakenBack(g).expires \in Nat
<1>1. PICK end \in Nat : end = IF g.expires = Never \/ g.expires > today THEN today ELSE g.expires
  BY DEF Grants
<1>2. TakenBack(g) = [g EXCEPT !.status = "revoked", !.revoked = today, !.expires = end]
  BY <1>1 DEF TakenBack
<1> QED
  BY <1>1, <1>2, NeverAssumption DEF Grants

LEMMA StillLabelled ==
  ASSUME NEW G, NEW n, NEW c, Labelled(G, n, c),
         NEW H, \A g \in H : \E h \in G : g.source = h.source /\ g.key = h.key
  PROVE  Labelled(H, n, c)
<1>1. SUFFICES ASSUME NEW g \in H
               PROVE  /\ g.source = "trial" => g.key = <<"trial">>
                      /\ g.source = "fulfillment" => \E i \in 1..n : g.key = <<"order", i>>
                      /\ g.source = "grace" => \E i \in Nat : g.key = <<"renewal of", i>>
                      /\ g.source = "manual" => \/ \E e \in Goods : g.key = <<"admin", e>>
                                                \/ \E i \in Nat : i < c /\ g.key = <<"new", i>>
  BY DEF Labelled
<1>2. PICK h \in G : g.source = h.source /\ g.key = h.key
  OBVIOUS
<1> QED
  BY <1>2 DEF Labelled

LEMMA RefundKeeps == ASSUME AccountFits, NEW n \in DOMAIN orders, Refund(n) PROVE AccountFits'
<1> DEFINE After_(g) == IF g.key = <<"order", n>> THEN TakenBack(g) ELSE g
<1>1. /\ orders' = [orders EXCEPT ![n].status = "refunded"]
      /\ grants' = {After_(g) : g \in grants} /\ UNCHANGED <<today, trial, rows, asking>>
  BY DEF Refund
<1>2. /\ today \in Nat /\ grants \subseteq Grants /\ SoundGrants(grants) /\ Paired(grants) /\ Bounded(grants)
      /\ IsFiniteSet(grants) /\ Unique(grants)
      /\ Labelled(grants, Len(orders), Cardinality(ManualOf(grants)))
  BY LengthsAssumption DEF AccountFits, GrantsFit, SoundGrants
<1>3. \A g \in grants : /\ After_(g) \in Grants /\ After_(g).entitlement = g.entitlement
                        /\ After_(g).source = g.source /\ After_(g).starts = g.starts
                        /\ After_(g).key = g.key
  BY <1>2, TakenBackIs
<1>4. \A g \in grants : g.source # "fulfillment" => After_(g) = g
  <2>1. ASSUME NEW g \in grants, g.source # "fulfillment" PROVE g.key # <<"order", n>>
    <3>1. g.source \in {"fulfillment", "trial", "grace", "manual"}
      BY <1>2 DEF Grants
    <3> QED
      BY <1>2, <2>1, <3>1, KeysDiffer DEF Labelled
  <2> QED
    BY <2>1
<1>5. \A g \in grants : /\ After_(g).status = "active" => After_(g) = g
                        /\ After_(g) = g \/ After_(g).expires \in Nat
                        /\ After_(g) = g \/ After_(g).expires <= today \/ After_(g).expires = g.expires
  <2> TAKE g \in grants
  <2>1. CASE g.key = <<"order", n>>
    BY <1>2, <2>1, TakenBackIs
  <2>2. CASE g.key # <<"order", n>>
    BY <2>2
  <2> QED
    BY <2>1, <2>2
<1>6. \A g, h \in grants : Twin(g, h) => Twin(After_(g), After_(h))
  <2> TAKE g, h \in grants
  <2>1. CASE g.key = <<"order", n>>
    BY <1>2, <2>1, TakenBackIs DEF Twin
  <2>2. CASE g.key # <<"order", n>>
    BY <2>2 DEF Twin
  <2> QED
    BY <2>1, <2>2
<1> HIDE DEF After_
<1>7. SoundGrants(grants')
  <2>1. grants' \subseteq Grants
    BY <1>1, <1>3
  <2>2. \A g \in grants : /\ After_(g).status = "active" => After_(g).revoked = Never
                          /\ After_(g).source \in {"trial", "grace"} => After_(g).expires # Never
    BY <1>2, <1>3, <1>4, <1>5 DEF SoundGrants
  <2> QED
    BY <1>1, <2>1, <2>2 DEF SoundGrants
<1>8. Paired(grants')
  <2> SUFFICES ASSUME NEW g \in grants, After_(g).source # "manual", NEW e \in Goods
               PROVE  \E h \in grants' : h.entitlement = e /\ Twin(After_(g), h)
    BY <1>1 DEF Paired
  <2>1. PICK h \in grants : h.entitlement = e /\ Twin(g, h)
    BY <1>2, <1>3 DEF Paired
  <2> QED
    BY <1>1, <1>3, <1>6, <2>1
<1>9. Bounded(grants')
  <2>1. PICK b \in Nat : \A g \in grants : g.expires = Never \/ g.expires <= b
    BY <1>2 DEF Bounded
  <2>2. PICK d \in Nat : b <= d /\ today <= d
    BY <1>2
  <2>3. \A g \in grants : g.expires = Never \/ g.expires \in Nat
    BY <1>2 DEF Grants
  <2>4. \A g \in grants : After_(g).expires = Never \/ After_(g).expires <= d
    <3> TAKE g \in grants
    <3>1. CASE After_(g) = g
      BY <2>1, <2>2, <2>3, <3>1
    <3>2. CASE After_(g) # g
      BY <1>2, <1>5, <2>1, <2>2, <2>3, <3>2
    <3> QED
      BY <3>1, <3>2
  <2> QED
    BY <1>1, <2>4 DEF Bounded
<1>10. IsFiniteSet(grants')
  <2>1. [g \in grants |-> After_(g)] \in Surjection(grants, grants')
    BY <1>1 DEF Surjection
  <2> QED
    BY <1>2, <2>1, FS_Surjection
<1>11. Unique(grants')
  BY <1>1, <1>2, <1>3 DEF Unique
<1>12. ManualOf(grants') = ManualOf(grants)
  BY <1>1, <1>3, <1>4 DEF ManualOf
<1>13. orders' \in Seq(PaidOrders) /\ Len(orders') = Len(orders)
  <2>1. orders[n] \in PaidOrders
    BY DEF AccountFits
  <2>2. [orders[n] EXCEPT !.status = "refunded"] \in PaidOrders
    BY <2>1 DEF PaidOrders
  <2> QED
    BY <1>1, <2>2, ExceptSeq DEF AccountFits
<1>14. Labelled(grants', Len(orders'), Cardinality(ManualOf(grants')))
  <2>1. ASSUME NEW g \in grants'
        PROVE  \E h \in grants : g.source = h.source /\ g.key = h.key
    BY <1>1, <1>3, <2>1
  <2>2. Labelled(grants', Len(orders), Cardinality(ManualOf(grants)))
    BY <1>2, <2>1, StillLabelled
  <2> QED
    BY <1>12, <1>13, <2>2
<1>15. GrantsFit'
  BY <1>7, <1>8, <1>9, <1>10, <1>11, <1>14 DEF GrantsFit
<1>16. TrialFits'
  <2>1. \A tr : Given(grants, tr) => Given(grants', tr)
    BY <1>1, <1>4 DEF Given
  <2> QED
    BY <1>1, <1>3, <2>1 DEF AccountFits, TrialFits
<1>17. AskingFits'
  BY <1>1, <1>3 DEF AccountFits, AskingFits
<1> QED
  BY <1>1, <1>13, <1>15, <1>16, <1>17 DEF AccountFits

-----------------------------------------------------------------------------
(* Cancellations.                                                          *)

LEMMA Elements ==
  ASSUME NEW T, NEW s \in Seq(T)
  PROVE  Len(s) \in Nat /\ DOMAIN s = 1..Len(s) /\ \A i \in DOMAIN s : s[i] \in T
  OBVIOUS

LEMMA RowsAreKnown == ASSUME AccountFits PROVE RowsKnown(rows) /\ OneLive(rows, today) /\ today \in Nat
<1>1. Len(rows) \in Nat /\ DOMAIN rows = 1..Len(rows) /\ \A i \in DOMAIN rows : rows[i] \in CancellationRows
  BY Elements DEF AccountFits
<1>2. RowsKnown(rows)
  BY <1>1 DEF RowsKnown, CancellationRows
<1> QED
  BY <1>2, LengthsAssumption DEF AccountFits

\* A row that is added, or written again, is the last; the others are as they were.
LEMMA RowAdded ==
  ASSUME rows \in Seq(CancellationRows), NEW row \in CancellationRows, NEW s, s = Append(rows, row)
  PROVE  /\ s \in Seq(CancellationRows)
         /\ \A j \in DOMAIN s : j # Len(s) => j \in DOMAIN rows /\ s[j] = rows[j]
  OBVIOUS

LEMMA RowRewritten ==
  ASSUME rows \in Seq(CancellationRows), NEW i \in DOMAIN rows, NEW row \in CancellationRows, NEW s, s = Rewrite(i, row)
  PROVE  /\ s \in Seq(CancellationRows)
         /\ \A j \in DOMAIN s : j # Len(s) => \E k \in DOMAIN rows : k # i /\ s[j] = rows[k]
<1>1. PICK n \in Nat : n = Len(rows) - 1 /\ Len(rows) = n + 1 /\ DOMAIN rows = 1..n + 1
  OBVIOUS
<1>2. PICK w : w = Without(rows, i)
  OBVIOUS
<1>3. w = [j \in 1..n |-> IF j < i THEN rows[j] ELSE rows[j + 1]]
  BY <1>1, <1>2 DEF Without
<1>4. \A j \in 1..n : w[j] \in CancellationRows /\ \E k \in DOMAIN rows : k # i /\ w[j] = rows[k]
  <2> TAKE j \in 1..n
  <2>1. PICK k : k = IF j < i THEN j ELSE j + 1
    OBVIOUS
  <2>2. k \in DOMAIN rows /\ k # i
    BY <1>1, <2>1
  <2> QED
    BY <1>3, <2>1, <2>2
<1>5. w \in Seq(CancellationRows) /\ Len(w) = n
  BY <1>3, <1>4, IsASeq
<1>6. s = Append(w, row)
  BY <1>2 DEF Rewrite
<1> QED
  BY <1>4, <1>5, <1>6

\* Only rows change, and at most the last one runs.
LEMMA RowsKeep ==
  ASSUME AccountFits, UNCHANGED <<today, grants, trial, orders, asking>>,
         rows' \in Seq(CancellationRows), OneLive(rows', today)
  PROVE  AccountFits'
<1>1. GrantsFit'
  BY DEF AccountFits, GrantsFit
<1>2. TrialFits'
  BY DEF AccountFits, TrialFits
<1>3. AskingFits'
  BY DEF AccountFits, AskingFits
<1> QED
  BY <1>1, <1>2, <1>3 DEF AccountFits

LEMMA CancelKeeps == ASSUME AccountFits, Cancel PROVE AccountFits'
<1>1. PICK row : row = RowOf(TRUE, Latest(CancellableGrants(grants, today)))
  OBVIOUS
<1>2. row \in CancellationRows
  BY <1>1, PeriodIs DEF Cancel, RowOf, CancellationRows
<1>3. \A k \in DOMAIN rows : ~(rows[k].active /\ rows[k].periodEnd > today)
  BY RowsAreKnown, LastIsFound DEF Cancel, Live
<1>4. rows \in Seq(CancellationRows)
  BY DEF AccountFits
<1>5. CASE rows' = Append(rows, row)
  <2>1. /\ rows' \in Seq(CancellationRows)
        /\ \A j \in DOMAIN rows' : j # Len(rows') => j \in DOMAIN rows /\ rows'[j] = rows[j]
    BY <1>2, <1>4, <1>5, RowAdded
  <2>2. OneLive(rows', today)
    BY <1>3, <2>1 DEF OneLive
  <2> QED
    BY <2>1, <2>2, RowsKeep DEF Cancel
<1>6. ASSUME NEW i \in DOMAIN rows, rows' = Rewrite(i, row) PROVE AccountFits'
  <2>1. /\ rows' \in Seq(CancellationRows)
        /\ \A j \in DOMAIN rows' : j # Len(rows') => \E k \in DOMAIN rows : k # i /\ rows'[j] = rows[k]
    BY <1>2, <1>4, <1>6, RowRewritten
  <2>2. OneLive(rows', today)
    BY <1>3, <2>1 DEF OneLive
  <2> QED
    BY <2>1, <2>2, RowsKeep DEF Cancel
<1> QED
  BY <1>1, <1>5, <1>6 DEF Cancel

LEMMA ResumeKeeps == ASSUME AccountFits, Resume PROVE AccountFits'
<1>1. PICK i \in FindActive(rows, today) : rows' = Rewrite(i, RowOf(FALSE, rows[i].periodEnd))
  BY DEF Resume
<1>2. PICK row : row = RowOf(FALSE, rows[i].periodEnd)
  OBVIOUS
<1>3. /\ i \in DOMAIN rows
      /\ \A k \in DOMAIN rows : k # i => ~(rows[k].active /\ rows[k].periodEnd > today)
  BY <1>1, RowsAreKnown, LastIsFound DEF Live
<1>4. rows \in Seq(CancellationRows) /\ row \in CancellationRows
  <2>1. rows[i].periodEnd \in Nat
    BY <1>3, RowsAreKnown DEF RowsKnown
  <2> QED
    BY <1>2, <2>1 DEF AccountFits, RowOf, CancellationRows
<1>5. /\ rows' \in Seq(CancellationRows)
      /\ \A j \in DOMAIN rows' : j # Len(rows') => \E k \in DOMAIN rows : k # i /\ rows'[j] = rows[k]
  <2>1. rows' = Rewrite(i, row)
    BY <1>1, <1>2
  <2> QED
    BY <1>3, <1>4, <2>1, RowRewritten
<1>6. OneLive(rows', today)
  BY <1>3, <1>5 DEF OneLive
<1> QED
  BY <1>5, <1>6, RowsKeep DEF Resume

-----------------------------------------------------------------------------
(* The administrator, the deletion of a user, and time.                    *)

LEMMA AskGrantKeeps ==
  ASSUME AccountFits, NEW e \in ManualGoods, NEW keyed \in BOOLEAN, AskGrant(e, keyed)
  PROVE  AccountFits'
<1>1. /\ asking' = asking \cup {[entitlement |-> e, keyed |-> keyed]} /\ Wanted(keyed, e)
      /\ UNCHANGED <<today, grants, trial, orders, rows>>
  BY DEF AskGrant
<1>2. GrantsFit'
  BY <1>1 DEF AccountFits, GrantsFit
<1>3. TrialFits'
  BY <1>1 DEF AccountFits, TrialFits
<1>4. AskingFits'
  BY <1>1 DEF AccountFits, AskingFits, Wanted
<1> QED
  BY <1>1, <1>2, <1>3, <1>4 DEF AccountFits

LEMMA CreateGrantKeeps ==
  ASSUME AccountFits, NEW ask \in asking, NEW from \in {today, today + 1}, NEW length \in ManualEnds,
         CreateGrant(ask, from, length)
  PROVE  AccountFits'
<1>1. PICK end : end = After(from, length)
  OBVIOUS
<1>2. PICK c : c = Cardinality(ManualOf(grants))
  OBVIOUS
<1>3. PICK key : key = IF ask.keyed THEN <<"admin", ask.entitlement>> ELSE <<"new", c>>
  OBVIOUS
<1>4. PICK g : g = NewGrant(ask.entitlement, "manual", from, end, key)
  OBVIOUS
<1>5. /\ grants' = grants \cup {g} /\ asking' = asking \ {ask} /\ UNCHANGED <<today, trial, orders, rows>>
  BY <1>1, <1>2, <1>3, <1>4 DEF CreateGrant, ManualGrants, ManualOf
<1>6. /\ from \in Nat /\ end \in Nat \cup {Never}
      /\ ask.entitlement \in Goods /\ ask.entitlement \in ManualGoods /\ ask.keyed \in BOOLEAN
  <2>1. today \in Nat /\ today + 1 \in Nat
    BY LengthsAssumption DEF AccountFits
  <2>2. from \in Nat
    BY <2>1
  <2>3. end \in Nat \cup {Never}
    BY <1>1, <2>2, LengthsAssumption DEF After
  <2>4. ask.entitlement \in ManualGoods /\ ask.keyed \in BOOLEAN
    BY DEF AccountFits, AskingFits
  <2>5. ManualGoods \subseteq Goods
    BY LengthsAssumption DEF Goods, CurrentEntitlements
  <2> QED
    BY <2>2, <2>3, <2>4, <2>5
<1>7. /\ IsFiniteSet(grants) /\ SoundGrants(grants) /\ Paired(grants) /\ Bounded(grants) /\ Unique(grants)
      /\ Labelled(grants, Len(orders), c)
  BY <1>2 DEF AccountFits, GrantsFit
<1>8. IsFiniteSet(ManualOf(grants)) /\ c \in Nat
  <2>1. ManualOf(grants) \subseteq grants
    BY DEF ManualOf
  <2> QED
    BY <1>2, <1>7, <2>1, FS_Subset, FS_CardinalityType
<1>9. /\ g.entitlement = ask.entitlement /\ g.source = "manual" /\ g.status = "active" /\ g.starts = from
      /\ g.expires = end /\ g.revoked = Never /\ g.key = key
  BY <1>4 DEF NewGrant
<1>10. key \in GrantKeys /\ g \in Grants
  <2>1. key \in GrantKeys
    BY <1>3, <1>6, <1>8 DEF GrantKeys
  <2> QED
    BY <1>4, <1>6, <2>1 DEF Grants, NewGrant
<1>11. \A h \in grants : h.key # key
  <2>1. CASE ask.keyed
    BY <1>3, <2>1 DEF AccountFits, AskingFits
  <2>2. CASE ~ask.keyed
    <3> TAKE h \in grants
    <3>1. key = <<"new", c>>
      BY <1>3, <2>2
    <3>2. h.source \in {"trial", "fulfillment", "grace", "manual"}
      BY <1>7 DEF SoundGrants, Grants
    <3>3. \A i \in Nat : i < c => <<"new", i>> # key
      BY <1>8, <3>1, KeysDiffer
    <3> QED
      BY <1>7, <3>1, <3>2, <3>3, KeysDiffer DEF Labelled
  <2> QED
    BY <2>1, <2>2
<1>12. g \notin grants
  BY <1>9, <1>11
<1>13. SoundGrants(grants')
  BY <1>5, <1>7, <1>9, <1>10 DEF SoundGrants
<1>14. Paired(grants')
  BY <1>5, <1>7, <1>9 DEF Paired
<1>15. Bounded(grants')
  <2>1. PICK b \in Nat : \A h \in grants : h.expires = Never \/ h.expires <= b
    BY <1>7 DEF Bounded
  <2>2. PICK d \in Nat : b <= d /\ (end = Never \/ end <= d)
    <3>1. CASE end = Never
      BY <3>1
    <3>2. CASE end \in Nat
      BY <3>2
    <3> QED
      BY <1>6, <3>1, <3>2
  <2>3. \A h \in grants : h.expires = Never \/ h.expires <= d
    BY <1>7, <2>1, <2>2 DEF SoundGrants, Grants
  <2> QED
    BY <1>5, <1>9, <2>2, <2>3 DEF Bounded
<1>16. IsFiniteSet(grants')
  BY <1>5, <1>7, FS_AddElement
<1>17. Cardinality(ManualOf(grants')) = c + 1
  <2>1. ManualOf(grants') = ManualOf(grants) \cup {g} /\ g \notin ManualOf(grants)
    BY <1>5, <1>9, <1>12 DEF ManualOf
  <2> QED
    BY <1>2, <1>8, <2>1, FS_AddElement
<1>18. Labelled(grants', Len(orders'), Cardinality(ManualOf(grants')))
  <2>1. Labelled(grants, Len(orders), c + 1)
    <3>1. \A i \in Nat : i < c => i < c + 1
      BY <1>8
    <3> QED
      BY <1>7, <3>1 DEF Labelled
  <2>2. \/ \E e \in Goods : g.key = <<"admin", e>>
        \/ \E i \in Nat : i < c + 1 /\ g.key = <<"new", i>>
    BY <1>3, <1>6, <1>8, <1>9
  <2>3. Labelled(grants \cup {g}, Len(orders), c + 1)
    BY <1>9, <2>1, <2>2 DEF Labelled
  <2> QED
    BY <1>5, <1>17, <2>3
<1>19. Unique(grants')
  BY <1>5, <1>7, <1>9, <1>11 DEF Unique
<1>20. GrantsFit'
  BY <1>13, <1>14, <1>15, <1>16, <1>18, <1>19 DEF GrantsFit
<1>21. TrialFits'
  <2>1. \A tr : Given(grants, tr) => Given(grants', tr)
    BY <1>5 DEF Given
  <2> QED
    BY <1>5, <1>9, <2>1 DEF AccountFits, TrialFits
<1>22. AskingFits'
  <2>1. ASSUME NEW other \in asking', other.keyed PROVE key # <<"admin", other.entitlement>>
    <3>1. other \in asking /\ other # ask /\ other \in [entitlement : ManualGoods, keyed : BOOLEAN]
          /\ ask \in [entitlement : ManualGoods, keyed : BOOLEAN]
      BY <1>5, <2>1 DEF AccountFits, AskingFits
    <3>2. ~ask.keyed \/ other.entitlement # ask.entitlement
      BY <2>1, <3>1
    <3> QED
      BY <1>3, <3>2, KeysDiffer
  <2> QED
    BY <1>5, <1>9, <2>1 DEF AccountFits, AskingFits
<1> QED
  BY <1>5, <1>20, <1>21, <1>22 DEF AccountFits

\* A user with no rows.
LEMMA NothingFits ==
  ASSUME NEW n
  PROVE  /\ SoundGrants({}) /\ Paired({}) /\ Bounded({}) /\ IsFiniteSet({}) /\ Unique({})
         /\ Labelled({}, n, Cardinality(ManualOf({})))
<1>1. Bounded({})
  <2>1. 0 \in Nat
    OBVIOUS
  <2> QED
    BY <2>1 DEF Bounded
<1> QED
  BY <1>1, FS_EmptySet DEF SoundGrants, Paired, Unique, Labelled

LEMMA ResetKeeps == ASSUME AccountFits, Reset PROVE AccountFits'
<1>1. /\ trial' = Never /\ grants' = {} /\ orders' = <<>> /\ rows' = <<>> /\ UNCHANGED <<today, asking>>
  BY DEF Reset
<1>2. GrantsFit'
  BY <1>1, NothingFits DEF GrantsFit
<1>3. TrialFits'
  BY <1>1 DEF TrialFits
<1>4. AskingFits'
  BY <1>1 DEF AccountFits, AskingFits
<1>5. OneLive(rows', today') /\ rows' \in Seq(CancellationRows) /\ orders' \in Seq(PaidOrders)
  BY <1>1 DEF OneLive
<1> QED
  BY <1>1, <1>2, <1>3, <1>4, <1>5 DEF AccountFits

LEMMA NextDayKeeps == ASSUME AccountFits, NextDay PROVE AccountFits'
<1>1. today' = today + 1 /\ today' \in 0..LastDay /\ UNCHANGED <<grants, trial, orders, rows, asking>>
  BY LengthsAssumption DEF NextDay, AccountFits
<1>2. GrantsFit'
  BY <1>1 DEF AccountFits, GrantsFit
<1>3. TrialFits'
  <2>1. trial # Never => trial <= today'
    BY <1>1, LengthsAssumption DEF AccountFits, TrialFits
  <2> QED
    BY <1>1, <2>1 DEF AccountFits, TrialFits
<1>4. AskingFits'
  BY <1>1 DEF AccountFits, AskingFits
<1>5. OneLive(rows', today')
  BY <1>1, RowsAreKnown DEF OneLive, RowsKnown
<1> QED
  BY <1>1, <1>2, <1>3, <1>4, <1>5 DEF AccountFits

-----------------------------------------------------------------------------
(* The invariant, and what follows from it.                                *)

LEMMA NewUserFits == ASSUME NewUser PROVE AccountFits
<1>1. GrantsFit
  BY NothingFits DEF NewUser, GrantsFit
<1>2. TrialFits /\ AskingFits
  BY DEF NewUser, TrialFits, AskingFits
<1>3. today \in 0..LastDay /\ orders \in Seq(PaidOrders) /\ rows \in Seq(CancellationRows) /\ OneLive(rows, today)
  BY LengthsAssumption DEF NewUser, OneLive
<1> QED
  BY <1>1, <1>2, <1>3 DEF AccountFits

LEMMA AccountKeeps == ASSUME AccountFits, [UserStep]_account PROVE AccountFits'
<1>1. CASE StartTrial
  BY <1>1, StartTrialKeeps
<1>2. CASE \E sku \in SKUs : Fulfil(sku)
  BY <1>2, FulfilKeeps
<1>3. CASE \E n \in DOMAIN orders : Refund(n)
  BY <1>3, RefundKeeps
<1>4. CASE RenewalFails
  BY <1>4, RenewalFailsKeeps
<1>5. CASE Cancel \/ Resume
  BY <1>5, CancelKeeps, ResumeKeeps
<1>6. CASE \E e \in ManualGoods, keyed \in BOOLEAN : AskGrant(e, keyed)
  BY <1>6, AskGrantKeeps
<1>7. CASE \E ask \in asking, from \in {today, today + 1}, length \in ManualEnds : CreateGrant(ask, from, length)
  BY <1>7, CreateGrantKeeps
<1>8. CASE Reset \/ NextDay
  BY <1>8, ResetKeeps, NextDayKeeps
<1>9. CASE UNCHANGED account
  <2>1. UNCHANGED <<today, grants, trial, orders, asking>> /\ rows' = rows
    BY <1>9 DEF account
  <2> QED
    BY <2>1, RowsKeep DEF AccountFits
<1> QED
  BY <1>1, <1>2, <1>3, <1>4, <1>5, <1>6, <1>7, <1>8, <1>9 DEF UserStep

LEMMA RowsFit == ASSUME AccountFits PROVE RowsTyped /\ OneStory /\ OfferedIsAccepted
<1>1. /\ SoundGrants(grants) /\ Paired(grants) /\ Unique(grants) /\ today \in Nat
      /\ trial \in Nat \cup {Never} /\ (trial # Never => trial <= today /\ Given(grants, trial))
  BY LengthsAssumption DEF AccountFits, GrantsFit, TrialFits
<1>2. OneStory
  BY <1>1, ViewsAgree
<1>3. OfferedIsAccepted
  BY <1>1, RowsAreKnown, ButtonsWork
<1>4. RowsTyped
  <2>1. \A i \in DOMAIN orders : orders[i].sku \in SKUs /\ orders[i].status \in {"fulfilled", "refunded"}
    <3>1. \A i \in DOMAIN orders : orders[i] \in PaidOrders
      BY Elements DEF AccountFits
    <3> QED
      BY <3>1 DEF PaidOrders
  <2>2. \A g \in grants : g.entitlement \in Goods /\ g.status \in {"active", "revoked"}
    BY <1>1 DEF SoundGrants, Grants
  <2> QED
    BY <1>1, <2>1, <2>2 DEF RowsTyped, AccountFits, TrialFits, Unique
<1> QED
  BY <1>2, <1>3, <1>4

LEMMA AccountIsKept == UserLife => []AccountFits
<1>1. NewUser => AccountFits
  BY NewUserFits
<1>2. AccountFits /\ [UserStep]_account => AccountFits'
  BY AccountKeeps
<1> QED
  BY <1>1, <1>2, PTL DEF UserLife

\* Every row a user can have has its type, and no key is given to two grants of
\* one entitlement: an order, a renewal's grace and an administrator's keyed
\* request each give a good once.
THEOREM RowTypes == UserLife => []RowsTyped
<1>1. AccountFits => RowsTyped
  BY RowsFit
<1> QED
  BY <1>1, AccountIsKept, PTL

\* The snapshot of the application, the entitlement snapshot, the plan checkout
\* goes by and the administrators' pages, each computed by code of its own, agree
\* on every set of rows a user's trial, purchases, refunds, failed renewals,
\* cancellations and manual grants can leave, at every moment.
THEOREM ViewsTellOneStory == UserLife => []OneStory
<1>1. AccountFits => OneStory
  BY RowsFit
<1> QED
  BY <1>1, AccountIsKept, PTL

\* What a user or an administrator is offered - to resume, to manage, to cancel -
\* finds the period and the cancellation it needs when it is tried.
THEOREM OffersAreAccepted == UserLife => []OfferedIsAccepted
<1>1. AccountFits => OfferedIsAccepted
  BY RowsFit
<1> QED
  BY <1>1, AccountIsKept, PTL
=============================================================================
