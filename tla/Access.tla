------------------------------- MODULE Access -------------------------------
(***************************************************************************)
(* Signing in: a login challenge is created for an e-mail address and a    *)
(* device, its code is delivered, and the code is verified, which consumes *)
(* the challenge and registers the user, the device and the trial in one   *)
(* transaction.  Creating and verifying are not transactions: they read    *)
(* and save challenge rows in separate steps.                              *)
(***************************************************************************)
EXTENDS Integers, FiniteSets

CONSTANTS
  Emails, Devices,
  Keys,          \* idempotency keys of challenges, each with its challenge
  KeyOf,         \* [Keys -> [email, device]] of the client that uses the key
  Tried,         \* bound: the challenges whose code is sent, the others are left alone
  Creators,      \* requests to create a challenge that can be open together
  Verifiers,     \* requests to verify a code that can be open together
  Overlapping,   \* the attempts, right or wrong, sent while others on the same challenge run
  MaxDevices, MaxAttempts, MaxPerEmail, MaxPerIP,
  TTL, Window,
  MaxTime, MaxFaults

ASSUME AccessAssumption ==
  /\ KeyOf \in [Keys -> [email : Emails, device : Devices]]
  /\ Overlapping \subseteq {"right", "wrong"}
  /\ {MaxDevices, MaxAttempts, MaxPerEmail, MaxPerIP, TTL, Window} \subseteq Nat \ {0}
  /\ MaxTime \in Nat /\ MaxFaults \in Nat

VARIABLES
  now,
  challenges,    \* [Keys -> NoRow or the challenge's row]
  mailed,        \* challenges whose code has reached its user
  creating,      \* [Creators -> the state of a request]
  verifying,     \* [Verifiers -> the state of a request]
  devices,       \* [Emails -> [Devices -> none | active | disabled]]
  trials,        \* set of [email, key, starts]
  sessions,      \* [Keys -> sessions given for the challenge]
  wrongs,        \* [Keys -> attempts that were answered as wrong]
  faults

vars == <<now, challenges, mailed, creating, verifying, devices, trials, sessions, wrongs, faults>>

NoRow == [status |-> "none"]
Idle == [pc |-> "idle"]
Fault == faults < MaxFaults /\ faults' = faults + 1

Init ==
  /\ now = 0
  /\ challenges = [k \in Keys |-> NoRow]
  /\ mailed = {}
  /\ creating = [c \in Creators |-> Idle]
  /\ verifying = [v \in Verifiers |-> Idle]
  /\ devices = [e \in Emails |-> [d \in Devices |-> "none"]]
  /\ trials = {}
  /\ sessions = [k \in Keys |-> 0]
  /\ wrongs = [k \in Keys |-> 0]
  /\ faults = 0

Created == {k \in Keys : challenges[k] # NoRow}

-----------------------------------------------------------------------------
(* Creating a challenge.                                                   *)

\* Mutation: only the challenges that are still pending count.
InWindow_Pending(K, t) ==
  Cardinality({k \in K \cap Created : challenges[k].created >= t - Window /\ challenges[k].status = "pending"})

InWindow(K, t) == Cardinality({k \in K \cap Created : challenges[k].created >= t - Window})

KeysOf(e) == {k \in Keys : KeyOf[k].email = e}

\* All requests of the model come from one address.
RateAllows(e) == InWindow(KeysOf(e), now) < MaxPerEmail /\ InWindow(Keys, now) < MaxPerIP

\* A key that has its challenge is answered from it, which changes nothing; for
\* a new key the limits are checked.
Count(c, k) ==
  /\ creating[c] = Idle
  /\ k \notin Created
  /\ RateAllows(KeyOf[k].email)
  /\ creating' = [creating EXCEPT ![c] = [pc |-> "insert", key |-> k, at |-> now]]
  /\ UNCHANGED <<now, challenges, mailed, verifying, devices, trials, sessions, wrongs, faults>>

\* The row is inserted; when the key is taken by now, its challenge is answered.
Insert(c) ==
  /\ creating[c].pc = "insert"
  /\ LET k == creating[c].key
         row == [status |-> "pending", attempts |-> 0, created |-> creating[c].at,
                 expires |-> creating[c].at + TTL]
     IN  IF k \in Created
           THEN creating' = [creating EXCEPT ![c] = Idle] /\ UNCHANGED challenges
           ELSE /\ challenges' = [challenges EXCEPT ![k] = row]
                /\ creating' = [creating EXCEPT ![c] = [pc |-> "deliver", key |-> k, copy |-> row]]
  /\ UNCHANGED <<now, mailed, verifying, devices, trials, sessions, wrongs, faults>>

Deliver(c) ==
  /\ creating[c].pc = "deliver"
  /\ mailed' = mailed \cup {creating[c].key}
  /\ creating' = [creating EXCEPT ![c] = Idle]
  /\ UNCHANGED <<now, challenges, verifying, devices, trials, sessions, wrongs, faults>>

\* Delivery fails, or is only said to: the row that was inserted is saved as
\* expired, or, when that fails too or the server dies, left pending.
DeliveryFails(c) ==
  /\ creating[c].pc = "deliver"
  /\ Fault
  /\ mailed' \in {mailed, mailed \cup {creating[c].key}}
  /\ creating' = [creating EXCEPT ![c].pc = "giveUp"]
  /\ UNCHANGED <<now, challenges, verifying, devices, trials, sessions, wrongs>>

GiveUp(c) ==
  /\ creating[c].pc = "giveUp"
  /\ challenges' \in {challenges,
                      [challenges EXCEPT ![creating[c].key] = [creating[c].copy EXCEPT !.status = "expired"]]}
  /\ creating' = [creating EXCEPT ![c] = Idle]
  /\ UNCHANGED <<now, mailed, verifying, devices, trials, sessions, wrongs, faults>>

-----------------------------------------------------------------------------
(* Verifying a code.                                                       *)

Attempt == {"right", "wrong"}

\* What a request that reads the row decides to do.
Verdict(row, attempt) ==
  IF row.expires <= now THEN "expire" ELSE IF attempt = "right" THEN "consume" ELSE "fail"

Busy(k) == \E v \in Verifiers : verifying[v] # Idle /\ verifying[v].key = k

\* Requests that are under way for k, and this one, are of the overlapping kind.
MayOverlap(k, attempt) ==
  Busy(k) =>
    /\ attempt \in Overlapping
    /\ \A v \in Verifiers : verifying[v] # Idle /\ verifying[v].key = k => verifying[v].attempt \in Overlapping

\* A wrong code and the code from another device than the challenge's are both wrong.
Read(v, k, attempt) ==
  /\ verifying[v] = Idle
  /\ k \in Created \cap Tried
  /\ attempt = "right" => k \in mailed
  /\ MayOverlap(k, attempt)
  /\ challenges[k].status = "pending"
  /\ verifying' = [verifying EXCEPT ![v] =
       [pc |-> Verdict(challenges[k], attempt), key |-> k, attempt |-> attempt, copy |-> challenges[k]]]
  /\ UNCHANGED <<now, challenges, mailed, creating, devices, trials, sessions, wrongs, faults>>

SavesCopy(v, row) ==
  /\ challenges' = [challenges EXCEPT ![verifying[v].key] = row]
  /\ verifying' = [verifying EXCEPT ![v] = Idle]

SaveExpired(v) ==
  /\ verifying[v].pc = "expire"
  /\ SavesCopy(v, [verifying[v].copy EXCEPT !.status = "expired"])
  /\ UNCHANGED <<now, mailed, creating, devices, trials, sessions, wrongs, faults>>

\* Mutation: the last attempt that is allowed leaves the challenge pending.
Failed_OneMore(row) ==
  [row EXCEPT !.attempts = @ + 1, !.status = IF row.attempts + 1 > MaxAttempts THEN "expired" ELSE @]

Failed(row) ==
  [row EXCEPT !.attempts = @ + 1, !.status = IF row.attempts + 1 >= MaxAttempts THEN "expired" ELSE @]

SaveFailed(v) ==
  /\ verifying[v].pc = "fail"
  /\ SavesCopy(v, Failed(verifying[v].copy))
  /\ wrongs' = [wrongs EXCEPT ![verifying[v].key] = @ + 1]
  /\ UNCHANGED <<now, mailed, creating, devices, trials, sessions, faults>>

\* Mutation: the row is consumed whatever its status is by now.
Consumable_Any(row) == TRUE

Consumable(row) == row.status = "pending"

\* One UPDATE that only a pending row meets.
Consume(v) ==
  /\ verifying[v].pc = "consume"
  /\ LET k == verifying[v].key
     IN  IF Consumable(challenges[k])
           THEN /\ challenges' = [challenges EXCEPT ![k].status = "consumed"]
                /\ verifying' = [verifying EXCEPT ![v].pc = "register"]
           ELSE verifying' = [verifying EXCEPT ![v] = Idle] /\ UNCHANGED challenges
  /\ UNCHANGED <<now, mailed, creating, devices, trials, sessions, wrongs, faults>>

-----------------------------------------------------------------------------
(* Registering or restoring a session: one transaction.                    *)

Active(e) == {d \in Devices : devices[e][d] = "active"}

\* Mutation: a known device is made active again.
Bindable_Restores(e, d) == devices[e][d] # "none" \/ Cardinality(Active(e)) < MaxDevices

\* A device that is active is restored, one that is disabled is refused, and a
\* new one needs a free slot.
Bindable(e, d) ==
  \/ devices[e][d] = "active"
  \/ devices[e][d] = "none" /\ Cardinality(Active(e)) < MaxDevices

TrialKey(e, d) == <<e>>

\* The trial under the address's key, with the grants it gives, once.
WithTrial(e, d) ==
  IF \E t \in trials : t.key = TrialKey(e, d) THEN trials
  ELSE trials \cup {[email |-> e, key |-> TrialKey(e, d), starts |-> now]}

Bind(e, d) ==
  /\ Bindable(e, d)
  /\ devices' = [devices EXCEPT ![e][d] = "active"]
  /\ trials' = WithTrial(e, d)

Register(v) ==
  /\ verifying[v].pc = "register"
  /\ LET k == verifying[v].key
     IN  \/ /\ Bind(KeyOf[k].email, KeyOf[k].device)
            /\ sessions' = [sessions EXCEPT ![k] = @ + 1]
         \/ ~Bindable(KeyOf[k].email, KeyOf[k].device) /\ UNCHANGED <<devices, trials, sessions>>
  /\ verifying' = [verifying EXCEPT ![v] = Idle]
  /\ UNCHANGED <<now, challenges, mailed, creating, wrongs, faults>>

\* The transaction fails, or the server dies, or the snapshot that is issued
\* after the transaction fails: the challenge stays consumed, without a session.
RegisterFails(v) ==
  /\ verifying[v].pc = "register"
  /\ Fault
  /\ LET client == KeyOf[verifying[v].key]
     IN  Bind(client.email, client.device) \/ UNCHANGED <<devices, trials>>
  /\ verifying' = [verifying EXCEPT ![v] = Idle]
  /\ UNCHANGED <<now, challenges, mailed, creating, sessions, wrongs>>

\* The endpoint that registers without a challenge.
RegisterDirectly(e, d) ==
  /\ Bind(e, d)
  /\ UNCHANGED <<now, challenges, mailed, creating, verifying, sessions, wrongs, faults>>

\* An administrator's revocation.
RevokeDevice(e, d) ==
  /\ devices[e][d] = "active"
  /\ devices' = [devices EXCEPT ![e][d] = "disabled"]
  /\ UNCHANGED <<now, challenges, mailed, creating, verifying, trials, sessions, wrongs, faults>>

Tick ==
  /\ now < MaxTime
  /\ now' = now + 1
  /\ UNCHANGED <<challenges, mailed, creating, verifying, devices, trials, sessions, wrongs, faults>>

-----------------------------------------------------------------------------
Next ==
  \/ \E c \in Creators : \/ \E k \in Keys : Count(c, k)
                         \/ Insert(c) \/ Deliver(c) \/ DeliveryFails(c) \/ GiveUp(c)
  \/ \E v \in Verifiers : \/ \E k \in Keys, a \in Attempt : Read(v, k, a)
                          \/ SaveExpired(v) \/ SaveFailed(v) \/ Consume(v)
                          \/ Register(v) \/ RegisterFails(v)
  \/ \E e \in Emails, d \in Devices : RegisterDirectly(e, d) \/ RevokeDevice(e, d)
  \/ Tick

Spec == Init /\ [][Next]_vars

-----------------------------------------------------------------------------
(* Properties.                                                             *)

\* Every variable has its type.
TypeOK ==
  /\ now \in 0..MaxTime
  /\ \A k \in Created :
       /\ challenges[k].status \in {"pending", "expired", "consumed"}
       /\ challenges[k].attempts \in 0..MaxAttempts
       /\ challenges[k].created \in 0..MaxTime
       /\ challenges[k].expires = challenges[k].created + TTL
  /\ mailed \subseteq Created
  /\ \A c \in Creators : creating[c].pc \in {"idle", "insert", "deliver", "giveUp"}
  /\ \A v \in Verifiers : verifying[v].pc \in {"idle", "expire", "fail", "consume", "register"}
  /\ devices \in [Emails -> [Devices -> {"none", "active", "disabled"}]]
  /\ \A t \in trials : t.email \in Emails /\ t.starts \in 0..MaxTime
  /\ faults \in 0..MaxFaults

\* A code opens one session, however often it is sent, and none once the allowed
\* number of attempts was wrong.
OneSessionPerChallenge ==
  [][\A k \in Keys : sessions'[k] > sessions[k] =>
       sessions[k] = 0 /\ sessions'[k] = 1 /\ wrongs[k] < MaxAttempts]_sessions

\* The limits hold up to the requests that count before the others insert: in
\* no window are there more challenges than that.
RateOverrun ==
  \A t \in 0..MaxTime :
    LET between(K) == {k \in K \cap Created : challenges[k].created \in (t - Window)..t}
        late == Cardinality(Creators) - 1
    IN  /\ \A e \in Emails : Cardinality(between(KeysOf(e))) <= MaxPerEmail + late
        /\ Cardinality(between(Keys)) <= MaxPerIP + late

\* No order of logins and revocations leaves a user more active devices than allowed.
DeviceLimit == \A e \in Emails : Cardinality(Active(e)) <= MaxDevices

\* An address has one trial, from its first session on, whichever device it came from.
TrialOnce ==
  \A e \in Emails :
    /\ Cardinality({t \in trials : t.email = e}) <= 1
    /\ (\E d \in Devices : devices[e][d] # "none") => \E t \in trials : t.email = e

\* What requests that count before the others insert, and registering and revoking
\* in any order, keep.
LimitsHold == RateOverrun /\ DeviceLimit /\ TrialOnce
=============================================================================
