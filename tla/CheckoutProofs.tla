--------------------------- MODULE CheckoutProofs ---------------------------
(***************************************************************************)
(* Whatever is bought under however many keys, by requests and webhooks    *)
(* that overlap and save over each other: a payment is given its goods     *)
(* once (PaymentIsGiven), an order is charged at most once for each        *)
(* request that can overlap (ChargesBounded), and a slow request takes a   *)
(* paid order back only after a second call of the provider                *)
(* (TakenBackByRivals).                                                    *)
(***************************************************************************)
EXTENDS Checkout, SequenceTheorems, FiniteSetTheorems, TLAPS

Statuses == {"none", "pending", "failed", "checkout_created", "cancelled", "refunded"} \cup Paid
Order == [status : Statuses, url : Nat]
Request == [pc : {"unsent", "idle", "decide", "call", "save", "saveFailed"}, copy : Order, url : Nat]
Session == [key : Keys, paid : BOOLEAN]
Hook == [pc : {"idle", "write", "fulfill", "adjust"},
         kind : {"paid", "cancelled", "refunded", "disputed"}, session : Nat, copy : Order]

\* The variables that the requests and the webhooks share.
Shapes ==
  /\ orders \in [Keys -> Order]
  /\ open \in [Keys \X Tries -> Request]
  /\ sessions \in Seq(Session)
  /\ answered \in [Keys -> SUBSET Nat]
  /\ hooks \in [Hooks -> Hook]
  /\ owed \subseteq {i \in 1..Len(sessions) : sessions[i].paid}
  /\ now \in 0..MaxTime /\ flagged \in BOOLEAN /\ faults \in 0..MaxFaults

\* An URL is one of a checkout of the key's.
UrlOf(k, u) == u \in 1..Len(sessions) /\ sessions[u].key = k

\* The URLs that a row, a client, a request or a webhook has, or has a copy of.
Knows(k, u) ==
  \/ u \in answered[k]
  \/ u = orders[k].url
  \/ \E t \in Tries : u = open[<<k, t>>].copy.url
  \/ \E h \in Hooks : hooks[h].pc = "write" /\ KeyOf(h) = k /\ u = hooks[h].copy.url

UrlsOK(k) == \A u : Knows(k, u) => u = NoUrl \/ UrlOf(k, u)

\* A request that calls the provider has found no URL; the one it is to save is
\* unknown until then, and its own.
CallOK(k, t) ==
  /\ open[<<k, t>>].pc \in {"call", "save", "saveFailed"} => open[<<k, t>>].copy.url = NoUrl
  /\ open[<<k, t>>].pc = "save" =>
       /\ UrlOf(k, open[<<k, t>>].url) /\ ~Knows(k, open[<<k, t>>].url)
       /\ \A v \in Tries \ {t} :
            open[<<k, v>>].pc = "save" => open[<<k, v>>].url # open[<<k, t>>].url
  /\ open[<<k, t>>].pc = "saveFailed" => faults > 0

\* What a webhook is about; it writes none of the statuses of a checkout.
Works(w) ==
  /\ w.pc # "idle" => w.session \in 1..Len(sessions)
  /\ w.pc = "write" => w.copy.status \in {"paid", "cancelled", "refunded"}
  /\ w.pc = "fulfill" \/ (w.pc = "write" /\ w.kind = "paid") => sessions[w.session].paid

HookOK(h) == Works(hooks[h])

\* A buyer pays at an URL that was answered.
PaidOK == \A i \in 1..Len(sessions) : sessions[i].paid => i \in answered[sessions[i].key]

\* The inductive invariant of the rows and of their copies.
IInv ==
  /\ Shapes
  /\ \A k \in Keys : UrlsOK(k) /\ \A t \in Tries : CallOK(k, t)
  /\ \A h \in Hooks : HookOK(h)
  /\ PaidOK

-----------------------------------------------------------------------------
(* Steps of the requests.                                                  *)

\* Checkouts of k are opened, and nothing else happens to any.
Grows(k) ==
  /\ sessions' \in Seq(Session)
  /\ Len(sessions) \in Nat /\ Len(sessions') \in Nat /\ Len(sessions') >= Len(sessions)
  /\ \A i \in 1..Len(sessions) : sessions'[i] = sessions[i]
  /\ \A i \in 1..Len(sessions') : i \notin 1..Len(sessions) =>
       sessions'[i].key = k /\ ~sessions'[i].paid

\* A request goes on as r, leaves the order as o and answers the URLs of A.
Effect(k, t, r, o, A) ==
  /\ open' = [open EXCEPT ![<<k, t>>] = r]
  /\ orders' = [orders EXCEPT ![k] = o]
  /\ answered' = [answered EXCEPT ![k] = @ \cup A]
  /\ Grows(k)
  /\ faults' \in 0..MaxFaults /\ faults' >= faults
  /\ UNCHANGED <<now, hooks, owed, grants, flagged>>

\* What it can do: read, end, go on to the provider, return from there, save.
Reads(k, t, r, o, A) ==
  /\ open[<<k, t>>].pc = "idle"
  /\ r.pc = "decide" /\ r.copy = orders[k] /\ o = orders[k] /\ A = {} /\ sessions' = sessions

Finishes(k, t, r, o, A) ==
  r = Idle /\ o = orders[k] /\ A \subseteq {open[<<k, t>>].copy.url} /\ sessions' = sessions

Decides(k, t, r, o, A) ==
  /\ open[<<k, t>>].pc = "decide" /\ open[<<k, t>>].copy.url = NoUrl
  /\ r.pc = "call" /\ r.copy.url = NoUrl
  /\ o.url = orders[k].url /\ (o = orders[k] \/ o.status = "pending")
  /\ A = {} /\ sessions' = sessions

Returns(k, t, r, o, A) ==
  /\ open[<<k, t>>].pc = "call"
  /\ r.copy = open[<<k, t>>].copy /\ o = orders[k] /\ A = {}
  /\ \/ r.pc = "save" /\ r.url \notin 1..Len(sessions) /\ UrlOf(k, r.url)'
     \/ r.pc = "saveFailed" /\ faults' > 0

Stores(k, t, r, o, A) ==
  /\ open[<<k, t>>].pc = "save"
  /\ r = Idle /\ o.status = "checkout_created" /\ o.url = open[<<k, t>>].url
  /\ A \subseteq {o.url} /\ sessions' = sessions

StoresFailure(k, t, r, o, A) ==
  /\ open[<<k, t>>].pc = "saveFailed"
  /\ r = Idle /\ o.status = "failed" /\ o.url = open[<<k, t>>].copy.url
  /\ A = {} /\ sessions' = sessions

Does(k, t, r, o, A) ==
  /\ Effect(k, t, r, o, A)
  /\ \/ Reads(k, t, r, o, A) \/ Finishes(k, t, r, o, A) \/ Decides(k, t, r, o, A)
     \/ Returns(k, t, r, o, A) \/ Stores(k, t, r, o, A) \/ StoresFailure(k, t, r, o, A)

RequestSteps(k, t) ==
  \/ Read(k, t) \/ Refuse(k, t) \/ Replay(k, t) \/ Begin(k, t)
  \/ ProviderOpens(k, t) \/ ProviderFails(k, t)
  \/ Save(k, t) \/ SaveFailed(k, t) \/ Dies(k, t)

LEMMA Constants ==
  /\ Idle \in Request /\ NoOrder \in Order /\ NoUrl \in Nat
  /\ Unsent \in Request /\ Unsent.pc = "unsent" /\ Unsent.copy.url = NoUrl
  /\ Idle.pc = "idle" /\ Idle.copy.url = NoUrl /\ NoOrder.url = NoUrl /\ NoOrder.status = "none"
BY DEF Idle, Unsent, Request, NoOrder, Order, Statuses, NoUrl

LEMMA Typed ==
  ASSUME Shapes, NEW k \in Keys, NEW t \in Tries
  PROVE  /\ open[<<k, t>>] \in Request /\ orders[k] \in Order /\ answered[k] \in SUBSET Nat
         /\ open[<<k, t>>].copy \in Order /\ open[<<k, t>>].url \in Nat
         /\ open[<<k, t>>].copy.url \in Nat /\ orders[k].url \in Nat
         /\ faults \in 0..MaxFaults /\ faults \in Nat
<1>1. /\ open[<<k, t>>] \in Request /\ orders[k] \in Order /\ answered[k] \in SUBSET Nat
      /\ faults \in 0..MaxFaults /\ faults \in Nat
  BY CheckoutAssumption DEF Shapes
<1>2. open[<<k, t>>].copy \in Order /\ open[<<k, t>>].url \in Nat
  BY <1>1 DEF Request
<1>3. open[<<k, t>>].copy.url \in Nat /\ orders[k].url \in Nat
  BY <1>1, <1>2 DEF Order
<1> QED
  BY <1>1, <1>2, <1>3

\* What is left alone by EXCEPT.
LEMMA Same ==
  ASSUME Shapes, NEW k \in Keys
  PROVE  /\ orders = [orders EXCEPT ![k] = orders[k]]
         /\ answered = [answered EXCEPT ![k] = @ \cup {}]
BY DEF Shapes

LEMMA NoMore ==
  ASSUME Shapes, NEW k \in Keys, sessions' = sessions
  PROVE  Grows(k)
BY DEF Shapes, Grows

LEMMA OneMore ==
  ASSUME Shapes, NEW k \in Keys, sessions' = Append(sessions, [key |-> k, paid |-> FALSE])
  PROVE  /\ Grows(k) /\ Len(sessions') \in Nat /\ Len(sessions') \notin 1..Len(sessions)
         /\ UrlOf(k, Len(sessions))'
<1> DEFINE s == [key |-> k, paid |-> FALSE]
<1>1. sessions \in Seq(Session) /\ s \in Session
  BY DEF Shapes, Session
<1>2. Len(sessions) \in Nat /\ Len(sessions') = Len(sessions) + 1
  BY <1>1
<1>3. \A i \in 1..Len(sessions) : sessions'[i] = sessions[i]
  BY <1>1
<1>4. sessions'[Len(sessions) + 1] = s
  BY <1>1
<1>5. sessions' \in Seq(Session)
  BY <1>1
<1>6. Grows(k)
  BY <1>2, <1>3, <1>4, <1>5 DEF Grows
<1>7. UrlOf(k, Len(sessions))'
  BY <1>2, <1>4 DEF UrlOf
<1> QED
  BY <1>2, <1>6, <1>7

LEMMA FaultCounts ==
  ASSUME Shapes, Fault PROVE faults' \in 0..MaxFaults /\ faults' >= faults /\ faults' > 0
BY CheckoutAssumption DEF Shapes, Fault

LEMMA ReadDoes ==
  ASSUME Shapes, NEW k \in Keys, NEW t \in Tries, Read(k, t)
  PROVE  \E r \in Request, o \in Order, A \in SUBSET Nat : Does(k, t, r, o, A)
<1>1. PICK r : r = [pc |-> "decide", copy |-> orders[k], url |-> NoUrl]
  OBVIOUS
<1>2. r \in Request /\ orders[k] \in Order /\ faults \in 0..MaxFaults /\ faults \in Nat
  BY <1>1, Typed, Constants DEF Request
<1>3. Grows(k)
  BY NoMore DEF Read
<1>4. orders' = [orders EXCEPT ![k] = orders[k]] /\ answered' = [answered EXCEPT ![k] = @ \cup {}]
  BY Same DEF Read
<1>5. Effect(k, t, r, orders[k], {})
  <2>1. open' = [open EXCEPT ![<<k, t>>] = r]
    BY <1>1 DEF Read, Goes
  <2>2. faults' = faults /\ UNCHANGED <<now, hooks, owed, grants, flagged>>
    BY DEF Read
  <2>3. faults' \in 0..MaxFaults /\ faults' >= faults
    BY <1>2, <2>2
  <2> QED
    BY <1>3, <1>4, <2>1, <2>2, <2>3 DEF Effect
<1>6. Reads(k, t, r, orders[k], {})
  BY <1>1, Constants DEF Read, Reads
<1> QED
  BY <1>2, <1>5, <1>6 DEF Does

\* A request ends, and answers at most the URL it had read.
LEMMA EndDoes ==
  ASSUME Shapes, NEW k \in Keys, NEW t \in Tries, Ends(k, t),
         UNCHANGED <<now, orders, sessions, hooks, owed, grants, flagged>>,
         faults' \in 0..MaxFaults, faults' >= faults,
         answered' = answered \/ Answers(k, open[<<k, t>>].copy.url)
  PROVE  \E r \in Request, o \in Order, A \in SUBSET Nat : Does(k, t, r, o, A)
<1>1. PICK A : A = IF answered' = answered THEN {} ELSE {open[<<k, t>>].copy.url}
  OBVIOUS
<1>2. A \in SUBSET Nat /\ A \subseteq {open[<<k, t>>].copy.url} /\ orders[k] \in Order
  BY <1>1, Typed
<1>3. answered' = [answered EXCEPT ![k] = @ \cup A]
  <2>1. CASE answered' = answered
    BY <1>1, <2>1, Same
  <2>2. CASE answered' # answered
    BY <1>1, <2>2 DEF Answers
  <2> QED
    BY <2>1, <2>2
<1>4. Grows(k)
  BY NoMore
<1>5. orders' = [orders EXCEPT ![k] = orders[k]]
  BY Same
<1>6. Effect(k, t, Idle, orders[k], A)
  BY <1>3, <1>4, <1>5 DEF Ends, Effect
<1>7. Finishes(k, t, Idle, orders[k], A)
  BY <1>2 DEF Finishes
<1> QED
  BY <1>2, <1>6, <1>7, Constants DEF Does

LEMMA BeginDoes ==
  ASSUME Shapes, NEW k \in Keys, NEW t \in Tries, Begin(k, t)
  PROVE  \E r \in Request, o \in Order, A \in SUBSET Nat : Does(k, t, r, o, A)
<1>1. PICK c : c = open[<<k, t>>].copy
  OBVIOUS
<1>2. c \in Order /\ orders[k] \in Order /\ faults \in 0..MaxFaults /\ faults \in Nat
  BY <1>1, Typed
<1>3. open[<<k, t>>].pc = "decide" /\ c.url = NoUrl
  BY <1>1 DEF Begin, HasSession
<1>4. Grows(k) /\ answered' = [answered EXCEPT ![k] = @ \cup {}]
      /\ UNCHANGED <<now, hooks, owed, grants, flagged>>
  BY NoMore, Same DEF Begin
<1>9. faults' \in 0..MaxFaults /\ faults' >= faults
  <2>1. faults' = faults
    BY DEF Begin
  <2> QED
    BY <1>2, <2>1
<1>5. CASE c # NoOrder
  <2>1. PICK r : r = [pc |-> "call", copy |-> c, url |-> NoUrl]
    OBVIOUS
  <2>2. r \in Request
    BY <1>2, <2>1, Constants DEF Request
  <2>3. open' = [open EXCEPT ![<<k, t>>] = r] /\ orders' = orders
    BY <1>1, <1>5, <2>1 DEF Begin, Goes
  <2>4. orders' = [orders EXCEPT ![k] = orders[k]]
    BY <2>3, Same
  <2>5. Effect(k, t, r, orders[k], {})
    BY <1>4, <1>9, <2>3, <2>4 DEF Effect
  <2>6. Decides(k, t, r, orders[k], {})
    BY <1>1, <1>3, <2>1 DEF Begin, Decides
  <2> QED
    BY <1>2, <2>2, <2>5, <2>6 DEF Does
<1>6. CASE c = NoOrder /\ orders[k] # NoOrder
  <2>1. Ends(k, t) /\ orders' = orders
    BY <1>1, <1>6 DEF Begin
  <2> QED
    BY <1>4, <1>9, <2>1, EndDoes DEF Begin
<1>7. CASE c = NoOrder /\ orders[k] = NoOrder
  <2>1. PICK o : o = [status |-> "pending", url |-> NoUrl]
    OBVIOUS
  <2>2. PICK r : r = [pc |-> "call", copy |-> o, url |-> NoUrl]
    OBVIOUS
  <2>3. o \in Order
    BY <2>1, Constants DEF Order, Statuses
  <2>4. r \in Request
    BY <2>2, <2>3, Constants DEF Request
  <2>5. orders' = [orders EXCEPT ![k] = o] /\ open' = [open EXCEPT ![<<k, t>>] = r]
    BY <1>1, <1>7, <2>1, <2>2 DEF Begin, Goes
  <2>6. Effect(k, t, r, o, {})
    BY <1>4, <1>9, <2>5 DEF Effect
  <2>7. Decides(k, t, r, o, {})
    BY <1>1, <1>3, <1>7, <2>1, <2>2, Constants DEF Begin, Decides
  <2> QED
    BY <2>3, <2>4, <2>6, <2>7 DEF Does
<1> QED
  BY <1>5, <1>6, <1>7

\* The provider has been called: it opened a checkout or did not, and its URL
\* is known or not.
LEMMA CallDoes ==
  ASSUME Shapes, NEW k \in Keys, NEW t \in Tries, ProviderOpens(k, t) \/ ProviderFails(k, t)
  PROVE  \E r \in Request, o \in Order, A \in SUBSET Nat : Does(k, t, r, o, A)
<1>1. PICK c : c = open[<<k, t>>].copy
  OBVIOUS
<1>2. c \in Order /\ orders[k] \in Order /\ faults \in 0..MaxFaults /\ faults \in Nat
  BY <1>1, Typed
<1>3. open[<<k, t>>].pc = "call" /\ UNCHANGED <<now, orders, answered, hooks, owed, grants, flagged>>
  BY DEF ProviderOpens, ProviderFails
<1>4. orders' = [orders EXCEPT ![k] = orders[k]] /\ answered' = [answered EXCEPT ![k] = @ \cup {}]
  BY <1>3, Same
<1>5. CASE ProviderOpens(k, t)
  <2>1. PICK r : r = [pc |-> "save", copy |-> c, url |-> Len(sessions')]
    OBVIOUS
  <2>2. sessions' = Append(sessions, [key |-> k, paid |-> FALSE]) /\ faults' = faults
        /\ open' = [open EXCEPT ![<<k, t>>] = r]
    BY <1>1, <1>5, <2>1 DEF ProviderOpens, Goes
  <2>3. /\ Grows(k) /\ Len(sessions') \in Nat /\ Len(sessions') \notin 1..Len(sessions)
        /\ UrlOf(k, Len(sessions))'
    BY <2>2, OneMore
  <2>4. r \in Request
    BY <1>2, <2>1, <2>3 DEF Request
  <2>5. Effect(k, t, r, orders[k], {})
    <3>1. faults' \in 0..MaxFaults /\ faults' >= faults
      BY <1>2, <2>2
    <3>2. open' = [open EXCEPT ![<<k, t>>] = r] /\ Grows(k)
      BY <2>2, <2>3
    <3> QED
      BY <1>3, <1>4, <3>1, <3>2 DEF Effect
  <2>6. r.pc = "save" /\ r.copy = c /\ r.url = Len(sessions')
    BY <2>1
  <2>7. UrlOf(k, r.url)'
    BY <2>1, <2>3 DEF UrlOf
  <2>8. Returns(k, t, r, orders[k], {})
    BY <1>1, <1>3, <2>3, <2>6, <2>7 DEF Returns
  <2> QED
    BY <1>2, <2>4, <2>5, <2>8 DEF Does
<1>6. CASE ProviderFails(k, t)
  <2>1. PICK r : r = [pc |-> "saveFailed", copy |-> c, url |-> NoUrl]
    OBVIOUS
  <2>2. /\ sessions' = sessions \/ sessions' = Append(sessions, [key |-> k, paid |-> FALSE])
        /\ Fault /\ open' = [open EXCEPT ![<<k, t>>] = r]
    BY <1>1, <1>6, <2>1 DEF ProviderFails, Goes
  <2>3. Grows(k)
    BY <2>2, OneMore, NoMore
  <2>4. faults' \in 0..MaxFaults /\ faults' >= faults /\ faults' > 0
    BY <2>2, FaultCounts
  <2>5. r \in Request
    BY <1>2, <2>1, Constants DEF Request
  <2>6. Effect(k, t, r, orders[k], {})
    <3>1. open' = [open EXCEPT ![<<k, t>>] = r]
      BY <2>2
    <3> QED
      BY <1>3, <1>4, <2>3, <2>4, <3>1 DEF Effect
  <2>7. Returns(k, t, r, orders[k], {})
    BY <1>1, <1>3, <2>1, <2>4 DEF Returns
  <2> QED
    BY <1>2, <2>5, <2>6, <2>7 DEF Does
<1> QED
  BY <1>5, <1>6

\* The copy is stored with its URL, which is answered or not.
LEMMA StoreDoes ==
  ASSUME Shapes, NEW k \in Keys, NEW t \in Tries, open[<<k, t>>].pc = "save", Ends(k, t),
         orders' = [orders EXCEPT ![k] = [status |-> "checkout_created", url |-> open[<<k, t>>].url]],
         answered' = answered \/ Answers(k, open[<<k, t>>].url),
         UNCHANGED <<now, sessions, hooks, owed, grants, flagged>>,
         faults' \in 0..MaxFaults, faults' >= faults
  PROVE  \E r \in Request, o \in Order, A \in SUBSET Nat : Does(k, t, r, o, A)
<1>1. PICK o : o = [status |-> "checkout_created", url |-> open[<<k, t>>].url]
  OBVIOUS
<1>2. PICK A : A = IF answered' = answered THEN {} ELSE {o.url}
  OBVIOUS
<1>3. open[<<k, t>>].url \in Nat
  BY Typed
<1>4. o \in Order /\ o.url \in Nat /\ o.url = open[<<k, t>>].url /\ o.status = "checkout_created"
  BY <1>1, <1>3 DEF Order, Statuses
<1>5. A \in SUBSET Nat /\ A \subseteq {o.url}
  BY <1>2, <1>4
<1>6. answered' = [answered EXCEPT ![k] = @ \cup A]
  <2>1. CASE answered' = answered
    BY <1>2, <2>1, Same
  <2>2. CASE answered' # answered
    BY <1>2, <1>4, <2>2 DEF Answers
  <2> QED
    BY <2>1, <2>2
<1>7. Grows(k)
  BY NoMore
<1>8. Effect(k, t, Idle, o, A)
  BY <1>1, <1>6, <1>7 DEF Ends, Effect
<1>9. Stores(k, t, Idle, o, A)
  BY <1>4, <1>5 DEF Stores
<1> QED
  BY <1>4, <1>5, <1>8, <1>9, Constants DEF Does

LEMMA FailureDoes ==
  ASSUME Shapes, NEW k \in Keys, NEW t \in Tries, SaveFailed(k, t)
  PROVE  \E r \in Request, o \in Order, A \in SUBSET Nat : Does(k, t, r, o, A)
<1>1. PICK o : o = [open[<<k, t>>].copy EXCEPT !.status = "failed"]
  OBVIOUS
<1>2. open[<<k, t>>].copy \in Order /\ faults \in 0..MaxFaults /\ faults \in Nat
  BY Typed
<1>3. o \in Order /\ o.status = "failed" /\ o.url = open[<<k, t>>].copy.url
  BY <1>1, <1>2 DEF Order, Statuses
<1>4. Grows(k) /\ answered' = [answered EXCEPT ![k] = @ \cup {}]
  BY NoMore, Same DEF SaveFailed
<1>5. Effect(k, t, Idle, o, {})
  <2>1. orders' = [orders EXCEPT ![k] = o] /\ open' = [open EXCEPT ![<<k, t>>] = Idle]
    BY <1>1 DEF SaveFailed, Ends
  <2>2. faults' = faults /\ UNCHANGED <<now, hooks, owed, grants, flagged>>
    BY DEF SaveFailed
  <2>3. faults' \in 0..MaxFaults /\ faults' >= faults
    BY <1>2, <2>2
  <2> QED
    BY <1>4, <2>1, <2>2, <2>3 DEF Effect
<1>6. StoresFailure(k, t, Idle, o, {})
  BY <1>3 DEF SaveFailed, StoresFailure
<1> QED
  BY <1>3, <1>5, <1>6, Constants DEF Does

LEMMA RequestDoes ==
  ASSUME Shapes, NEW k \in Keys, NEW t \in Tries, RequestSteps(k, t)
  PROVE  \E r \in Request, o \in Order, A \in SUBSET Nat : Does(k, t, r, o, A)
<1>1. faults \in 0..MaxFaults /\ faults \in Nat
  BY Typed
<1>2. CASE Refuse(k, t)
  <2>1. faults' \in 0..MaxFaults /\ faults' >= faults
    BY <1>1, <1>2 DEF Refuse
  <2> QED
    BY <1>2, <2>1, EndDoes DEF Refuse
<1>3. CASE Replay(k, t)
  <2>1. faults' \in 0..MaxFaults /\ faults' >= faults
    BY <1>1, <1>3 DEF Replay
  <2> QED
    BY <1>3, <2>1, EndDoes DEF Replay
<1>4. CASE Save(k, t)
  <2>1. faults' \in 0..MaxFaults /\ faults' >= faults
    BY <1>1, <1>4 DEF Save
  <2> QED
    BY <1>4, <2>1, StoreDoes DEF Save
<1>5. CASE Dies(k, t)
  <2>1. /\ faults' \in 0..MaxFaults /\ faults' >= faults /\ Ends(k, t)
        /\ UNCHANGED <<now, sessions, answered, hooks, owed, grants, flagged>>
    BY <1>5, FaultCounts DEF Dies
  <2>2. CASE orders' = orders
    BY <2>1, <2>2, EndDoes
  <2>3. CASE orders' # orders
    <3>1. /\ open[<<k, t>>].pc = "save"
          /\ orders' = [orders EXCEPT
               ![k] = [status |-> "checkout_created", url |-> open[<<k, t>>].url]]
      BY <1>5, <2>3 DEF Dies
    <3> QED
      BY <2>1, <3>1, StoreDoes
  <2> QED
    BY <2>2, <2>3
<1> QED
  BY <1>2, <1>3, <1>4, <1>5, ReadDoes, BeginDoes, CallDoes, FailureDoes DEF RequestSteps

-----------------------------------------------------------------------------
(* What the rows and the copies know after a request's step.               *)

\* The parts of a step, key by key.
ByKey(k, t, r, o, A) ==
  /\ open'[<<k, t>>] = r /\ orders'[k] = o /\ answered'[k] = answered[k] \cup A
  /\ \A j \in Keys, v \in Tries : j # k \/ v # t => open'[<<j, v>>] = open[<<j, v>>]
  /\ \A j \in Keys : j # k => orders'[j] = orders[j] /\ answered'[j] = answered[j]
  /\ \A j \in Keys : answered[j] \subseteq answered'[j]

LEMMA StepByKey ==
  ASSUME Shapes, NEW k \in Keys, NEW t \in Tries, NEW r \in Request, NEW o \in Order,
         NEW A \in SUBSET Nat, Effect(k, t, r, o, A)
  PROVE  ByKey(k, t, r, o, A)
<1>1. /\ open \in [Keys \X Tries -> Request] /\ orders \in [Keys -> Order]
      /\ answered \in [Keys -> SUBSET Nat]
  BY DEF Shapes
<1>2. /\ open' = [open EXCEPT ![<<k, t>>] = r] /\ orders' = [orders EXCEPT ![k] = o]
      /\ answered' = [answered EXCEPT ![k] = @ \cup A]
  BY DEF Effect
<1>3. open'[<<k, t>>] = r /\ orders'[k] = o /\ answered'[k] = answered[k] \cup A
  BY <1>1, <1>2
<1>4. ASSUME NEW j \in Keys, NEW v \in Tries, j # k \/ v # t
      PROVE  open'[<<j, v>>] = open[<<j, v>>]
  BY <1>1, <1>2, <1>4
<1>5. \A j \in Keys : j # k => orders'[j] = orders[j] /\ answered'[j] = answered[j]
  BY <1>1, <1>2
<1>6. \A j \in Keys : answered[j] \subseteq answered'[j]
  BY <1>3, <1>5
<1> QED
  BY <1>3, <1>4, <1>5, <1>6 DEF ByKey

LEMMA UrlsStay ==
  ASSUME NEW k \in Keys, Grows(k)
  PROVE  \A j, u : UrlOf(j, u) => UrlOf(j, u)'
BY DEF Grows, UrlOf

LEMMA ShapesKept ==
  ASSUME Shapes, NEW k \in Keys, NEW t \in Tries, NEW r \in Request, NEW o \in Order,
         NEW A \in SUBSET Nat, Effect(k, t, r, o, A)
  PROVE  Shapes'
<1>1. open' \in [Keys \X Tries -> Request]
  BY DEF Shapes, Effect
<1>2. orders' \in [Keys -> Order]
  BY DEF Shapes, Effect
<1>3. answered' \in [Keys -> SUBSET Nat]
  BY DEF Shapes, Effect
<1>4. owed' \subseteq {i \in 1..Len(sessions') : sessions'[i].paid}
  BY DEF Shapes, Effect, Grows
<1>5. sessions' \in Seq(Session) /\ faults' \in 0..MaxFaults
  BY DEF Effect, Grows
<1>6. hooks' \in [Hooks -> Hook] /\ now' \in 0..MaxTime /\ flagged' \in BOOLEAN
  BY DEF Shapes, Effect
<1> QED
  BY <1>1, <1>2, <1>3, <1>4, <1>5, <1>6 DEF Shapes

\* What a webhook is about stays what it is.
LEMMA KeysStay ==
  ASSUME NEW h \in Hooks, NEW k \in Keys, Works(hooks[h]), hooks[h].pc # "idle", Grows(k), hooks' = hooks
  PROVE  KeyOf(h)' = KeyOf(h)
BY DEF Works, Grows, KeyOf

\* A step teaches nobody an URL, but the request that saves its own.
LEMMA Learns ==
  ASSUME IInv, NEW k \in Keys, NEW t \in Tries, NEW r \in Request, NEW o \in Order,
         NEW A \in SUBSET Nat, Does(k, t, r, o, A), NEW j \in Keys, NEW u, u # NoUrl, Knows(j, u)'
  PROVE  Knows(j, u) \/ (j = k /\ Stores(k, t, r, o, A) /\ u = open[<<k, t>>].url)
<1>1. Shapes /\ Effect(k, t, r, o, A)
  BY DEF IInv, Does
<1>9. ByKey(k, t, r, o, A)
  BY <1>1, StepByKey
<1>2. PICK q : q = open[<<k, t>>]
  OBVIOUS
<1>3. \/ u = r.copy.url \/ u = o.url \/ u \in A
      => u = orders[k].url \/ u = q.copy.url \/ (Stores(k, t, r, o, A) /\ u = q.url)
  <2>1. CASE Reads(k, t, r, o, A)
    BY <2>1 DEF Reads
  <2>2. CASE Finishes(k, t, r, o, A)
    BY <1>2, <2>2, Constants DEF Finishes
  <2>3. CASE Decides(k, t, r, o, A)
    BY <2>3 DEF Decides
  <2>4. CASE Returns(k, t, r, o, A)
    BY <1>2, <2>4 DEF Returns
  <2>5. CASE Stores(k, t, r, o, A)
    BY <1>2, <2>5, Constants DEF Stores
  <2>6. CASE StoresFailure(k, t, r, o, A)
    BY <1>2, <2>6, Constants DEF StoresFailure
  <2> QED
    BY <2>1, <2>2, <2>3, <2>4, <2>5, <2>6 DEF Does
<1>4. u = orders[k].url \/ u = q.copy.url => Knows(k, u)
  BY <1>2 DEF Knows
<1>5. CASE u \in answered'[j]
  <2>1. u \in answered[j] \/ (j = k /\ u \in A)
    BY <1>5, <1>9 DEF ByKey
  <2> QED
    BY <1>2, <1>3, <1>4, <2>1 DEF Knows
<1>6. CASE u = orders'[j].url
  <2>1. u = orders[j].url \/ (j = k /\ u = o.url)
    BY <1>6, <1>9 DEF ByKey
  <2> QED
    BY <1>2, <1>3, <1>4, <2>1 DEF Knows
<1>7. ASSUME NEW v \in Tries, u = open'[<<j, v>>].copy.url
      PROVE  Knows(j, u) \/ (j = k /\ Stores(k, t, r, o, A) /\ u = open[<<k, t>>].url)
  <2>1. u = open[<<j, v>>].copy.url \/ (j = k /\ u = r.copy.url)
    BY <1>7, <1>9 DEF ByKey
  <2> QED
    BY <1>2, <1>3, <1>4, <2>1 DEF Knows
<1>8. ASSUME NEW h \in Hooks, hooks'[h].pc = "write", KeyOf(h)' = j, u = hooks'[h].copy.url
      PROVE  Knows(j, u)
  <2>1. hooks' = hooks /\ Grows(k) /\ Works(hooks[h])
    BY <1>1 DEF Effect, IInv, HookOK
  <2>2. KeyOf(h)' = KeyOf(h)
    BY <1>8, <2>1, KeysStay
  <2> QED
    BY <1>8, <2>1, <2>2 DEF Knows
<1> QED
  BY <1>5, <1>6, <1>7, <1>8 DEF Knows

LEMMA RequestKeeps ==
  ASSUME IInv, NEW k \in Keys, NEW t \in Tries, NEW r \in Request, NEW o \in Order,
         NEW A \in SUBSET Nat, Does(k, t, r, o, A)
  PROVE  IInv'
<1>1. Shapes /\ Effect(k, t, r, o, A) /\ Grows(k)
  BY DEF IInv, Does, Effect
<1>9. ByKey(k, t, r, o, A)
  BY <1>1, StepByKey
<1>2. Shapes'
  BY <1>1, ShapesKept
<1>3. \A j, u : UrlOf(j, u) => UrlOf(j, u)'
  BY <1>1, UrlsStay
<1>4. ASSUME NEW j \in Keys, NEW u, Knows(j, u)' PROVE u = NoUrl \/ UrlOf(j, u)'
  <2>1. CASE u = NoUrl
    BY <2>1
  <2>2. CASE u # NoUrl /\ Knows(j, u)
    BY <1>3, <2>2 DEF IInv, UrlsOK
  <2>3. CASE j = k /\ Stores(k, t, r, o, A) /\ u = open[<<k, t>>].url
    <3>1. UrlOf(k, open[<<k, t>>].url)
      BY <2>3 DEF Stores, IInv, CallOK
    <3> QED
      BY <1>3, <2>3, <3>1
  <2> QED
    BY <1>4, <2>1, <2>2, <2>3, Learns
<1>5. ASSUME NEW j \in Keys, NEW v \in Tries, j # k \/ v # t PROVE CallOK(j, v)'
  <2>1. PICK q : q = open[<<j, v>>]
    OBVIOUS
  <2>2. open'[<<j, v>>] = q
    BY <1>9, <1>5, <2>1 DEF ByKey
  <2>3. CallOK(j, v)
    BY DEF IInv
  <2>4. q.pc \in {"call", "save", "saveFailed"} => q.copy.url = NoUrl
    BY <2>1, <2>3 DEF CallOK
  <2>5. q.pc = "saveFailed" => faults' > 0
    <3>1. faults \in Nat /\ faults' \in Nat /\ faults' >= faults
      BY <1>1, CheckoutAssumption DEF Shapes, Effect
    <3> QED
      BY <2>1, <2>3, <3>1 DEF CallOK
  <2>6. ASSUME q.pc = "save"
        PROVE  /\ UrlOf(j, q.url)' /\ ~Knows(j, q.url)'
               /\ \A w \in Tries \ {v} :
                    open'[<<j, w>>].pc = "save" => open'[<<j, w>>].url # q.url
    <3>1. UrlOf(j, q.url) /\ ~Knows(j, q.url)
          /\ \A w \in Tries \ {v} : open[<<j, w>>].pc = "save" => open[<<j, w>>].url # q.url
      BY <2>1, <2>3, <2>6 DEF CallOK
    <3>2. q.url # NoUrl
      BY <3>1 DEF UrlOf, NoUrl
    <3>3. ~(j = k /\ Stores(k, t, r, o, A) /\ q.url = open[<<k, t>>].url)
      BY <1>5, <3>1 DEF Stores
    <3>4. ~Knows(j, q.url)'
      BY <3>1, <3>2, <3>3, Learns
    <3>5. ASSUME NEW w \in Tries \ {v}, open'[<<j, w>>].pc = "save"
          PROVE  open'[<<j, w>>].url # q.url
      <4>1. CASE j # k \/ w # t
        <5>1. open'[<<j, w>>] = open[<<j, w>>]
          BY <1>9, <4>1 DEF ByKey
        <5> QED
          BY <3>1, <3>5, <5>1
      <4>2. CASE j = k /\ w = t
        <5>1. open'[<<j, w>>] = r
          BY <1>9, <4>2 DEF ByKey
        <5>2. Returns(k, t, r, o, A)
          BY <3>5, <5>1, Constants DEF Does, Reads, Finishes, Decides, Stores, StoresFailure
        <5>3. r.url \notin 1..Len(sessions)
          BY <3>5, <5>1, <5>2 DEF Returns
        <5> QED
          BY <3>1, <5>1, <5>3 DEF UrlOf
      <4> QED
        BY <4>1, <4>2
    <3> QED
      BY <1>3, <3>1, <3>4, <3>5
  <2> QED
    BY <2>2, <2>4, <2>5, <2>6 DEF CallOK
<1>6. CallOK(k, t)'
  <2>1. open'[<<k, t>>] = r
    BY <1>9 DEF ByKey
  <2>2. CASE Returns(k, t, r, o, A)
    <3>1. CallOK(k, t)
      BY DEF IInv
    <3>2. r.copy.url = NoUrl
      BY <2>2, <3>1 DEF Returns, CallOK
    <3>3. ASSUME r.pc = "save"
          PROVE  /\ UrlOf(k, r.url)' /\ ~Knows(k, r.url)'
                 /\ \A w \in Tries \ {t} :
                      open'[<<k, w>>].pc = "save" => open'[<<k, w>>].url # r.url
      <4>1. r.url \notin 1..Len(sessions) /\ UrlOf(k, r.url)'
        BY <2>2, <3>3 DEF Returns
      <4>2. r.url # NoUrl
        BY <4>1 DEF UrlOf, NoUrl
      <4>3. ~Knows(k, r.url)
        BY <4>1, <4>2 DEF IInv, UrlsOK, UrlOf
      <4>4. ~Stores(k, t, r, o, A)
        BY <2>2 DEF Returns, Stores
      <4>5. ~Knows(k, r.url)'
        BY <4>2, <4>3, <4>4, Learns
      <4>6. ASSUME NEW w \in Tries \ {t}, open'[<<k, w>>].pc = "save"
            PROVE  open'[<<k, w>>].url # r.url
        <5>1. open'[<<k, w>>] = open[<<k, w>>]
          BY <1>9 DEF ByKey
        <5>2. UrlOf(k, open[<<k, w>>].url)
          BY <4>6, <5>1 DEF IInv, CallOK
        <5> QED
          BY <4>1, <5>1, <5>2 DEF UrlOf
      <4> QED
        BY <4>1, <4>5, <4>6
    <3>4. r.pc = "save" \/ (r.pc = "saveFailed" /\ faults' > 0)
      BY <2>2 DEF Returns
    <3> QED
      BY <2>1, <3>2, <3>3, <3>4 DEF CallOK
  <2>3. CASE ~Returns(k, t, r, o, A)
    <3>1. r.pc \in {"idle", "decide"} \/ (r.pc = "call" /\ r.copy.url = NoUrl)
      BY <2>3, Constants DEF Does, Reads, Finishes, Decides, Stores, StoresFailure
    <3> QED
      BY <2>1, <3>1 DEF CallOK
  <2> QED
    BY <2>2, <2>3
<1>7. ASSUME NEW h \in Hooks PROVE HookOK(h)'
  <2>1. Works(hooks[h]) /\ hooks' = hooks
    BY <1>1 DEF IInv, HookOK, Effect
  <2> QED
    BY <1>1, <2>1 DEF HookOK, Works, Grows
<1>8. PaidOK'
  <2> SUFFICES ASSUME NEW i \in 1..Len(sessions'), sessions'[i].paid
               PROVE  i \in answered'[sessions'[i].key]
    BY DEF PaidOK
  <2>1. i \in 1..Len(sessions) /\ sessions'[i] = sessions[i]
    BY <1>1 DEF Grows
  <2>2. sessions[i] \in Session
    BY <1>1, <2>1 DEF Shapes
  <2>3. sessions[i].key \in Keys /\ i \in answered[sessions[i].key]
    BY <2>1, <2>2 DEF IInv, PaidOK, Session
  <2> QED
    BY <1>9, <2>1, <2>3 DEF ByKey
<1> QED
  BY <1>2, <1>4, <1>5, <1>6, <1>7, <1>8 DEF IInv, UrlsOK


-----------------------------------------------------------------------------
(* Steps of the webhooks, and of the rest.                                 *)

\* A webhook goes on as w and leaves the order of k as o.
ByHook(h, w, k, o) ==
  /\ hooks' = [hooks EXCEPT ![h] = w] /\ orders' = [orders EXCEPT ![k] = o]
  /\ UNCHANGED <<now, open, sessions, answered, faults>>
  /\ owed' \subseteq owed /\ flagged' \in BOOLEAN
  /\ Works(w)
  /\ \/ o.url = orders[k].url
     \/ hooks[h].pc = "write" /\ KeyOf(h) = k /\ o.url = hooks[h].copy.url
  /\ w.pc = "write" =>
       /\ sessions[w.session].key = k /\ w.copy.url = orders[k].url /\ w.session \in answered[k]
  /\ o.status \in {orders[k].status, "paid", "cancelled", "refunded", "fulfilled"}

HookSteps(h) ==
  \/ \E i \in DOMAIN sessions : \E kind \in Kinds[sessions[i].key] : Receive(h, kind, i)
  \/ WriteOrder(h) \/ Fulfill(h) \/ Adjust(h)

LEMMA NoHookWorks == NoHook \in Hook /\ NoHook.pc = "idle" /\ Works(NoHook)
BY Constants DEF NoHook, Hook, Works

LEMMA SessionTyped ==
  ASSUME Shapes, NEW i \in 1..Len(sessions)
  PROVE  sessions[i] \in Session /\ sessions[i].key \in Keys /\ i \in Nat
<1>1. sessions \in Seq(Session)
  BY DEF Shapes
<1>2. sessions[i] \in Session
  BY <1>1
<1> QED
  BY <1>2 DEF Session

LEMMA ReceiveDoes ==
  ASSUME IInv, NEW h \in Hooks, NEW i \in DOMAIN sessions, NEW kind \in Kinds[sessions[i].key],
         Receive(h, kind, i)
  PROVE  \E w \in Hook, k \in Keys, o \in Order : ByHook(h, w, k, o)
<1> DEFINE k == sessions[i].key
           done == kind \in {"paid", "cancelled"} /\ orders[k].status \in Paid
<1>1. Shapes /\ i \in 1..Len(sessions)
  BY DEF IInv, Shapes
<1>2. k \in Keys /\ i \in Nat
  BY <1>1, SessionTyped
<1>3. orders[k] \in Order /\ kind \in {"paid", "cancelled", "refunded", "disputed"}
  <2>1. Kinds[k] \in SUBSET {"paid", "cancelled", "refunded", "disputed"}
    BY <1>2, CheckoutAssumption
  <2> QED
    BY <1>1, <1>2, <2>1 DEF Shapes
<1>4. i \in answered[k] /\ (kind = "paid" => sessions[i].paid)
  BY <1>1 DEF Receive, Announced, IInv, PaidOK, Shapes
<1>5. PICK c : c = [orders[k] EXCEPT !.status = StatusFor(kind)]
  OBVIOUS
<1>6. c \in Order /\ c.status \in {"paid", "cancelled", "refunded"} /\ c.url = orders[k].url
  BY <1>3, <1>5 DEF Order, Statuses, Paid, StatusFor
<1>7. PICK w : w = IF done THEN [pc |-> "fulfill", kind |-> kind, session |-> i, copy |-> NoOrder]
                   ELSE [pc |-> "write", kind |-> kind, session |-> i, copy |-> c]
  OBVIOUS
<1>8. /\ w \in Hook /\ w.session = i /\ w.kind = kind
      /\ (w.pc = "fulfill" /\ done) \/ (w.pc = "write" /\ w.copy = c)
  BY <1>2, <1>3, <1>6, <1>7, Constants DEF Hook
<1>9. done => kind = "paid"
  BY DEF Receive
<1>10. Works(w)
  BY <1>1, <1>4, <1>6, <1>8, <1>9 DEF Works
<1>11. hooks' = [hooks EXCEPT ![h] = w]
  BY <1>5, <1>7 DEF Receive
<1>12. UNCHANGED <<now, orders, open, sessions, answered, owed, flagged, faults>>
  BY DEF Receive
<1>13. orders' = [orders EXCEPT ![k] = orders[k]]
  BY <1>1, <1>2, <1>12, Same
<1>14. w.pc = "write" =>
         sessions[w.session].key = k /\ w.copy.url = orders[k].url /\ w.session \in answered[k]
  BY <1>4, <1>6, <1>8
<1>15. owed' \subseteq owed /\ flagged' \in BOOLEAN
  BY <1>1, <1>12 DEF Shapes
<1>16. ByHook(h, w, k, orders[k])
  BY <1>10, <1>11, <1>12, <1>13, <1>14, <1>15 DEF ByHook
<1> QED
  BY <1>2, <1>3, <1>8, <1>16

\* A webhook at work has its key.
LEMMA WorkTyped ==
  ASSUME IInv, NEW h \in Hooks, hooks[h].pc # "idle"
  PROVE  /\ Works(hooks[h]) /\ hooks[h].session \in 1..Len(sessions) /\ KeyOf(h) \in Keys
         /\ hooks[h] \in Hook /\ orders[KeyOf(h)] \in Order
<1>1. Works(hooks[h]) /\ hooks[h].session \in 1..Len(sessions)
  BY DEF IInv, HookOK, Works
<1>2. KeyOf(h) \in Keys
  BY <1>1, SessionTyped DEF IInv, KeyOf
<1> QED
  BY <1>1, <1>2 DEF IInv, Shapes

LEMMA WriteDoes ==
  ASSUME IInv, NEW h \in Hooks, WriteOrder(h)
  PROVE  \E w \in Hook, k \in Keys, o \in Order : ByHook(h, w, k, o)
<1>1. PICK q : q = hooks[h]
  OBVIOUS
<1>2. q.pc = "write" /\ Works(q) /\ KeyOf(h) \in Keys /\ q \in Hook /\ q.copy \in Order
  BY <1>1, WorkTyped DEF WriteOrder, Hook
<1>3. q.copy.status \in {"paid", "cancelled", "refunded"} /\ q.session \in 1..Len(sessions)
      /\ (q.kind = "paid" => sessions[q.session].paid)
  BY <1>2 DEF Works
<1>4. PICK w : w = IF q.kind = "cancelled" THEN NoHook
                   ELSE [q EXCEPT !.pc = IF q.kind = "paid" THEN "fulfill" ELSE "adjust",
                                  !.copy = NoOrder]
  OBVIOUS
<1>5. w \in Hook /\ w.pc # "write" /\ Works(w)
  <2>1. CASE q.kind = "cancelled"
    BY <1>4, <2>1, NoHookWorks
  <2>2. CASE q.kind # "cancelled"
    <3>1. w \in Hook /\ w.session = q.session /\ w.pc = IF q.kind = "paid" THEN "fulfill" ELSE "adjust"
      BY <1>2, <1>4, <2>2, Constants DEF Hook
    <3> QED
      BY <1>3, <3>1 DEF Works
  <2> QED
    BY <2>1, <2>2
<1>6. hooks \in [Hooks -> Hook]
  BY DEF IInv, Shapes
<1>7. hooks' = [hooks EXCEPT ![h] = w]
  BY <1>1, <1>2, <1>4, <1>6 DEF WriteOrder, HookEnds, Hook
<1>8. orders' = [orders EXCEPT ![KeyOf(h)] = q.copy]
      /\ UNCHANGED <<now, open, sessions, answered, owed, flagged, faults>>
  BY <1>1 DEF WriteOrder
<1>9. owed' \subseteq owed /\ flagged' \in BOOLEAN
  BY <1>8 DEF IInv, Shapes
<1>10. ByHook(h, w, KeyOf(h), q.copy)
  BY <1>1, <1>2, <1>3, <1>5, <1>7, <1>8, <1>9 DEF ByHook
<1> QED
  BY <1>2, <1>5, <1>10

LEMMA FulfillDoes ==
  ASSUME IInv, NEW h \in Hooks, Fulfill(h)
  PROVE  \E w \in Hook, k \in Keys, o \in Order : ByHook(h, w, k, o)
<1>1. PICK k : k = KeyOf(h)
  OBVIOUS
<1>2. k \in Keys /\ orders[k] \in Order /\ Shapes
  BY <1>1, WorkTyped DEF Fulfill, IInv
<1>3. PICK o : o = IF orders[k].status = "paid" THEN [orders[k] EXCEPT !.status = "fulfilled"]
                   ELSE orders[k]
  OBVIOUS
<1>4. o \in Order /\ o.url = orders[k].url /\ o.status \in {orders[k].status, "fulfilled"}
  BY <1>2, <1>3 DEF Order, Statuses, Paid
<1>5. orders' = [orders EXCEPT ![k] = o]
  <2>1. CASE orders[k].status = "paid"
    <3>1. orders' = [orders EXCEPT ![k].status = "fulfilled"]
      BY <1>1, <2>1 DEF Fulfill
    <3> QED
      BY <1>3, <2>1, <3>1
  <2>2. CASE orders[k].status # "paid"
    <3>1. orders' = orders
      BY <1>1, <2>2 DEF Fulfill
    <3> QED
      BY <1>2, <1>3, <2>2, <3>1, Same
  <2> QED
    BY <2>1, <2>2
<1>6. hooks' = [hooks EXCEPT ![h] = NoHook] /\ owed' \subseteq owed
      /\ UNCHANGED <<now, open, sessions, answered, flagged, faults>>
  BY DEF Fulfill, HookEnds
<1>7. flagged' \in BOOLEAN
  BY <1>2, <1>6 DEF Shapes
<1>8. ByHook(h, NoHook, k, o)
  BY <1>4, <1>5, <1>6, <1>7, NoHookWorks DEF ByHook
<1> QED
  BY <1>2, <1>4, <1>8, NoHookWorks

LEMMA AdjustDoes ==
  ASSUME IInv, NEW h \in Hooks, Adjust(h)
  PROVE  \E w \in Hook, k \in Keys, o \in Order : ByHook(h, w, k, o)
<1>1. PICK k : k = KeyOf(h)
  OBVIOUS
<1>2. k \in Keys /\ orders[k] \in Order /\ Shapes
  BY <1>1, WorkTyped DEF Adjust, IInv
<1>3. hooks' = [hooks EXCEPT ![h] = NoHook]
      /\ UNCHANGED <<now, orders, open, sessions, answered, owed, faults>>
      /\ flagged' \in BOOLEAN
  BY <1>2 DEF Adjust, HookEnds, Shapes
<1>4. orders' = [orders EXCEPT ![k] = orders[k]]
  BY <1>2, <1>3, Same
<1>5. ByHook(h, NoHook, k, orders[k])
  BY <1>3, <1>4, NoHookWorks DEF ByHook
<1> QED
  BY <1>2, <1>5, NoHookWorks

LEMMA HookDoes ==
  ASSUME IInv, NEW h \in Hooks, HookSteps(h)
  PROVE  \E w \in Hook, k \in Keys, o \in Order : ByHook(h, w, k, o)
BY ReceiveDoes, WriteDoes, FulfillDoes, AdjustDoes DEF HookSteps

\* A webhook teaches nobody an URL.
LEMMA HookLearns ==
  ASSUME IInv, NEW h \in Hooks, NEW w \in Hook, NEW k \in Keys, NEW o \in Order,
         ByHook(h, w, k, o), NEW j \in Keys, NEW u, Knows(j, u)'
  PROVE  Knows(j, u)
<1>1. orders \in [Keys -> Order] /\ hooks \in [Hooks -> Hook]
  BY DEF IInv, Shapes
<1>2. /\ hooks' = [hooks EXCEPT ![h] = w] /\ orders' = [orders EXCEPT ![k] = o]
      /\ UNCHANGED <<open, sessions, answered>>
  BY DEF ByHook
<1>3. Knows(k, o.url)
  BY DEF ByHook, Knows
<1>4. CASE u \in answered'[j] \/ \E t \in Tries : u = open'[<<j, t>>].copy.url
  BY <1>2, <1>4 DEF Knows
<1>5. CASE u = orders'[j].url
  <2>1. u = orders[j].url \/ (j = k /\ u = o.url)
    BY <1>1, <1>2, <1>5
  <2> QED
    BY <1>3, <2>1 DEF Knows
<1>6. ASSUME NEW g \in Hooks, hooks'[g].pc = "write", KeyOf(g)' = j, u = hooks'[g].copy.url
      PROVE  Knows(j, u)
  <2>1. CASE g = h
    <3>1. hooks'[g] = w
      BY <1>1, <1>2, <2>1
    <3>2. sessions[w.session].key = k /\ w.copy.url = orders[k].url
      BY <1>6, <3>1 DEF ByHook
    <3>3. j = k
      BY <1>2, <1>6, <3>1, <3>2 DEF KeyOf
    <3> QED
      BY <1>6, <3>1, <3>2, <3>3 DEF Knows
  <2>2. CASE g # h
    <3>1. hooks'[g] = hooks[g]
      BY <1>1, <1>2, <2>2
    <3>2. KeyOf(g)' = KeyOf(g)
      BY <1>2, <3>1 DEF KeyOf
    <3> QED
      BY <1>6, <3>1, <3>2 DEF Knows
  <2> QED
    BY <2>1, <2>2
<1> QED
  BY <1>4, <1>5, <1>6 DEF Knows

\* The invariant holds still when no URL becomes known, requests and checkouts
\* are left alone, and the webhooks are in order.
LEMMA RestKeeps ==
  ASSUME IInv, Shapes', UNCHANGED <<open, faults>>,
         Len(sessions') = Len(sessions),
         \A i \in 1..Len(sessions) : sessions'[i].key = sessions[i].key,
         \A j \in Keys : \A u : Knows(j, u)' => Knows(j, u),
         \A h \in Hooks : HookOK(h)', PaidOK'
  PROVE  IInv'
<1>1. \A j, u : UrlOf(j, u) <=> UrlOf(j, u)'
  BY DEF UrlOf
<1>2. \A k \in Keys : UrlsOK(k)'
  BY <1>1 DEF IInv, UrlsOK
<1>3. ASSUME NEW k \in Keys, NEW t \in Tries PROVE CallOK(k, t)'
  <2>1. CallOK(k, t)
    BY DEF IInv
  <2>2. open[<<k, t>>].pc = "save" =>
          UrlOf(k, open[<<k, t>>].url)' /\ ~Knows(k, open[<<k, t>>].url)'
    BY <1>1, <2>1 DEF CallOK
  <2> QED
    BY <2>1, <2>2 DEF CallOK
<1> QED
  BY <1>2, <1>3 DEF IInv

LEMMA HookKeeps ==
  ASSUME IInv, NEW h \in Hooks, NEW w \in Hook, NEW k \in Keys, NEW o \in Order,
         ByHook(h, w, k, o)
  PROVE  IInv'
<1>1. Shapes /\ hooks \in [Hooks -> Hook]
  BY DEF IInv, Shapes
<1>2. /\ hooks' = [hooks EXCEPT ![h] = w] /\ orders' = [orders EXCEPT ![k] = o]
      /\ UNCHANGED <<now, open, sessions, answered, faults>>
      /\ owed' \subseteq owed /\ flagged' \in BOOLEAN /\ Works(w)
  BY DEF ByHook
<1>3. Shapes'
  <2>1. orders' \in [Keys -> Order] /\ hooks' \in [Hooks -> Hook]
    BY <1>1, <1>2 DEF Shapes
  <2>2. owed' \subseteq {i \in 1..Len(sessions') : sessions'[i].paid}
    BY <1>1, <1>2 DEF Shapes
  <2>3. open' \in [Keys \X Tries -> Request] /\ sessions' \in Seq(Session)
        /\ answered' \in [Keys -> SUBSET Nat] /\ now' \in 0..MaxTime /\ faults' \in 0..MaxFaults
    BY <1>1, <1>2 DEF Shapes
  <2> QED
    BY <1>2, <2>1, <2>2, <2>3 DEF Shapes
<1>4. ASSUME NEW g \in Hooks PROVE HookOK(g)'
  <2>1. hooks'[g] = hooks[g] \/ hooks'[g] = w
    BY <1>1, <1>2
  <2>2. Works(hooks[g]) /\ sessions' = sessions
    BY <1>2 DEF IInv, HookOK
  <2> QED
    BY <1>2, <2>1, <2>2 DEF HookOK, Works
<1>5. PaidOK'
  BY <1>2 DEF IInv, PaidOK
<1>6. \A j \in Keys : \A u : Knows(j, u)' => Knows(j, u)
  BY HookLearns
<1>7. UNCHANGED <<open, sessions, faults>>
  BY <1>2
<1> QED
  BY <1>3, <1>4, <1>5, <1>6, <1>7, RestKeeps

\* A payment changes its checkout, and what is owed.
LEMMA PayDoes ==
  ASSUME IInv, NEW i \in DOMAIN sessions, Pay(i)
  PROVE  /\ i \in 1..Len(sessions) /\ i \in answered[sessions[i].key]
         /\ sessions' \in Seq(Session) /\ Len(sessions') = Len(sessions)
         /\ \A j \in 1..Len(sessions) :
              /\ sessions'[j].key = sessions[j].key
              /\ sessions'[j].paid <=> sessions[j].paid \/ j = i
         /\ owed' = owed \cup {i}
         /\ UNCHANGED <<now, orders, open, answered, hooks, grants, flagged, faults>>
<1>1. sessions \in Seq(Session) /\ i \in 1..Len(sessions)
  BY DEF IInv, Shapes
<1>2. PICK s : s = [sessions[i] EXCEPT !.paid = TRUE]
  OBVIOUS
<1>3. sessions[i] \in Session
  BY <1>1
<1>4. s \in Session /\ s.key = sessions[i].key /\ s.paid = TRUE
  BY <1>2, <1>3 DEF Session
<1>5. sessions' = [sessions EXCEPT ![i] = s]
  BY <1>2 DEF Pay
<1>6. sessions' \in Seq(Session) /\ Len(sessions') = Len(sessions)
      /\ \A j \in 1..Len(sessions) : sessions'[j] = IF j = i THEN s ELSE sessions[j]
  BY <1>1, <1>4, <1>5
<1>7. ASSUME NEW j \in 1..Len(sessions) PROVE sessions[j].paid \in BOOLEAN
  <2>1. sessions[j] \in Session
    BY <1>1
  <2> QED
    BY <2>1 DEF Session
<1>8. \A j \in 1..Len(sessions) :
        /\ sessions'[j].key = sessions[j].key
        /\ sessions'[j].paid <=> sessions[j].paid \/ j = i
  BY <1>4, <1>6, <1>7
<1>9. /\ i \in answered[sessions[i].key] /\ owed' = owed \cup {i}
      /\ UNCHANGED <<now, orders, open, answered, hooks, grants, flagged, faults>>
  BY DEF Pay
<1> QED
  BY <1>1, <1>6, <1>8, <1>9

LEMMA PayKeeps ==
  ASSUME IInv, NEW i \in DOMAIN sessions, Pay(i)
  PROVE  IInv' /\ \A j \in Keys : \A u : Knows(j, u)' => Knows(j, u)
<1>1. /\ i \in 1..Len(sessions) /\ i \in answered[sessions[i].key]
      /\ sessions' \in Seq(Session) /\ Len(sessions') = Len(sessions)
      /\ \A j \in 1..Len(sessions) :
           /\ sessions'[j].key = sessions[j].key
           /\ sessions'[j].paid <=> sessions[j].paid \/ j = i
      /\ owed' = owed \cup {i}
      /\ UNCHANGED <<now, orders, open, answered, hooks, grants, flagged, faults>>
  BY PayDoes
<1>2. Shapes'
  <2>1. owed' \subseteq {j \in 1..Len(sessions') : sessions'[j].paid}
    BY <1>1 DEF IInv, Shapes
  <2> QED
    BY <1>1, <2>1 DEF IInv, Shapes
<1>3. ASSUME NEW h \in Hooks PROVE HookOK(h)' /\ (hooks[h].pc # "idle" => KeyOf(h)' = KeyOf(h))
  <2>1. Works(hooks[h]) /\ hooks' = hooks
    BY <1>1 DEF IInv, HookOK
  <2>2. Works(hooks[h])'
    BY <1>1, <2>1 DEF Works
  <2> QED
    BY <1>1, <2>1, <2>2 DEF HookOK, Works, KeyOf
<1>4. PaidOK'
  BY <1>1 DEF IInv, PaidOK
<1>5. ASSUME NEW j \in Keys, NEW u, Knows(j, u)' PROVE Knows(j, u)
  <2>1. UNCHANGED <<orders, open, answered, hooks>>
    BY <1>1
  <2> QED
    BY <1>3, <1>5, <2>1 DEF Knows
<1>6. UNCHANGED <<open, faults>> /\ \A j \in 1..Len(sessions) : sessions'[j].key = sessions[j].key
  BY <1>1
<1> QED
  BY <1>1, <1>2, <1>3, <1>4, <1>5, <1>6, RestKeeps

\* What is left: the clock, the flag, the plan.
Aside == ResolveFlag \/ CancelPlan \/ Tick

LEMMA AsideDoes ==
  ASSUME Shapes, Aside \/ UNCHANGED vars
  PROVE  /\ UNCHANGED <<orders, open, sessions, answered, hooks, owed, grants, faults>>
         /\ now' \in 0..MaxTime /\ flagged' \in BOOLEAN
<1>1. now \in 0..MaxTime /\ flagged \in BOOLEAN
  BY DEF Shapes
<1>2. CASE ResolveFlag
  BY <1>1, <1>2 DEF ResolveFlag
<1>3. CASE CancelPlan
  BY <1>1, <1>3 DEF CancelPlan
<1>4. CASE Tick
  BY <1>1, <1>4, CheckoutAssumption DEF Tick
<1>5. CASE UNCHANGED vars
  BY <1>1, <1>5 DEF vars
<1> QED
  BY <1>2, <1>3, <1>4, <1>5 DEF Aside

LEMMA AsideKeeps ==
  ASSUME IInv, Aside \/ UNCHANGED vars
  PROVE  IInv'
<1>1. /\ UNCHANGED <<orders, open, sessions, answered, hooks, owed, grants, faults>>
      /\ now' \in 0..MaxTime /\ flagged' \in BOOLEAN
  BY AsideDoes DEF IInv
<1>2. Shapes'
  BY <1>1 DEF IInv, Shapes
<1>3. \A j \in Keys : \A u : Knows(j, u)' => Knows(j, u)
  BY <1>1 DEF Knows, KeyOf
<1>4. \A h \in Hooks : HookOK(h)'
  BY <1>1 DEF IInv, HookOK, Works
<1>5. PaidOK'
  BY <1>1 DEF IInv, PaidOK
<1> QED
  BY <1>1, <1>2, <1>3, <1>4, <1>5, RestKeeps

\* Every step is one of these.
LEMMA Steps ==
  ASSUME Next
  PROVE  \/ \E k \in Keys, t \in Tries : RequestSteps(k, t)
         \/ \E i \in DOMAIN sessions : Pay(i)
         \/ \E h \in Hooks : HookSteps(h)
         \/ Aside
BY DEF Next, RequestSteps, HookSteps, Aside

LEMMA InitKeeps == Init => IInv
<1> SUFFICES ASSUME Init PROVE IInv
  OBVIOUS
<1>0. /\ open \in [Keys \X Tries -> {Idle, Unsent}]
      /\ orders = [k \in Keys |-> NoOrder] /\ answered = [k \in Keys |-> {}]
      /\ hooks = [h \in Hooks |-> NoHook]
  BY DEF Init
<1>1. Shapes
  <2>1. sessions \in Seq(Session) /\ owed \subseteq {i \in 1..Len(sessions) : sessions[i].paid}
    <3>1. sessions = <<>> /\ owed = {}
      BY DEF Init
    <3>2. <<>> \in Seq(Session)
      OBVIOUS
    <3> QED
      BY <3>1, <3>2
  <2>2. now \in 0..MaxTime /\ faults \in 0..MaxFaults
    <3>1. now = 0 /\ faults = 0
      BY DEF Init
    <3> QED
      BY <3>1, CheckoutAssumption
  <2>4. flagged \in BOOLEAN
    BY DEF Init
  <2>3. orders \in [Keys -> Order] /\ open \in [Keys \X Tries -> Request]
        /\ answered \in [Keys -> SUBSET Nat] /\ hooks \in [Hooks -> Hook]
    BY <1>0, Constants, NoHookWorks
  <2> QED
    BY <2>1, <2>2, <2>3, <2>4 DEF Shapes
<1>2. \A k \in Keys, t \in Tries : open[<<k, t>>].pc \in {"unsent", "idle"} /\ open[<<k, t>>].copy.url = NoUrl
  <2> SUFFICES ASSUME NEW k \in Keys, NEW t \in Tries
               PROVE  open[<<k, t>>].pc \in {"unsent", "idle"} /\ open[<<k, t>>].copy.url = NoUrl
    OBVIOUS
  <2>1. open[<<k, t>>] \in {Idle, Unsent}
    BY <1>0
  <2> QED
    BY <2>1, Constants
<1>3. \A k \in Keys : orders[k].url = NoUrl /\ answered[k] = {}
  BY <1>0, Constants
<1>4. \A h \in Hooks : hooks[h].pc = "idle"
  BY NoHookWorks DEF Init
<1>5. ASSUME NEW k \in Keys, NEW u, Knows(k, u) PROVE u = NoUrl
  <2>1. ~\E h \in Hooks : hooks[h].pc = "write"
    BY <1>4
  <2>2. u \notin answered[k]
    BY <1>3
  <2>3. u = orders[k].url \/ \E t \in Tries : u = open[<<k, t>>].copy.url
    BY <1>5, <2>1, <2>2 DEF Knows
  <2>4. \A t \in Tries : open[<<k, t>>].copy.url = NoUrl
    BY <1>2
  <2>5. orders[k].url = NoUrl
    BY <1>3
  <2> QED
    BY <2>3, <2>4, <2>5
<1>6. \A k \in Keys, t \in Tries : CallOK(k, t)
  BY <1>2 DEF CallOK
<1>7. \A h \in Hooks : HookOK(h)
  BY <1>4 DEF HookOK, Works
<1>8. PaidOK
  BY DEF Init, PaidOK
<1> QED
  BY <1>1, <1>5, <1>6, <1>7, <1>8 DEF IInv, UrlsOK

LEMMA NextKeeps == IInv /\ [Next]_vars => IInv'
<1> SUFFICES ASSUME IInv, [Next]_vars PROVE IInv'
  OBVIOUS
<1>1. CASE \E k \in Keys, t \in Tries : RequestSteps(k, t)
  <2>1. PICK k \in Keys, t \in Tries : RequestSteps(k, t)
    BY <1>1
  <2>2. PICK r \in Request, o \in Order, A \in SUBSET Nat : Does(k, t, r, o, A)
    BY <2>1, RequestDoes DEF IInv
  <2> QED
    BY <2>2, RequestKeeps
<1>2. CASE \E i \in DOMAIN sessions : Pay(i)
  BY <1>2, PayKeeps
<1>3. CASE \E h \in Hooks : HookSteps(h)
  <2>1. PICK h \in Hooks : HookSteps(h)
    BY <1>3
  <2>2. PICK w \in Hook, k \in Keys, o \in Order : ByHook(h, w, k, o)
    BY <2>1, HookDoes
  <2> QED
    BY <2>2, HookKeeps
<1>4. CASE Aside \/ UNCHANGED vars
  BY <1>4, AsideKeeps
<1> QED
  BY <1>1, <1>2, <1>3, <1>4, Steps

LEMMA Invariant == Spec => []IInv
<1>1. Init => IInv
  BY InitKeeps
<1>2. IInv /\ [Next]_vars => IInv'
  BY NextKeeps
<1> QED
  BY <1>1, <1>2, PTL DEF Spec

LEMMA TypesHold == IInv => TypeOK
<1> SUFFICES ASSUME IInv PROVE TypeOK
  OBVIOUS
<1>1. Shapes /\ Len(sessions) \in Nat /\ DOMAIN sessions = 1..Len(sessions)
  BY DEF IInv, Shapes
<1>2. ASSUME NEW k \in Keys
      PROVE  /\ orders[k].status \in
                  {"none", "pending", "failed", "checkout_created", "cancelled", "refunded"} \cup Paid
             /\ orders[k].url \in 0..Len(sessions)
             /\ \A i \in answered[k] \ {NoUrl} : i \in DOMAIN sessions /\ sessions[i].key = k
  <2>1. orders[k] \in Order
    BY <1>1 DEF Shapes
  <2>2. \A u : Knows(k, u) => u = NoUrl \/ UrlOf(k, u)
    BY DEF IInv, UrlsOK
  <2>3. orders[k].url = NoUrl \/ UrlOf(k, orders[k].url)
    BY <2>2 DEF Knows
  <2>4. orders[k].url \in 0..Len(sessions)
    BY <1>1, <2>3 DEF UrlOf, NoUrl
  <2>5. \A i \in answered[k] \ {NoUrl} : i \in DOMAIN sessions /\ sessions[i].key = k
    BY <1>1, <2>2 DEF Knows, UrlOf
  <2> QED
    BY <2>1, <2>4, <2>5 DEF Order, Statuses
<1>3. \A r \in Keys \X Tries : open[r].pc \in {"unsent", "idle", "decide", "call", "save", "saveFailed"}
  BY <1>1 DEF Shapes, Request
<1>4. \A h \in Hooks : hooks[h].pc \in {"idle", "write", "fulfill", "adjust"}
  BY <1>1 DEF Shapes, Hook
<1>5. owed \subseteq {i \in DOMAIN sessions : sessions[i].paid}
  BY <1>1 DEF Shapes
<1> QED
  BY <1>1, <1>2, <1>3, <1>4, <1>5 DEF TypeOK, Shapes

\* Whatever requests and webhooks overlap and wherever they fail, every variable
\* has its type, and an order, a client and a webhook only know URLs of checkouts
\* of their own key (checkout.go:84, payment_order_processor.go:23).
THEOREM CheckoutTypes == Spec => []TypeOK
<1>1. Spec => []IInv
  BY Invariant
<1>2. IInv => TypeOK
  BY TypesHold
<1> QED
  BY <1>1, <1>2, PTL

-----------------------------------------------------------------------------
(* What is paid is owed or given.                                          *)

Grant == [key : Keys, entitlement : {"credits", "editorial_studio"}, source : {"fulfillment"},
          status : {"active", "revoked"}, starts : Nat, expires : Nat \cup {Never}]

Given(k) == \E g \in grants : g.key = k
Charged(k) == \E i \in 1..Len(sessions) : sessions[i].key = k /\ sessions[i].paid

OwedOrGiven == \A i \in 1..Len(sessions) : sessions[i].paid => i \in owed \/ Given(sessions[i].key)
GivenOnce == \A g \in grants : Charged(g.key) /\ \A f \in grants : f.key = g.key => f = g
FulfilledIsGiven == \A k \in Keys : orders[k].status = "fulfilled" => Given(k)

\* The invariant of the goods: it needs to know that an order that is
\* fulfilled already, which a payment does not wait for, has its grant.
GInv == grants \subseteq Grant /\ OwedOrGiven /\ GivenOnce /\ FulfilledIsGiven

\* Payments stay payments.
LEMMA ChargedStays ==
  ASSUME \/ \E k \in Keys : Grows(k)
         \/ /\ Len(sessions') = Len(sessions)
            /\ \A j \in 1..Len(sessions) :
                 sessions'[j].key = sessions[j].key /\ (sessions[j].paid => sessions'[j].paid),
         NEW j, Charged(j)
  PROVE  Charged(j)'
<1>1. PICK i \in 1..Len(sessions) : sessions[i].key = j /\ sessions[i].paid
  BY DEF Charged
<1>2. i \in 1..Len(sessions') /\ sessions'[i].key = j /\ sessions'[i].paid
  BY <1>1 DEF Grows
<1> QED
  BY <1>2 DEF Charged

\* No request fulfills an order.
LEMMA OrderOfRequest ==
  ASSUME NEW k \in Keys, NEW t \in Tries, NEW r \in Request, NEW o \in Order,
         NEW A \in SUBSET Nat, Does(k, t, r, o, A)
  PROVE  /\ o = orders[k] \/ o.status \in {"pending", "checkout_created", "failed"}
         /\ o.status = "checkout_created" => o = orders[k] \/ Stores(k, t, r, o, A)
         /\ o.status = "failed" => o = orders[k] \/ StoresFailure(k, t, r, o, A)
BY DEF Does, Reads, Finishes, Decides, Returns, Stores, StoresFailure

LEMMA RequestGives ==
  ASSUME IInv, GInv, NEW k \in Keys, NEW t \in Tries, NEW r \in Request, NEW o \in Order,
         NEW A \in SUBSET Nat, Does(k, t, r, o, A)
  PROVE  GInv'
<1>1. Shapes /\ Effect(k, t, r, o, A)
  BY DEF IInv, Does
<1>2. ByKey(k, t, r, o, A)
  BY <1>1, StepByKey
<1>3. Grows(k) /\ owed' = owed /\ grants' = grants
  BY <1>1 DEF Effect
<1>4. \A j : Given(j) <=> Given(j)'
  BY <1>3 DEF Given
<1>5. OwedOrGiven'
  <2> SUFFICES ASSUME NEW i \in 1..Len(sessions'), sessions'[i].paid
               PROVE  i \in owed' \/ \E g \in grants' : g.key = sessions'[i].key
    BY DEF OwedOrGiven, Given
  <2>1. i \in 1..Len(sessions) /\ sessions'[i] = sessions[i]
    BY <1>3 DEF Grows
  <2>2. i \in owed \/ Given(sessions[i].key)
    BY <1>3, <2>1 DEF GInv, OwedOrGiven
  <2> QED
    BY <1>3, <2>1, <2>2 DEF Given
<1>6. GivenOnce'
  <2> SUFFICES ASSUME NEW g \in grants'
               PROVE  Charged(g.key)' /\ \A f \in grants' : f.key = g.key => f = g
    BY DEF GivenOnce
  <2>1. Charged(g.key) /\ \A f \in grants : f.key = g.key => f = g
    BY <1>3 DEF GInv, GivenOnce
  <2> QED
    BY <1>3, <2>1, ChargedStays
<1>7. FulfilledIsGiven'
  <2> SUFFICES ASSUME NEW j \in Keys, orders'[j].status = "fulfilled" PROVE Given(j)'
    BY DEF FulfilledIsGiven
  <2>1. orders'[j] = orders[j] \/ (j = k /\ orders'[j] = o)
    BY <1>2 DEF ByKey
  <2>2. o = orders[k] \/ o.status # "fulfilled"
    BY OrderOfRequest
  <2>3. orders[j].status = "fulfilled"
    BY <2>1, <2>2
  <2> QED
    BY <1>4, <2>3 DEF GInv, FulfilledIsGiven
<1> QED
  BY <1>3, <1>5, <1>6, <1>7 DEF GInv

LEMMA PayGives ==
  ASSUME IInv, GInv, NEW i \in DOMAIN sessions, Pay(i)
  PROVE  GInv'
<1>1. /\ Len(sessions') = Len(sessions)
      /\ \A j \in 1..Len(sessions) :
           /\ sessions'[j].key = sessions[j].key
           /\ sessions'[j].paid <=> sessions[j].paid \/ j = i
      /\ owed' = owed \cup {i}
      /\ UNCHANGED <<orders, grants>>
  BY PayDoes
<1>2. \A j : Given(j) <=> Given(j)'
  BY <1>1 DEF Given
<1>3. OwedOrGiven'
  BY <1>1, <1>2 DEF GInv, OwedOrGiven
<1>4. GivenOnce'
  BY <1>1, ChargedStays DEF GInv, GivenOnce
<1>5. FulfilledIsGiven'
  BY <1>1, <1>2 DEF GInv, FulfilledIsGiven
<1> QED
  BY <1>1, <1>3, <1>4, <1>5 DEF GInv

\* The invariant follows for a step that leaves payments and grants alone, and
\* fulfills no order.
LEMMA SameGoods ==
  ASSUME GInv, UNCHANGED <<sessions, owed, grants>>,
         \A k \in Keys : orders'[k] = orders[k] \/ orders'[k].status # "fulfilled"
  PROVE  GInv'
<1>1. OwedOrGiven' /\ GivenOnce'
  BY DEF GInv, OwedOrGiven, GivenOnce, Given, Charged
<1>2. FulfilledIsGiven'
  BY DEF GInv, FulfilledIsGiven, Given
<1> QED
  BY <1>1, <1>2 DEF GInv

LEMMA GrantTyped ==
  ASSUME IInv, NEW k \in Keys PROVE GrantOf(k) \in Grant /\ GrantOf(k).key = k
<1>1. now \in Nat /\ now + Period \in Nat
  BY CheckoutAssumption DEF IInv, Shapes
<1> QED
  BY <1>1 DEF GrantOf, Grant

LEMMA FulfillGives ==
  ASSUME IInv, GInv, NEW h \in Hooks, Fulfill(h)
  PROVE  GInv'
<1>1. PICK k : k = KeyOf(h)
  OBVIOUS
<1>2. PICK s : s = hooks[h].session
  OBVIOUS
<1>3. hooks[h].pc = "fulfill" /\ sessions' = sessions
  BY DEF Fulfill
<1>4. /\ k \in Keys /\ s \in 1..Len(sessions) /\ sessions[s].key = k /\ sessions[s].paid
      /\ orders[k] \in Order
  BY <1>1, <1>2, <1>3, WorkTyped DEF Works, KeyOf
<1>5. Charged(k)
  BY <1>4 DEF Charged
<1>6. orders \in [Keys -> Order]
  BY DEF IInv, Shapes
<1>7. CASE orders[k].status = "paid"
  <2>1. /\ orders' = [orders EXCEPT ![k].status = "fulfilled"]
        /\ grants' = IF \E g \in grants : g.key = k THEN grants ELSE grants \cup {GrantOf(k)}
        /\ owed' = owed \ {s}
    BY <1>1, <1>2, <1>7 DEF Fulfill, Paid
  <2>2. GrantOf(k) \in Grant /\ GrantOf(k).key = k
    BY <1>4, GrantTyped
  <2>3. grants' = IF Given(k) THEN grants ELSE grants \cup {GrantOf(k)}
    BY <2>1 DEF Given
  <2>4. grants' \subseteq Grant /\ Given(k)' /\ \A j : Given(j) => Given(j)'
    BY <2>2, <2>3 DEF GInv, Given
  <2>5. OwedOrGiven'
    BY <1>3, <1>4, <2>1, <2>4 DEF GInv, OwedOrGiven
  <2>6. GivenOnce'
    <3>1. \A j : Charged(j) => Charged(j)'
      BY <1>3 DEF Charged
    <3>2. CASE Given(k)
      BY <2>3, <3>1, <3>2 DEF GInv, GivenOnce
    <3>3. CASE ~Given(k)
      BY <1>5, <2>2, <2>3, <3>1, <3>3 DEF GInv, GivenOnce, Given
    <3> QED
      BY <3>2, <3>3
  <2>7. FulfilledIsGiven'
    <3>1. \A j \in Keys : j # k => orders'[j] = orders[j]
      BY <1>6, <2>1
    <3> QED
      BY <2>4, <3>1 DEF GInv, FulfilledIsGiven
  <2> QED
    BY <2>4, <2>5, <2>6, <2>7 DEF GInv
<1>8. CASE orders[k].status # "paid"
  <2>1. /\ orders' = orders /\ grants' = grants
        /\ owed' = IF orders[k].status = "fulfilled" THEN owed \ {s} ELSE owed
    BY <1>1, <1>2, <1>8 DEF Fulfill, Paid
  <2>2. orders[k].status = "fulfilled" => Given(k)
    BY <1>4 DEF GInv, FulfilledIsGiven
  <2>3. OwedOrGiven'
    BY <1>3, <1>4, <2>1, <2>2 DEF GInv, OwedOrGiven, Given
  <2>4. GivenOnce' /\ FulfilledIsGiven'
    BY <1>3, <2>1 DEF GInv, GivenOnce, FulfilledIsGiven, Given, Charged
  <2> QED
    BY <2>1, <2>3, <2>4 DEF GInv
<1> QED
  BY <1>7, <1>8

LEMMA AdjustGives ==
  ASSUME IInv, GInv, NEW h \in Hooks, Adjust(h)
  PROVE  GInv'
<1> DEFINE Off(g) == IF g.key = KeyOf(h) THEN [g EXCEPT !.status = "revoked"] ELSE g
<1>1. UNCHANGED <<orders, sessions, owed>> /\ grants' \in {{Off(g) : g \in grants}, grants}
  BY DEF Adjust
<1>2. CASE grants' = grants
  BY <1>1, <1>2, SameGoods
<1>3. CASE grants' = {Off(g) : g \in grants}
  <2>1. \A g \in grants : Off(g) \in Grant /\ Off(g).key = g.key
    BY DEF GInv, Grant
  <2>2. grants' \subseteq Grant /\ \A j : Given(j) <=> Given(j)'
    BY <1>3, <2>1 DEF Given
  <2>3. OwedOrGiven' /\ FulfilledIsGiven'
    BY <1>1, <2>2 DEF GInv, OwedOrGiven, FulfilledIsGiven
  <2>4. ASSUME NEW g \in grants' PROVE Charged(g.key)' /\ \A f \in grants' : f.key = g.key => f = g
    <3>1. PICK a \in grants : g = Off(a)
      BY <1>3
    <3>2. Charged(g.key) /\ sessions' = sessions
      BY <1>1, <2>1, <3>1 DEF GInv, GivenOnce
    <3>3. ASSUME NEW f \in grants', f.key = g.key PROVE f = g
      <4>1. PICK b \in grants : f = Off(b)
        BY <1>3
      <4>2. b = a
        BY <2>1, <3>1, <3>3, <4>1 DEF GInv, GivenOnce
      <4> QED
        BY <3>1, <4>1, <4>2
    <3> QED
      BY <3>2, <3>3 DEF Charged
  <2> QED
    BY <2>2, <2>3, <2>4 DEF GInv, GivenOnce
<1> QED
  BY <1>1, <1>2, <1>3

LEMMA HookGives ==
  ASSUME IInv, GInv, NEW h \in Hooks, HookSteps(h)
  PROVE  GInv'
<1>1. ASSUME NEW i \in DOMAIN sessions, NEW kind, Receive(h, kind, i) PROVE GInv'
  <2>1. UNCHANGED <<orders, sessions, owed, grants>>
    BY <1>1 DEF Receive
  <2> QED
    BY <2>1, SameGoods
<1>2. CASE WriteOrder(h)
  <2>1. orders' = [orders EXCEPT ![KeyOf(h)] = hooks[h].copy] /\ UNCHANGED <<sessions, owed, grants>>
    BY <1>2 DEF WriteOrder
  <2>2. hooks[h].copy.status # "fulfilled"
    BY <1>2, WorkTyped DEF WriteOrder, Works
  <2>3. orders \in [Keys -> Order]
    BY DEF IInv, Shapes
  <2>4. \A k \in Keys : orders'[k] = orders[k] \/ orders'[k] = hooks[h].copy
    BY <2>1, <2>3
  <2> QED
    BY <2>1, <2>2, <2>4, SameGoods
<1> QED
  BY <1>1, <1>2, FulfillGives, AdjustGives DEF HookSteps

LEMMA NextGives == IInv /\ GInv /\ [Next]_vars => GInv'
<1> SUFFICES ASSUME IInv, GInv, [Next]_vars PROVE GInv'
  OBVIOUS
<1>1. CASE \E k \in Keys, t \in Tries : RequestSteps(k, t)
  <2>1. PICK k \in Keys, t \in Tries : RequestSteps(k, t)
    BY <1>1
  <2>2. PICK r \in Request, o \in Order, A \in SUBSET Nat : Does(k, t, r, o, A)
    BY <2>1, RequestDoes DEF IInv
  <2> QED
    BY <2>2, RequestGives
<1>2. CASE \E i \in DOMAIN sessions : Pay(i)
  BY <1>2, PayGives
<1>3. CASE \E h \in Hooks : HookSteps(h)
  BY <1>3, HookGives
<1>4. CASE Aside \/ UNCHANGED vars
  <2>1. UNCHANGED <<orders, sessions, owed, grants>>
    BY <1>4, AsideDoes DEF IInv
  <2> QED
    BY <2>1, SameGoods
<1> QED
  BY <1>1, <1>2, <1>3, <1>4, Steps

LEMMA InitGives == Init => GInv
<1> SUFFICES ASSUME Init PROVE GInv
  OBVIOUS
<1>1. grants = {} /\ sessions = <<>>
  BY DEF Init
<1>2. \A k \in Keys : orders[k].status # "fulfilled"
  <2>1. NoOrder.status # "fulfilled"
    BY Constants
  <2> QED
    BY <2>1 DEF Init
<1> QED
  BY <1>1, <1>2 DEF GInv, OwedOrGiven, GivenOnce, FulfilledIsGiven

\* Whatever is saved over a paid order, by however many requests and webhooks, and
\* whatever fails: its payment stays owed until its goods are given, and they are
\* given once and never without a payment (checkout.go:176,
\* payment_order_processor.go:61, fulfillment.go:212).
THEOREM PaymentsAreGiven == Spec => []PaymentIsGiven
<1>1. Init => IInv /\ GInv
  BY InitKeeps, InitGives
<1>2. IInv /\ GInv /\ [Next]_vars => (IInv /\ GInv)'
  BY NextKeeps, NextGives
<1>3. IInv /\ GInv => PaymentIsGiven
  <2> SUFFICES ASSUME IInv, GInv PROVE PaymentIsGiven
    OBVIOUS
  <2>1. DOMAIN sessions = 1..Len(sessions)
    BY DEF IInv, Shapes
  <2>2. \A k \in Keys : \A i \in Charges(k) : i \in owed \/ \E g \in grants : g.key = k
    BY <2>1 DEF GInv, OwedOrGiven, Given, Charges, Opened
  <2>3. \A g \in grants : Charges(g.key) # {} /\ \A f \in grants : f.key = g.key => f = g
    BY <2>1 DEF GInv, GivenOnce, Charged, Charges, Opened
  <2> QED
    BY <2>2, <2>3 DEF PaymentIsGiven
<1> QED
  BY <1>1, <1>2, <1>3, PTL DEF Spec

-----------------------------------------------------------------------------
(* Who can take a paid order back.                                         *)

LEMMA OpenedFinite ==
  ASSUME Shapes, NEW k
  PROVE  IsFiniteSet(Opened(k)) /\ Cardinality(Opened(k)) \in Nat
         /\ Opened(k) = {i \in 1..Len(sessions) : sessions[i].key = k}
<1>1. DOMAIN sessions = 1..Len(sessions) /\ Len(sessions) \in Nat
  BY DEF Shapes
<1>2. IsFiniteSet(1..Len(sessions))
  BY <1>1, FS_Interval
<1>3. Opened(k) = {i \in 1..Len(sessions) : sessions[i].key = k}
  BY <1>1 DEF Opened
<1> QED
  BY <1>2, <1>3, FS_Subset, FS_CardinalityType

LEMMA OpenedGrows ==
  ASSUME Shapes, Shapes', NEW j, NEW k \in Keys, Grows(k)
  PROVE  /\ Opened(j) \subseteq Opened(j)' /\ Cardinality(Opened(j))' \in Nat
         /\ Cardinality(Opened(j))' >= Cardinality(Opened(j))
<1>1. Opened(j) = {i \in 1..Len(sessions) : sessions[i].key = j}
      /\ IsFiniteSet(Opened(j))
  BY OpenedFinite
<1>2. Opened(j)' = {i \in 1..Len(sessions') : sessions'[i].key = j}
      /\ IsFiniteSet(Opened(j)') /\ Cardinality(Opened(j)') \in Nat
  <2> DEFINE S == sessions'
  <2>1. DOMAIN S = 1..Len(S) /\ Len(S) \in Nat
    BY DEF Shapes
  <2>2. IsFiniteSet(1..Len(S))
    BY <2>1, FS_Interval
  <2>3. Opened(j)' = {i \in 1..Len(S) : S[i].key = j}
    BY <2>1 DEF Opened
  <2> QED
    BY <2>2, <2>3, FS_Subset, FS_CardinalityType
<1>3. Opened(j) \subseteq Opened(j)'
  BY <1>1, <1>2 DEF Grows
<1> QED
  BY <1>1, <1>2, <1>3, FS_Subset

\* Two checkouts of a key are two.
LEMMA TwoOpened ==
  ASSUME Shapes, NEW k, NEW a \in Opened(k)
  PROVE  /\ Cardinality(Opened(k)) >= 1
         /\ \A b \in Opened(k) : b # a => Cardinality(Opened(k)) >= 2
<1>1. IsFiniteSet(Opened(k)) /\ Cardinality(Opened(k)) \in Nat
  BY OpenedFinite
<1>2. /\ IsFiniteSet(Opened(k) \ {a})
      /\ Cardinality(Opened(k) \ {a}) = Cardinality(Opened(k)) - 1
  BY <1>1, FS_RemoveElement
<1>3. Cardinality(Opened(k) \ {a}) \in Nat
  BY <1>2, FS_CardinalityType
<1>4. ASSUME NEW b \in Opened(k), b # a PROVE Cardinality(Opened(k)) >= 2
  <2>1. Cardinality((Opened(k) \ {a}) \ {b}) = Cardinality(Opened(k) \ {a}) - 1
        /\ IsFiniteSet((Opened(k) \ {a}) \ {b})
    BY <1>2, <1>4, FS_RemoveElement
  <2>2. Cardinality((Opened(k) \ {a}) \ {b}) \in Nat
    BY <2>1, FS_CardinalityType
  <2> QED
    BY <1>1, <1>2, <1>3, <2>1, <2>2
<1> QED
  BY <1>1, <1>2, <1>3, <1>4

\* A payment of k was processed; the order was taken back, by rivals.
Processed(k) == \E i \in 1..Len(sessions) : sessions[i].key = k /\ sessions[i].paid /\ i \notin owed
TakenBack(k) == Processed(k) /\ orders[k].status \in {"failed", "checkout_created"}
Rivals(k) == Cardinality(Opened(k)) + faults >= 2
TInv == \A k \in Keys : TakenBack(k) => Rivals(k)

LEMMA RequestTakesBack ==
  ASSUME IInv, IInv', TInv, NEW k \in Keys, NEW t \in Tries, NEW r \in Request, NEW o \in Order,
         NEW A \in SUBSET Nat, Does(k, t, r, o, A)
  PROVE  TInv'
<1>1. Shapes /\ Shapes' /\ Effect(k, t, r, o, A)
  BY DEF IInv, Does
<1>2. ByKey(k, t, r, o, A)
  BY <1>1, StepByKey
<1>3. Grows(k) /\ owed' = owed /\ faults' >= faults
  BY <1>1 DEF Effect
<1>4. faults \in Nat /\ faults' \in Nat
  BY <1>1, CheckoutAssumption DEF Shapes
<1> SUFFICES ASSUME NEW j \in Keys, TakenBack(j)' PROVE Rivals(j)'
  BY DEF TInv
<1>5. Cardinality(Opened(j))' >= Cardinality(Opened(j)) /\ Opened(j) \subseteq Opened(j)'
  BY <1>1, <1>3, OpenedGrows
<1>6. Cardinality(Opened(j)) \in Nat /\ Opened(j) = {i \in 1..Len(sessions) : sessions[i].key = j}
  BY <1>1, OpenedFinite
<1>7. Cardinality(Opened(j))' \in Nat
  BY <1>1, <1>3, OpenedGrows
<1>8. PICK c \in 1..Len(sessions) : sessions[c].key = j /\ sessions[c].paid /\ c \notin owed
  BY <1>3 DEF TakenBack, Processed, Grows
<1>9. Processed(j) /\ c \in Opened(j)
  BY <1>6, <1>8 DEF Processed
<1>10. CASE orders'[j] = orders[j]
  <2>1. Rivals(j)
    BY <1>9, <1>10 DEF TInv, TakenBack
  <2> QED
    BY <1>3, <1>4, <1>5, <1>6, <1>7, <2>1 DEF Rivals
<1>11. CASE orders'[j] # orders[j]
  <2>1. j = k /\ orders'[k] = o /\ o # orders[k]
    BY <1>2, <1>11 DEF ByKey
  <2>2. o.status \in {"failed", "checkout_created"}
    BY <2>1 DEF TakenBack
  <2>3. CASE Stores(k, t, r, o, A)
    <3>1. CallOK(k, t) /\ open[<<k, t>>].pc = "save"
      BY <2>3 DEF IInv, Stores
    <3>2. UrlOf(k, open[<<k, t>>].url) /\ ~Knows(k, open[<<k, t>>].url)
      BY <3>1 DEF CallOK
    <3>3. Knows(k, c)
      BY <1>8, <2>1 DEF IInv, PaidOK, Knows
    <3>4. open[<<k, t>>].url \in Opened(j) /\ open[<<k, t>>].url # c
      BY <1>6, <2>1, <3>2, <3>3 DEF UrlOf
    <3>5. Cardinality(Opened(j)) >= 2
      BY <1>1, <1>9, <3>4, TwoOpened
    <3> QED
      BY <1>4, <1>5, <1>6, <1>7, <3>5 DEF Rivals
  <2>4. CASE StoresFailure(k, t, r, o, A)
    <3>1. faults > 0
      BY <2>4 DEF IInv, CallOK, StoresFailure
    <3>2. Cardinality(Opened(j)) >= 1
      BY <1>1, <1>9, TwoOpened
    <3> QED
      BY <1>3, <1>4, <1>5, <1>6, <1>7, <3>1, <3>2 DEF Rivals
  <2> QED
    BY <2>1, <2>2, <2>3, <2>4, OrderOfRequest
<1> QED
  BY <1>10, <1>11

\* The invariant follows for a step that leaves the checkouts alone, and takes
\* back no order.
LEMMA NotTakenBack ==
  ASSUME TInv, IInv, Len(sessions') = Len(sessions), DOMAIN sessions' = DOMAIN sessions,
         \A i \in 1..Len(sessions) : sessions'[i].key = sessions[i].key,
         faults' = faults,
         \A k \in Keys : TakenBack(k)' => TakenBack(k)
  PROVE  TInv'
<1>1. \A k \in Keys : Opened(k)' = Opened(k)
  BY DEF Opened, IInv, Shapes
<1> QED
  BY <1>1 DEF TInv, Rivals

LEMMA HookTakesBack ==
  ASSUME IInv, TInv, NEW h \in Hooks, HookSteps(h)
  PROVE  TInv'
<1>1. PICK w \in Hook, k \in Keys, o \in Order : ByHook(h, w, k, o)
  BY HookDoes
<1>2. orders \in [Keys -> Order]
  BY DEF IInv, Shapes
<1>3. /\ sessions' = sessions /\ faults' = faults /\ orders' = [orders EXCEPT ![k] = o]
      /\ o.status \in {orders[k].status, "paid", "cancelled", "refunded", "fulfilled"}
  BY <1>1 DEF ByHook
<1>4. \A j \in Keys : orders'[j].status \in {"failed", "checkout_created"} =>
        orders'[j].status = orders[j].status
  BY <1>2, <1>3
<1>5. ASSUME NEW j \in Keys, TakenBack(j)' PROVE TakenBack(j)
  <2>1. orders[j].status \in {"failed", "checkout_created"} /\ orders'[j].status = orders[j].status
    BY <1>4, <1>5 DEF TakenBack
  <2>2. PICK i \in 1..Len(sessions) : sessions[i].key = j /\ sessions[i].paid /\ i \notin owed'
    BY <1>3, <1>5 DEF TakenBack, Processed
  <2>3. CASE owed' = owed
    BY <2>1, <2>2, <2>3 DEF TakenBack, Processed
  <2>4. CASE owed' # owed
    <3>1. Fulfill(h) /\ owed' = owed \ {hooks[h].session} /\ orders[KeyOf(h)].status \in Paid
      BY <2>4 DEF HookSteps, Receive, WriteOrder, Adjust, Fulfill
    <3>2. j # KeyOf(h)
      BY <2>1, <3>1 DEF Paid
    <3>3. i \notin owed
      BY <2>2, <3>1, <3>2 DEF KeyOf
    <3> QED
      BY <2>1, <2>2, <3>3 DEF TakenBack, Processed
  <2> QED
    BY <2>3, <2>4
<1> QED
  BY <1>3, <1>5, NotTakenBack

LEMMA NextTakesBack == IInv /\ IInv' /\ TInv /\ [Next]_vars => TInv'
<1> SUFFICES ASSUME IInv, IInv', TInv, [Next]_vars PROVE TInv'
  OBVIOUS
<1>1. CASE \E k \in Keys, t \in Tries : RequestSteps(k, t)
  <2>1. PICK k \in Keys, t \in Tries : RequestSteps(k, t)
    BY <1>1
  <2>2. PICK r \in Request, o \in Order, A \in SUBSET Nat : Does(k, t, r, o, A)
    BY <2>1, RequestDoes DEF IInv
  <2> QED
    BY <2>2, RequestTakesBack
<1>2. CASE \E i \in DOMAIN sessions : Pay(i)
  <2>1. PICK i \in DOMAIN sessions : Pay(i)
    BY <1>2
  <2>2. /\ Len(sessions') = Len(sessions) /\ sessions' \in Seq(Session)
        /\ \A j \in 1..Len(sessions) :
             /\ sessions'[j].key = sessions[j].key
             /\ sessions'[j].paid <=> sessions[j].paid \/ j = i
        /\ owed' = owed \cup {i}
        /\ UNCHANGED <<orders, faults>>
    BY <2>1, PayDoes
  <2>3. \A k \in Keys : TakenBack(k)' => TakenBack(k)
    BY <2>2 DEF TakenBack, Processed
  <2>4. DOMAIN sessions' = DOMAIN sessions
    BY <2>2 DEF IInv, Shapes
  <2> QED
    BY <2>2, <2>3, <2>4, NotTakenBack
<1>3. CASE \E h \in Hooks : HookSteps(h)
  BY <1>3, HookTakesBack
<1>4. CASE Aside \/ UNCHANGED vars
  <2>1. UNCHANGED <<orders, sessions, owed, faults>>
    BY <1>4, AsideDoes DEF IInv
  <2>2. \A k \in Keys : TakenBack(k)' => TakenBack(k)
    BY <2>1 DEF TakenBack, Processed
  <2> QED
    BY <2>1, <2>2, NotTakenBack
<1> QED
  BY <1>1, <1>2, <1>3, <1>4, Steps

\* However requests overlap and save over each other and over webhooks: the copy
\* of a slow request undoes an order whose payment has been processed only if
\* the provider had been asked a second time (checkout.go:150, checkout.go:176).
THEOREM OnlyRivalsTakeBack == Spec => []TakenBackByRivals
<1>1. Init => IInv /\ TInv
  <2>1. Init => TInv
    BY DEF Init, TInv, TakenBack, Processed
  <2> QED
    BY <2>1, InitKeeps
<1>2. IInv /\ TInv /\ [Next]_vars => (IInv /\ TInv)'
  BY NextKeeps, NextTakesBack
<1>3. IInv /\ TInv => TakenBackByRivals
  <2> SUFFICES ASSUME IInv, TInv PROVE TakenBackByRivals
    OBVIOUS
  <2>1. DOMAIN sessions = 1..Len(sessions)
    BY DEF IInv, Shapes
  <2> QED
    BY <2>1 DEF TakenBackByRivals, TInv, TakenBack, Processed, Rivals, Charges, Opened
<1> QED
  BY <1>1, <1>2, <1>3, PTL DEF Spec

-----------------------------------------------------------------------------
(* How often an order is charged.                                          *)

\* The checkouts of a key that anyone knows, and the requests that found none.
Known(k) == {u \in 1..Len(sessions) : Knows(k, u)}
Fresh(k) == {t \in Tries : open[<<k, t>>].pc \notin {"unsent", "idle"} /\ open[<<k, t>>].copy.url = NoUrl}

\* Requests come one after another, or nothing fails.
Calm == faults = 0 \/ Cardinality(Tries) = 1

\* A request that found no URL makes at most one known; and none begins to look
\* for one while the order has its URL, which no webhook takes from it.
Count(k) ==
  /\ Cardinality(Known(k)) + Cardinality(Fresh(k)) <= Cardinality(Tries)
  /\ orders[k].url = NoUrl => Known(k) = {}
  /\ \A h \in Hooks : hooks[h].pc = "write" /\ KeyOf(h) = k => hooks[h].copy.url # NoUrl

CInv == Calm => \A k \in Keys : Count(k)

\* What is taken from one set and put into the other leaves their sum bounded.
LEMMA Counting ==
  ASSUME NEW K, NEW K2, NEW F, NEW F2, NEW n \in Nat, IsFiniteSet(K), IsFiniteSet(F),
         Cardinality(K) + Cardinality(F) <= n, K2 \subseteq K, F2 \subseteq F
  PROVE  Cardinality(K2) + Cardinality(F2) <= n
<1>1. Cardinality(K) \in Nat /\ Cardinality(F) \in Nat
  BY FS_CardinalityType
<1>2. Cardinality(K2) <= Cardinality(K) /\ Cardinality(F2) <= Cardinality(F)
      /\ IsFiniteSet(K2) /\ IsFiniteSet(F2)
  BY FS_Subset
<1>3. Cardinality(K2) \in Nat /\ Cardinality(F2) \in Nat
  BY <1>2, FS_CardinalityType
<1> QED
  BY <1>1, <1>2, <1>3

LEMMA Moving ==
  ASSUME NEW K, NEW F, NEW u, NEW t \in F, NEW n \in Nat,
         IsFiniteSet(K), IsFiniteSet(F), Cardinality(K) + Cardinality(F) <= n
  PROVE  /\ IsFiniteSet(K \cup {u}) /\ IsFiniteSet(F \ {t})
         /\ Cardinality(K \cup {u}) + Cardinality(F \ {t}) <= n
<1>1. Cardinality(K) \in Nat /\ Cardinality(F) \in Nat
  BY FS_CardinalityType
<1>2. /\ IsFiniteSet(K \cup {u})
      /\ Cardinality(K \cup {u}) = IF u \in K THEN Cardinality(K) ELSE Cardinality(K) + 1
  BY FS_AddElement
<1>3. IsFiniteSet(F \ {t}) /\ Cardinality(F \ {t}) = Cardinality(F) - 1
  BY FS_RemoveElement
<1>4. Cardinality(K \cup {u}) \in Nat /\ Cardinality(F \ {t}) \in Nat
  BY <1>2, <1>3, FS_CardinalityType
<1> QED
  BY <1>1, <1>2, <1>3, <1>4

LEMMA CountedFinite ==
  ASSUME Shapes, NEW k
  PROVE  /\ IsFiniteSet(Known(k)) /\ IsFiniteSet(Fresh(k)) /\ Cardinality(Tries) \in Nat
         /\ Cardinality(Known(k)) \in Nat /\ Cardinality(Fresh(k)) \in Nat
         /\ Cardinality(Fresh(k)) <= Cardinality(Tries)
<1>1. Len(sessions) \in Nat
  BY DEF Shapes
<1>2. IsFiniteSet(1..Len(sessions)) /\ Known(k) \subseteq 1..Len(sessions)
  BY <1>1, FS_Interval DEF Known
<1>3. IsFiniteSet(Tries) /\ Fresh(k) \subseteq Tries
  BY TriesAssumption DEF Fresh
<1>4. IsFiniteSet(Known(k)) /\ IsFiniteSet(Fresh(k)) /\ Cardinality(Fresh(k)) <= Cardinality(Tries)
  BY <1>2, <1>3, FS_Subset
<1> QED
  BY <1>3, <1>4, FS_CardinalityType

\* Only its own URL becomes known by a request's step.
LEMMA KnownOfRequest ==
  ASSUME IInv, NEW k \in Keys, NEW t \in Tries, NEW r \in Request, NEW o \in Order,
         NEW A \in SUBSET Nat, Does(k, t, r, o, A), NEW j \in Keys
  PROVE  /\ Known(j)' \subseteq Known(j) \cup {open[<<k, t>>].url}
         /\ ~(j = k /\ Stores(k, t, r, o, A)) => Known(j)' \subseteq Known(j)
<1>1. IInv'
  BY RequestKeeps
<1> SUFFICES ASSUME NEW u, u \in Known(j)'
             PROVE  u \in Known(j) \/ (j = k /\ Stores(k, t, r, o, A) /\ u = open[<<k, t>>].url)
  OBVIOUS
<1>2. u \in 1..Len(sessions') /\ Knows(j, u)' /\ Len(sessions') \in Nat
  BY <1>1 DEF Known, IInv, Shapes
<1>3. u # NoUrl
  BY <1>2 DEF NoUrl
<1>4. Knows(j, u) \/ (j = k /\ Stores(k, t, r, o, A) /\ u = open[<<k, t>>].url)
  BY <1>2, <1>3, Learns
<1>5. Knows(j, u) => u \in 1..Len(sessions)
  BY <1>3 DEF IInv, UrlsOK, UrlOf
<1> QED
  BY <1>4, <1>5 DEF Known

\* The requests that found no URL, after a request's step.
LEMMA FreshOfRequest ==
  ASSUME IInv, NEW k \in Keys, NEW t \in Tries, NEW r \in Request, NEW o \in Order,
         NEW A \in SUBSET Nat, Does(k, t, r, o, A), NEW j \in Keys
  PROVE  /\ j # k => Fresh(j)' = Fresh(j)
         /\ Stores(k, t, r, o, A) \/ StoresFailure(k, t, r, o, A) =>
              t \in Fresh(k) /\ Fresh(k)' \subseteq Fresh(k) \ {t}
         /\ Fresh(k)' \subseteq Fresh(k) \/ orders[k].url = NoUrl
<1>1. ByKey(k, t, r, o, A)
  BY StepByKey DEF IInv, Does
<1>2. \A i \in Keys, v \in Tries : i # k \/ v # t => open'[<<i, v>>] = open[<<i, v>>]
  BY <1>1 DEF ByKey
<1>3. open'[<<k, t>>] = r
  BY <1>1 DEF ByKey
<1>4. j # k => Fresh(j)' = Fresh(j)
  BY <1>2 DEF Fresh
<1>5. ASSUME NEW v \in Tries, v # t PROVE v \in Fresh(k)' <=> v \in Fresh(k)
  BY <1>2, <1>5 DEF Fresh
<1>6. t \in Fresh(k)' <=> r.pc \notin {"unsent", "idle"} /\ r.copy.url = NoUrl
  BY <1>3 DEF Fresh
<1>7. Fresh(k)' \subseteq Tries /\ Fresh(k) \subseteq Tries
  BY DEF Fresh
<1>8. CASE Stores(k, t, r, o, A) \/ StoresFailure(k, t, r, o, A)
  <2>1. open[<<k, t>>].pc \in {"save", "saveFailed"} /\ r.pc = "idle"
    BY <1>8, Constants DEF Stores, StoresFailure
  <2>2. t \in Fresh(k)
    BY <2>1 DEF IInv, CallOK, Fresh
  <2>3. t \notin Fresh(k)'
    BY <1>6, <2>1
  <2>4. Fresh(k)' \subseteq Fresh(k) \ {t}
    BY <1>5, <1>7, <2>3
  <2> QED
    BY <1>4, <2>2, <2>4
<1>9. CASE ~(Stores(k, t, r, o, A) \/ StoresFailure(k, t, r, o, A))
  <2>1. t \in Fresh(k)' => t \in Fresh(k) \/ orders[k].url = NoUrl
    <3>1. CASE Reads(k, t, r, o, A)
      BY <1>6, <3>1 DEF Reads
    <3>2. CASE Finishes(k, t, r, o, A)
      BY <1>6, <3>2, Constants DEF Finishes
    <3>3. CASE Decides(k, t, r, o, A)
      BY <3>3 DEF Decides, Fresh
    <3>4. CASE Returns(k, t, r, o, A)
      BY <1>6, <3>4 DEF Returns, Fresh
    <3> QED
      BY <1>9, <3>1, <3>2, <3>3, <3>4 DEF Does
  <2>2. Fresh(k)' \subseteq Fresh(k) \/ orders[k].url = NoUrl
    BY <1>5, <1>7, <2>1
  <2> QED
    BY <1>4, <1>9, <2>2
<1> QED
  BY <1>8, <1>9

LEMMA RequestCounts ==
  ASSUME IInv, CInv, Calm', NEW k \in Keys, NEW t \in Tries, NEW r \in Request, NEW o \in Order,
         NEW A \in SUBSET Nat, Does(k, t, r, o, A), NEW j \in Keys
  PROVE  Count(j)'
<1>1. Shapes /\ Effect(k, t, r, o, A)
  BY DEF IInv, Does
<1>2. ByKey(k, t, r, o, A)
  BY <1>1, StepByKey
<1>3. /\ hooks' = hooks /\ Grows(k) /\ faults' >= faults
      /\ faults \in Nat /\ faults' \in Nat
  BY <1>1, CheckoutAssumption DEF Effect, Shapes
<1>4. Calm /\ Count(j)
  BY <1>3 DEF Calm, CInv
<1>5. /\ IsFiniteSet(Known(j)) /\ IsFiniteSet(Fresh(j)) /\ Cardinality(Tries) \in Nat
      /\ Cardinality(Known(j)) \in Nat /\ Cardinality(Fresh(j)) \in Nat
      /\ Cardinality(Known(j)) + Cardinality(Fresh(j)) <= Cardinality(Tries)
  BY <1>1, <1>4, CountedFinite DEF Count
<1>6. /\ Known(j)' \subseteq Known(j) \cup {open[<<k, t>>].url}
      /\ ~(j = k /\ Stores(k, t, r, o, A)) => Known(j)' \subseteq Known(j)
  BY KnownOfRequest
<1>7. /\ j # k => Fresh(j)' = Fresh(j)
      /\ Stores(k, t, r, o, A) \/ StoresFailure(k, t, r, o, A) =>
           t \in Fresh(k) /\ Fresh(k)' \subseteq Fresh(k) \ {t}
      /\ Fresh(k)' \subseteq Fresh(k) \/ orders[k].url = NoUrl
  BY FreshOfRequest
<1>8. Cardinality(Known(j)') + Cardinality(Fresh(j)') <= Cardinality(Tries)
  <2>1. CASE j = k /\ Stores(k, t, r, o, A)
    <3>1. /\ Known(j)' \subseteq Known(j) \cup {open[<<k, t>>].url}
          /\ t \in Fresh(j) /\ Fresh(j)' \subseteq Fresh(j) \ {t}
      BY <1>6, <1>7, <2>1
    <3> DEFINE K == Known(j) \cup {open[<<k, t>>].url}
               F == Fresh(j) \ {t}
    <3>2. IsFiniteSet(K) /\ IsFiniteSet(F) /\ Cardinality(K) + Cardinality(F) <= Cardinality(Tries)
      BY <1>5, <3>1, Moving
    <3>3. Known(j)' \subseteq K /\ Fresh(j)' \subseteq F
      BY <3>1
    <3> HIDE DEF K, F
    <3> QED
      BY <1>5, <3>2, <3>3, Counting
  <2>2. CASE ~(j = k /\ Stores(k, t, r, o, A)) /\ Fresh(j)' \subseteq Fresh(j)
    BY <1>5, <1>6, <2>2, Counting
  <2>3. CASE ~(j = k /\ Stores(k, t, r, o, A)) /\ ~(Fresh(j)' \subseteq Fresh(j))
    <3>1. j = k /\ orders[j].url = NoUrl
      BY <1>7, <2>3
    <3>2. Known(j)' = {}
      BY <1>4, <1>6, <2>3, <3>1 DEF Count
    <3>3. Fresh(j)' \subseteq Tries
      BY DEF Fresh
    <3>4. Cardinality(Fresh(j)') <= Cardinality(Tries) /\ IsFiniteSet(Fresh(j)')
      BY <3>3, TriesAssumption, FS_Subset
    <3>5. Cardinality(Fresh(j)') \in Nat
      BY <3>4, FS_CardinalityType
    <3>6. Cardinality(Known(j)') = 0
      BY <3>2, FS_EmptySet
    <3> QED
      BY <1>5, <3>4, <3>5, <3>6
  <2> QED
    BY <2>1, <2>2, <2>3
<1>9. ASSUME orders'[j].url = NoUrl PROVE Known(j)' = {}
  <2>1. CASE orders'[j].url = orders[j].url /\ ~(j = k /\ Stores(k, t, r, o, A))
    BY <1>4, <1>6, <1>9, <2>1 DEF Count
  <2>2. CASE j = k /\ Stores(k, t, r, o, A)
    <3>1. orders'[j].url = open[<<k, t>>].url /\ open[<<k, t>>].pc = "save"
      BY <1>2, <2>2 DEF ByKey, Stores
    <3>2. open[<<k, t>>].url # NoUrl
      BY <3>1 DEF IInv, CallOK, UrlOf, NoUrl
    <3> QED
      BY <1>9, <3>1, <3>2
  <2>3. CASE j = k /\ StoresFailure(k, t, r, o, A)
    <3>1. faults' > 0
      BY <1>3, <2>3 DEF IInv, CallOK, StoresFailure
    <3>2. Cardinality(Tries) = 1
      BY <3>1, <1>3 DEF Calm
    <3>3. t \in Fresh(j)
      BY <1>7, <2>3
    <3>4. Cardinality(Fresh(j)) # 0
      BY <1>5, <3>3, FS_EmptySet
    <3>5. Cardinality(Known(j)) = 0
      BY <1>5, <3>2, <3>4
    <3>6. Known(j) = {}
      BY <1>5, <3>5, FS_EmptySet
    <3>7. ~Stores(k, t, r, o, A)
      BY <2>3 DEF Stores, StoresFailure
    <3> QED
      BY <1>6, <3>6, <3>7
  <2>4. orders'[j].url = orders[j].url \/ (j = k /\ Stores(k, t, r, o, A))
        \/ (j = k /\ StoresFailure(k, t, r, o, A))
    <3>1. CASE j # k
      BY <1>2, <3>1 DEF ByKey
    <3>2. CASE j = k
      <4>1. orders'[j] = o
        BY <1>2, <3>2 DEF ByKey
      <4>2. \/ Stores(k, t, r, o, A) \/ StoresFailure(k, t, r, o, A)
            \/ o.url = orders[k].url
        BY DEF Does, Reads, Finishes, Decides, Returns
      <4> QED
        BY <3>2, <4>1, <4>2
    <3> QED
      BY <3>1, <3>2
  <2> QED
    BY <2>1, <2>2, <2>3, <2>4
<1>10. ASSUME NEW h \in Hooks, hooks'[h].pc = "write", KeyOf(h)' = j
       PROVE  hooks'[h].copy.url # NoUrl
  <2>1. Works(hooks[h]) /\ hooks[h].pc # "idle"
    BY <1>3, <1>10 DEF IInv, HookOK
  <2>2. KeyOf(h)' = KeyOf(h)
    BY <1>3, <2>1, KeysStay
  <2> QED
    BY <1>3, <1>4, <1>10, <2>2 DEF Count
<1> QED
  BY <1>8, <1>9, <1>10 DEF Count

\* The count is the same for a step that lets no URL be known, and leaves the
\* requests alone and no order without its URL.
LEMMA SameCount ==
  ASSUME IInv, NEW j \in Keys, Count(j), open' = open, Len(sessions') = Len(sessions),
         \A u : Knows(j, u)' => Knows(j, u),
         orders'[j].url = NoUrl => orders[j].url = NoUrl,
         \A h \in Hooks : hooks'[h].pc = "write" /\ KeyOf(h)' = j => hooks'[h].copy.url # NoUrl
  PROVE  Count(j)'
<1>1. Known(j)' \subseteq Known(j)
  BY DEF Known
<1>2. Fresh(j)' \subseteq Fresh(j)
  BY DEF Fresh
<1>3. /\ IsFiniteSet(Known(j)) /\ IsFiniteSet(Fresh(j)) /\ Cardinality(Tries) \in Nat
      /\ Cardinality(Known(j)) + Cardinality(Fresh(j)) <= Cardinality(Tries)
  BY CountedFinite DEF IInv, Count
<1>4. Cardinality(Known(j)') + Cardinality(Fresh(j)') <= Cardinality(Tries)
  BY <1>1, <1>2, <1>3, Counting
<1>5. orders'[j].url = NoUrl => Known(j)' = {}
  BY <1>1 DEF Count
<1> QED
  BY <1>4, <1>5 DEF Count

LEMMA HookCounts ==
  ASSUME IInv, CInv, Calm, NEW h \in Hooks, HookSteps(h), NEW j \in Keys
  PROVE  Count(j)'
<1>1. PICK w \in Hook, k \in Keys, o \in Order : ByHook(h, w, k, o)
  BY HookDoes
<1>2. orders \in [Keys -> Order] /\ hooks \in [Hooks -> Hook]
  BY DEF IInv, Shapes
<1>3. /\ hooks' = [hooks EXCEPT ![h] = w] /\ orders' = [orders EXCEPT ![k] = o]
      /\ UNCHANGED <<open, sessions, answered>> /\ Works(w)
  BY <1>1 DEF ByHook
<1>4. Count(j)
  BY DEF CInv
<1>5. \A u : Knows(j, u)' => Knows(j, u)
  BY <1>1, HookLearns
<1>6. ASSUME orders'[j].url = NoUrl PROVE orders[j].url = NoUrl
  <2>1. CASE j # k
    BY <1>2, <1>3, <1>6, <2>1
  <2>2. CASE j = k
    <3>1. o.url = NoUrl
      BY <1>2, <1>3, <1>6, <2>2
    <3>2. o.url = orders[k].url \/ (hooks[h].pc = "write" /\ KeyOf(h) = k /\ o.url = hooks[h].copy.url)
      BY <1>1 DEF ByHook
    <3> QED
      BY <1>4, <2>2, <3>1, <3>2 DEF Count
  <2> QED
    BY <2>1, <2>2
<1>7. ASSUME NEW g \in Hooks, hooks'[g].pc = "write", KeyOf(g)' = j
      PROVE  hooks'[g].copy.url # NoUrl
  <2>1. CASE g # h
    <3>1. hooks'[g] = hooks[g]
      BY <1>2, <1>3, <2>1
    <3>2. KeyOf(g)' = KeyOf(g)
      BY <1>3, <3>1 DEF KeyOf
    <3> QED
      BY <1>4, <1>7, <3>1, <3>2 DEF Count
  <2>2. CASE g = h
    <3>1. hooks'[g] = w
      BY <1>2, <1>3, <2>2
    <3>2. sessions[w.session].key = k /\ w.copy.url = orders[k].url /\ w.session \in answered[k]
      BY <1>1, <1>7, <3>1 DEF ByHook
    <3>3. j = k /\ w.session \in 1..Len(sessions)
      BY <1>3, <1>7, <3>1, <3>2 DEF KeyOf, Works
    <3>4. w.session \in Known(j)
      BY <3>2, <3>3 DEF Known, Knows
    <3> QED
      BY <1>4, <3>1, <3>2, <3>3, <3>4 DEF Count
  <2> QED
    BY <2>1, <2>2
<1> QED
  BY <1>3, <1>4, <1>5, <1>6, <1>7, SameCount

LEMMA NextCounts == IInv /\ CInv /\ [Next]_vars => CInv'
<1> SUFFICES ASSUME IInv, CInv, [Next]_vars, Calm', NEW j \in Keys PROVE Count(j)'
  BY DEF CInv
<1>1. CASE \E k \in Keys, t \in Tries : RequestSteps(k, t)
  <2>1. PICK k \in Keys, t \in Tries : RequestSteps(k, t)
    BY <1>1
  <2>2. PICK r \in Request, o \in Order, A \in SUBSET Nat : Does(k, t, r, o, A)
    BY <2>1, RequestDoes DEF IInv
  <2> QED
    BY <2>2, RequestCounts
<1>2. CASE \E i \in DOMAIN sessions : Pay(i)
  <2>1. PICK i \in DOMAIN sessions : Pay(i)
    BY <1>2
  <2>2. /\ Len(sessions') = Len(sessions)
        /\ \A n \in 1..Len(sessions) : sessions'[n].key = sessions[n].key
        /\ UNCHANGED <<orders, open, hooks, faults>>
    BY <2>1, PayDoes
  <2>3. Count(j)
    BY <2>2 DEF CInv, Calm
  <2>4. \A u : Knows(j, u)' => Knows(j, u)
    BY <2>1, PayKeeps
  <2>5. ASSUME NEW h \in Hooks, hooks'[h].pc = "write", KeyOf(h)' = j
        PROVE  hooks'[h].copy.url # NoUrl
    <3>1. KeyOf(h) = j
      BY <2>2, <2>5 DEF IInv, HookOK, Works, KeyOf
    <3> QED
      BY <2>2, <2>3, <2>5, <3>1 DEF Count
  <2>6. open' = open /\ (orders'[j].url = NoUrl => orders[j].url = NoUrl)
    BY <2>2
  <2> QED
    BY <2>2, <2>3, <2>4, <2>5, <2>6, SameCount
<1>3. CASE \E h \in Hooks : HookSteps(h)
  <2>1. PICK h \in Hooks : HookSteps(h)
    BY <1>3
  <2>2. faults' = faults
    BY <2>1, HookDoes DEF ByHook
  <2> QED
    BY <2>1, <2>2, HookCounts DEF Calm
<1>4. CASE Aside \/ UNCHANGED vars
  <2>1. UNCHANGED <<orders, open, sessions, answered, hooks, faults>>
    BY <1>4, AsideDoes DEF IInv
  <2>2. Count(j)
    BY <2>1 DEF CInv, Calm
  <2> QED
    BY <2>1, <2>2 DEF Count, Known, Fresh, Knows, KeyOf
<1> QED
  BY <1>1, <1>2, <1>3, <1>4, Steps

LEMMA InitCounts == Init => CInv
<1> SUFFICES ASSUME Init, NEW k \in Keys PROVE Count(k)
  BY DEF CInv
<1>1. Shapes /\ sessions = <<>>
  BY InitKeeps DEF IInv, Init
<1>2. Known(k) = {}
  BY <1>1 DEF Known
<1>3. Fresh(k) = {}
  <2>1. ASSUME NEW t \in Tries PROVE open[<<k, t>>].pc \in {"unsent", "idle"}
    <3>1. open \in [Keys \X Tries -> {Idle, Unsent}]
      BY DEF Init
    <3>2. open[<<k, t>>] \in {Idle, Unsent}
      BY <3>1
    <3> QED
      BY <3>2, Constants
  <2> QED
    BY <2>1 DEF Fresh
<1>4. \A h \in Hooks : hooks[h].pc = "idle"
  BY NoHookWorks DEF Init
<1>5. Cardinality(Tries) \in Nat
  BY <1>1, CountedFinite
<1>6. Cardinality(Known(k)) + Cardinality(Fresh(k)) <= Cardinality(Tries)
  BY <1>2, <1>3, <1>5, FS_EmptySet
<1> QED
  BY <1>2, <1>4, <1>6 DEF Count

\* However many requests with a key can overlap, and webhooks with them: the order
\* is charged at most once for each, as long as nothing fails; and once, whatever
\* fails, if they come one after another (checkout.go:84, checkout.go:150,
\* checkout.go:176).
THEOREM ChargesAreBounded == Spec => []ChargesBounded
<1>1. Init => IInv /\ CInv
  BY InitKeeps, InitCounts
<1>2. IInv /\ CInv /\ [Next]_vars => (IInv /\ CInv)'
  BY NextKeeps, NextCounts
<1>3. IInv /\ CInv => ChargesBounded
  <2> SUFFICES ASSUME IInv, CInv, Calm, NEW k \in Keys
               PROVE  Cardinality(Charges(k)) <= Cardinality(Tries)
    BY DEF ChargesBounded, Calm
  <2>1. DOMAIN sessions = 1..Len(sessions)
    BY DEF IInv, Shapes
  <2>2. Charges(k) \subseteq Known(k)
    BY <2>1 DEF Charges, Opened, Known, Knows, IInv, PaidOK
  <2>3. /\ IsFiniteSet(Known(k)) /\ Cardinality(Tries) \in Nat
        /\ Cardinality(Known(k)) \in Nat /\ Cardinality(Fresh(k)) \in Nat
    BY CountedFinite DEF IInv
  <2>4. Cardinality(Known(k)) + Cardinality(Fresh(k)) <= Cardinality(Tries)
    BY DEF CInv, Count
  <2>5. Cardinality(Charges(k)) <= Cardinality(Known(k)) /\ IsFiniteSet(Charges(k))
    BY <2>2, <2>3, FS_Subset
  <2>6. Cardinality(Charges(k)) \in Nat
    BY <2>5, FS_CardinalityType
  <2> QED
    BY <2>3, <2>4, <2>5, <2>6
<1> QED
  BY <1>1, <1>2, <1>3, PTL DEF Spec

\* The three together: whatever is saved over a paid order, its payment is kept
\* (checkout.go:176, payment_order_processor.go:68).
THEOREM PaymentsAreKept == Spec => []PaymentIsKept
<1>1. ChargesBounded /\ PaymentIsGiven /\ TakenBackByRivals => PaymentIsKept
  BY DEF PaymentIsKept
<1> QED
  BY <1>1, ChargesAreBounded, PaymentsAreGiven, OnlyRivalsTakeBack, PTL
=============================================================================
