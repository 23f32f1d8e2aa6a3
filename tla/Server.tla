------------------------------- MODULE Server -------------------------------
(* The life of billing servers that share a database: a server loads its      *)
(* settings, migrates the schema, reconciles the product catalog, wires its   *)
(* services, serves requests through the rate limiter, records what they did  *)
(* in the audit trail, and shuts down; or it dies on the way and is started   *)
(* again.  A scene says who takes part, with which settings, on which         *)
(* database, and for how long.                                                *)
EXTENDS Configuration, SequencesExt

CONSTANTS Scenes,       \* [servers, deploys, stored, calls, time] each
          Servers,
          Requests,     \* the requests of one client a server works on at once
          Tables,       \* the models that are migrated, in order, the products'
          ProductTable, \* being one of them
          MaxTokens, RefillRate, \* of the client's bucket, per unit of time
          IdleTime,     \* a bucket left alone for longer is forgotten
          Buffer,       \* the entries the audit channel holds
          MaxDeaths, MaxFaults, \* bound the model only
          None, Unread

ASSUME TablesAssumption == ProductTable \in 1..Tables /\ Tables \in Nat

\* A bucket is full again by the time it counts as idle.
ASSUME LimiterAssumption ==
  /\ MaxTokens \in Nat \ {0} /\ RefillRate \in Nat /\ IdleTime \in Nat
  /\ MaxTokens <= RefillRate * (IdleTime + 1)

Row == [fresh : BOOLEAN, visible : BOOLEAN]
Codes == {Products[i].code : i \in DOMAIN Products}

ASSUME SentinelsAssumption == None \notin Row /\ Unread \notin Row \cup {None}

ASSUME BufferAssumption == Buffer \in Nat

\* Whoever takes part is given whole deployments, and a database whose version is
\* on record has all the models that version stands for.
ASSUME ScenesAssumption ==
  \A sc \in Scenes :
    /\ \A s \in Servers \cap sc.servers : \A d \in sc.deploys[s] : Deployment(d)
    /\ \A d \in sc.stored :
         /\ d.tables \in 0..Tables /\ d.recorded \in {"none", "baseline", "renamed"}
         /\ d.recorded # "none" => d.tables = Tables
         /\ d.rows \in [Codes -> Row \cup {None}]

\* What a server is wired to is something.
ASSUME WiringAssumption ==
  \A sc \in Scenes : \A s \in Servers \cap sc.servers : \A d \in sc.deploys[s] :
    ~LoadFails(d) /\ Valid(Loaded(d)) /\ Wires(Loaded(d)) => Wired(Loaded(d)) # None

VARIABLES
  scene,
  phase,    \* where each server is
  conf,     \* what it has been started with
  app,      \* what it has wired
  at,       \* the table or product it works on
  seen,     \* the product row it has found
  ended,    \* how its last run ended
  tables, recorded, rows, \* the schema, its version and the products stored
  log,      \* the audit entries of the run
  buckets, mapped, req,   \* the limiter's buckets, the one in its map, requests
  clock, calls, deaths, faults,
  ideal     \* history: a bucket that is never forgotten, which serves the requests
            \* that find their bucket in the map

database == <<tables, recorded, rows>>
limiter == <<buckets, mapped, ideal>>
bounds == <<scene, clock, calls, deaths, faults>>
vars == <<phase, conf, app, at, seen, ended, database, log, limiter, req, bounds>>

\* A definition as a row, and a row as it is stored by Create and by Update.
DomainProduct(p) == [fresh |-> TRUE, visible |-> p.visible]
Created_DefaultVisible(p) == [fresh |-> TRUE, visible |-> TRUE]
Created(p) == DomainProduct(p)
Updated(p) == DomainProduct(p)

Config(s) == Loaded(conf[s])
Up == {"serving", "draining", "stopping"}
NoLog == [queue |-> <<>>, hand |-> 0, accepted |-> 0, written |-> <<>>, failed |-> {}]
Idle == [at |-> "idle", bucket |-> 0]

Init ==
  /\ scene \in Scenes
  /\ \E d \in scene.stored : tables = d.tables /\ recorded = d.recorded /\ rows = d.rows
  /\ phase = [s \in Servers |-> "down"]
  /\ conf = [s \in Servers |-> None]
  /\ app = [s \in Servers |-> None]
  /\ at = [s \in Servers |-> 0]
  /\ seen = [s \in Servers |-> Unread]
  /\ ended = [s \in Servers |-> "new"]
  /\ log = [s \in Servers |-> NoLog]
  /\ buckets = [s \in Servers |-> <<>>]
  /\ mapped = [s \in Servers |-> 0]
  /\ req = [s \in Servers |-> [r \in Requests |-> Idle]]
  /\ ideal = [s \in Servers |-> [tokens |-> MaxTokens, last |-> 0]]
  /\ clock = 0 /\ calls = 0 /\ deaths = 0 /\ faults = 0

Moved(s, p) == phase' = [phase EXCEPT ![s] = p]

\* A run ends: os.Exit, or the end of main.
Ends(s, how) ==
  /\ Moved(s, "down")
  /\ ended' = [ended EXCEPT ![s] = how]
  /\ conf' = [conf EXCEPT ![s] = None]
  /\ app' = [app EXCEPT ![s] = None]
  /\ at' = [at EXCEPT ![s] = 0]
  /\ seen' = [seen EXCEPT ![s] = Unread]
  /\ req' = [req EXCEPT ![s] = [r \in Requests |-> Idle]]

\* Everything of a run that has not got to serving is local to the start.
Starting(s) == UNCHANGED <<conf, app, ended, log, limiter, req, bounds>>

\* main: a run begins with Load, which refuses settings that are not safe.
Start(s) ==
  /\ phase[s] = "down" /\ s \in scene.servers
  /\ \E d \in scene.deploys[s] :
       \/ /\ LoadFails(d) \/ ~Valid(Loaded(d))
          /\ ended' = [ended EXCEPT ![s] = "refused"]
          /\ UNCHANGED <<phase, conf>>
       \/ /\ ~LoadFails(d) /\ Valid(Loaded(d))
          /\ Moved(s, "migrate")
          /\ conf' = [conf EXCEPT ![s] = d]
          /\ ended' = [ended EXCEPT ![s] = "running"]
  /\ log' = [log EXCEPT ![s] = NoLog]
  /\ buckets' = [buckets EXCEPT ![s] = <<>>]
  /\ mapped' = [mapped EXCEPT ![s] = 0]
  /\ ideal' = [ideal EXCEPT ![s] = [tokens |-> MaxTokens, last |-> clock]]
  /\ UNCHANGED <<app, at, seen, database, req, bounds>>

\* The schema is there: on to the first product.
ToCatalog(s) == Moved(s, "reconcile") /\ at' = [at EXCEPT ![s] = 1]

\* autoMigrate goes from model to model, each one for itself.
MigrateTable(s) ==
  /\ phase[s] = "migrate" /\ Config(s).mode = "auto"
  /\ tables' = IF tables > at[s] THEN tables ELSE at[s] + 1
  /\ IF at[s] + 1 = Tables THEN ToCatalog(s)
     ELSE at' = [at EXCEPT ![s] = @ + 1] /\ UNCHANGED phase
  /\ UNCHANGED <<recorded, rows, seen>> /\ Starting(s)

\* The baseline is one transaction: all models and the record, or nothing.
MigrateVersion(s) ==
  /\ phase[s] = "migrate" /\ Config(s).mode = "versioned"
  /\ recorded # "renamed"
  /\ tables' = IF recorded = "none" THEN Tables ELSE tables
  /\ recorded' = "baseline"
  /\ ToCatalog(s)
  /\ UNCHANGED <<rows, seen>> /\ Starting(s)

SkipMigration(s) ==
  /\ phase[s] = "migrate" /\ Config(s).mode = "disabled"
  /\ ToCatalog(s)
  /\ UNCHANGED <<database, seen>> /\ Starting(s)

\* An unknown mode, or a record whose checksum is another migration's.
MigrationFails(s) ==
  /\ phase[s] = "migrate"
  /\ \/ Config(s).mode = "none"
     \/ Config(s).mode = "versioned" /\ recorded = "renamed"
  /\ Ends(s, "migration")
  /\ UNCHANGED <<database, log, limiter, bounds>>

\* Reconcile reads the row of a product ...
FindProduct(s) ==
  /\ phase[s] = "reconcile" /\ seen[s] = Unread /\ tables >= ProductTable
  /\ seen' = [seen EXCEPT ![s] = rows[Products[at[s]].code]]
  /\ UNCHANGED <<phase, at, database>> /\ Starting(s)

NextProduct(s) ==
  /\ seen' = [seen EXCEPT ![s] = Unread]
  /\ at' = [at EXCEPT ![s] = @ + 1]
  /\ IF at[s] = Len(Products) THEN Moved(s, "wire") ELSE UNCHANGED phase

\* ... and then creates it, saves it whole, or leaves it.
WriteProduct(s) ==
  /\ phase[s] = "reconcile" /\ seen[s] # Unread
  /\ LET p == Products[at[s]]
         Store(row) == rows' = [rows EXCEPT ![p.code] = row]
     IN  \/ seen[s] = None /\ rows[p.code] = None /\ Store(Created(p))
         \/ seen[s] \notin {None, DomainProduct(p)} /\ Store(Updated(p))
         \/ seen[s] = DomainProduct(p) /\ UNCHANGED rows
  /\ NextProduct(s)
  /\ UNCHANGED <<tables, recorded>> /\ Starting(s)

\* There is no table, or the row has been created in between.
ReconcileFails(s) ==
  /\ phase[s] = "reconcile"
  /\ \/ seen[s] = Unread /\ tables < ProductTable
     \/ seen[s] = None /\ rows[Products[at[s]].code] # None
  /\ Ends(s, "catalog")
  /\ UNCHANGED <<database, log, limiter, bounds>>

\* Build, once the database is ready.
Wire(s) ==
  /\ phase[s] = "wire"
  /\ \/ /\ Wires(Config(s))
        /\ Moved(s, "serving")
        /\ app' = [app EXCEPT ![s] = Wired(Config(s))]
        /\ at' = [at EXCEPT ![s] = 0]
        /\ UNCHANGED <<conf, seen, ended, req>>
     \/ ~Wires(Config(s)) /\ Ends(s, "wiring")
  /\ UNCHANGED <<database, log, limiter, bounds>>

-----------------------------------------------------------------------------
(* The limiter and the handlers: gin works on requests concurrently.         *)

Refilled_Uncapped(b) == b.tokens + RefillRate * (clock - b.last)

Refilled(b) == LET t == b.tokens + RefillRate * (clock - b.last)
               IN  IF t > MaxTokens THEN MaxTokens ELSE t

Asks(s, r, x) == req' = [req EXCEPT ![s][r] = x]

\* getBucket hands a request the client's bucket, ...
Arrive(s, r) ==
  /\ phase[s] = "serving" /\ req[s][r].at = "idle" /\ calls < scene.calls
  /\ calls' = calls + 1
  /\ IF ~app[s].limited
     THEN Asks(s, r, [at |-> "handling", bucket |-> 0]) /\ UNCHANGED <<buckets, mapped>>
     ELSE IF mapped[s] # 0
     THEN Asks(s, r, [at |-> "limiter", bucket |-> mapped[s]]) /\ UNCHANGED <<buckets, mapped>>
     ELSE LET n == Len(buckets[s]) + 1
          IN  /\ Asks(s, r, [at |-> "limiter", bucket |-> n])
              /\ buckets' = [buckets EXCEPT
                               ![s] = Append(@, [tokens |-> MaxTokens, last |-> clock])]
              /\ mapped' = [mapped EXCEPT ![s] = n]
  /\ UNCHANGED <<phase, conf, app, at, seen, ended, database, log, ideal, scene, clock,
                 deaths, faults>>

\* ... and Allow takes a token of it later, when it may have been forgotten.
Allow(s, r) ==
  /\ req[s][r].at = "limiter"
  /\ LET k == req[s][r].bucket
         n == Refilled(buckets[s][k])
     IN  IF n >= 1
         THEN /\ buckets' = [buckets EXCEPT ![s][k] = [tokens |-> n - 1, last |-> clock]]
              /\ IF k = mapped[s]
                 THEN ideal' = [ideal EXCEPT ![s] = [tokens |-> Refilled(@) - 1, last |-> clock]]
                 ELSE UNCHANGED ideal
              /\ Asks(s, r, [at |-> "handling", bucket |-> 0])
         ELSE /\ buckets' = [buckets EXCEPT ![s][k] = [tokens |-> n, last |-> clock]]
              /\ Asks(s, r, Idle) /\ UNCHANGED ideal
  /\ UNCHANGED <<phase, conf, app, at, seen, ended, database, log, mapped, bounds>>

Cleanup_Recent(s) ==
  /\ phase[s] \in Up /\ mapped[s] # 0
  /\ mapped' = [mapped EXCEPT ![s] = 0]
  /\ UNCHANGED <<phase, conf, app, at, seen, ended, database, log, buckets, req, ideal, bounds>>

\* cleanup forgets a bucket nobody has asked for long.
Cleanup(s) ==
  /\ phase[s] \in Up /\ mapped[s] # 0
  /\ clock - buckets[s][mapped[s]].last > IdleTime
  /\ mapped' = [mapped EXCEPT ![s] = 0]
  /\ UNCHANGED <<phase, conf, app, at, seen, ended, database, log, buckets, req, ideal, bounds>>

\* Record puts an entry in the channel, or drops it when the channel is full.
Record(l) ==
  IF Len(l.queue) < Buffer
  THEN [l EXCEPT !.queue = Append(@, l.accepted + 1), !.accepted = @ + 1]
  ELSE l

\* The handler answers, and most handlers record what they did.
Handle(s, r) ==
  /\ req[s][r].at = "handling"
  /\ \/ log' = [log EXCEPT ![s] = Record(@)]
     \/ UNCHANGED log
  /\ Asks(s, r, Idle)
  /\ UNCHANGED <<phase, conf, app, at, seen, ended, database, limiter, bounds>>

-----------------------------------------------------------------------------
(* The writer of the audit trail, and the end of a run.                      *)

Trail(s, l) == log' = [log EXCEPT ![s] = l]

Take(s) ==
  /\ phase[s] \in Up /\ log[s].hand = 0 /\ log[s].queue # <<>>
  /\ Trail(s, [log[s] EXCEPT !.hand = Head(log[s].queue), !.queue = Tail(@)])
  /\ UNCHANGED <<phase, conf, app, at, seen, ended, database, limiter, req, bounds>>

\* An entry that cannot be written is given up.
Write(s) ==
  /\ phase[s] \in Up /\ log[s].hand # 0
  /\ \/ /\ Trail(s, [log[s] EXCEPT !.hand = 0, !.written = Append(@, log[s].hand)])
        /\ UNCHANGED faults
     \/ /\ faults < MaxFaults /\ faults' = faults + 1
        /\ Trail(s, [log[s] EXCEPT !.hand = 0, !.failed = @ \cup {log[s].hand}])
  /\ UNCHANGED <<phase, conf, app, at, seen, ended, database, limiter, req, scene, clock,
                 calls, deaths>>

\* A signal: no more requests are taken.
Shutdown(s) ==
  /\ phase[s] = "serving"
  /\ Moved(s, "draining")
  /\ UNCHANGED <<conf, app, at, seen, ended, database, log, limiter, req, bounds>>

\* The requests under way are done; the audit service is stopped after them.
Stop(s) ==
  /\ phase[s] = "draining" /\ \A r \in Requests : req[s][r].at = "idle"
  /\ Moved(s, "stopping")
  /\ UNCHANGED <<conf, app, at, seen, ended, database, log, limiter, req, bounds>>

Exit_Undrained(s) ==
  /\ phase[s] = "stopping"
  /\ Ends(s, "clean")
  /\ UNCHANGED <<database, log, limiter, bounds>>

\* The writer has drained the channel.
Exit(s) ==
  /\ phase[s] = "stopping" /\ log[s].queue = <<>> /\ log[s].hand = 0
  /\ Ends(s, "clean")
  /\ UNCHANGED <<database, log, limiter, bounds>>

\* The requests are not done in time: os.Exit, and nothing is stopped.
ForcedExit(s) ==
  /\ phase[s] = "draining" /\ \E r \in Requests : req[s][r].at # "idle"
  /\ Ends(s, "forced")
  /\ UNCHANGED <<database, log, limiter, bounds>>

\* The process is killed, or the database fails it while it starts.
Die(s) ==
  /\ phase[s] # "down" /\ deaths < MaxDeaths
  /\ deaths' = deaths + 1
  /\ Ends(s, "died")
  /\ UNCHANGED <<database, log, limiter, scene, clock, calls, faults>>

Tick ==
  /\ clock < scene.time /\ clock' = clock + 1
  /\ UNCHANGED <<phase, conf, app, at, seen, ended, database, log, limiter, req, scene,
                 calls, deaths, faults>>

Next ==
  \/ \E s \in Servers :
       \/ Start(s) \/ MigrateTable(s) \/ MigrateVersion(s) \/ SkipMigration(s)
       \/ MigrationFails(s) \/ FindProduct(s) \/ WriteProduct(s) \/ ReconcileFails(s)
       \/ Wire(s) \/ Cleanup(s) \/ Take(s) \/ Write(s) \/ Shutdown(s) \/ Stop(s)
       \/ Exit(s) \/ ForcedExit(s) \/ Die(s)
       \/ \E r \in Requests : Arrive(s, r) \/ Allow(s, r) \/ Handle(s, r)
  \/ Tick

Spec == Init /\ [][Next]_vars

-----------------------------------------------------------------------------
(* Properties                                                                *)

Phases == {"down", "migrate", "reconcile", "wire"} \cup Up

TypeOK ==
  /\ phase \in [Servers -> Phases]
  /\ ended \in [Servers -> {"new", "running", "refused", "migration", "catalog", "wiring",
                            "died", "forced", "clean"}]
  /\ \A s \in Servers :
       /\ at[s] \in 0..Tables \cup 1..(Len(Products) + 1)
       /\ seen[s] \in Row \cup {None, Unread}
       /\ app[s] # None <=> phase[s] \in Up
       /\ Len(log[s].queue) <= Buffer /\ log[s].hand \in 0..log[s].accepted
       /\ mapped[s] \in 0..Len(buckets[s])
       /\ \A k \in DOMAIN buckets[s] : buckets[s][k].tokens \in 0..MaxTokens
       /\ \A r \in Requests : req[s][r].at \in {"idle", "limiter", "handling"}
  /\ tables \in 0..Tables /\ recorded \in {"none", "baseline", "renamed"}
  /\ rows \in [Codes -> Row \cup {None}]

\* A server that has passed the rules of production is what they ask for: it
\* signs with a key pair, knows no mock and no developer's delivery, sells its
\* whole catalog at the live provider, refuses redirects that are not on the
\* list, asks administrators who they are, limits its clients, and stands on a
\* schema of a known version.  If it cannot be wired, that is for a delivery
\* or for rules of fulfillment that the validation does not look at.
ProductionIsSafe ==
  \A s \in Servers :
    /\ phase[s] \in Up /\ IsProduction(conf[s]) =>
         /\ app[s].signer = "Ed25519" /\ app[s].delivery # "dev"
         /\ ~app[s].mockPages /\ ~app[s].resets
         /\ app[s].registry.mock = "disabled" /\ app[s].registry.creem = "live"
         /\ Sold \subseteq conf[s].creemMap
         /\ app[s].policies = {"plan", "redirect", "risk"}
         /\ \A url \in {"https", "http", "app", "script", "bare"} :
              Accepts(Config(s), url) => url \in conf[s].redirects \cap {"https", "app"}
         /\ app[s].gate = "permission" /\ app[s].limited
         /\ recorded = "baseline" /\ tables = Tables
    /\ phase[s] = "wire" /\ IsProduction(conf[s]) =>
         Wires(Config(s)) \/ conf[s].delivery = "smtp" \/ conf[s].rules = "broken"

\* Whatever died, failed or ran at the same time before it: a server that takes
\* requests has every table, unless it was told not to migrate, and finds every
\* product as its catalog defines it, the hidden ones hidden.
ServesTheCatalog ==
  \A s \in Servers : phase[s] \in Up =>
    /\ Config(s).mode # "disabled" => tables = Tables
    /\ \A i \in DOMAIN Products : rows[Products[i].code] = DomainProduct(Products[i])

\* The entries the audit service accepted, but for those the database refused,
\* are in the trail, in the writer's hand or in the channel, once each and in
\* their order; after a clean exit they are in the trail.
TrailIsKept ==
  \A s \in Servers :
    LET l == log[s]
        held == IF l.hand = 0 THEN <<>> ELSE <<l.hand>>
        kept == l.written \o held \o l.queue
    IN  /\ \A i, j \in DOMAIN kept : i < j => kept[i] < kept[j]
        /\ {kept[i] : i \in DOMAIN kept} = 1..l.accepted \ l.failed
        /\ ended[s] = "clean" => l.written = kept

\* Of the requests that find their bucket in the map when they take a token,
\* forgetting buckets lets through no more than one bucket would that is kept.
\* (Those that hold a forgotten bucket take from that one, besides.)
BurstsBounded ==
  \A s \in Servers : ideal[s].tokens >= 0

=============================================================================
