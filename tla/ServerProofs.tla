---------------------------- MODULE ServerProofs ----------------------------
(* Whatever the settings, the databases, the number of servers and the order  *)
(* of their steps, restarts included: a server that serves finds its whole    *)
(* catalog (ServesTheCatalog), one that is in production is what the rules    *)
(* for production ask for (ProductionIsSafe), the audit trail is kept in      *)
(* order (TrailIsKept), and a bucket that is forgotten gives no client more   *)
(* than one that is not (BurstsBounded).                                      *)
EXTENDS Server, SequenceTheorems, TLAPS

-----------------------------------------------------------------------------
(* The settings: what the rules for production make of the wiring.           *)

\* The settings by name.
LEMMA SettingsByName ==
  /\ {"env", "mode", "dsn", "keys", "principals", "limiter", "risk", "redirects",
      "algorithm", "signingKey", "secret", "delivery", "cloud", "endpoint", "bucket",
      "creemKey", "creemHook", "sandbox", "creemURL", "creemMap", "rules"}
       \subseteq DOMAIN Settings
  /\ Settings["rules"] = {"", "own", "broken"}
  /\ Settings["sandbox"] = BOOLEAN
  BY DEF Settings

\* Load changes the environment's and the mode's spelling and nothing else.
LEMMA LoadedFields ==
  ASSUME NEW d, Deployment(d)
  PROVE  /\ Loaded(d).env = Plain(d.env) /\ Loaded(d).mode = Plain(d.mode)
         /\ Loaded(d).creemMap = d.creemMap /\ Loaded(d).redirects = d.redirects
         /\ Loaded(d).delivery = d.delivery /\ Loaded(d).rules = d.rules
  BY SettingsByName DEF Deployment, Loaded

\* The products sold are those that production asks to be mapped.
LEMMA SoldIsChecked == Sold = CheckoutSKUs
<1>1. DOMAIN Products = 1..3
  BY DEF Products
<1>2. /\ Products[1] = [code |-> "monthly", visible |-> TRUE]
      /\ Products[2] = [code |-> "lifetime", visible |-> TRUE]
      /\ Products[3] = [code |-> "legacy", visible |-> FALSE]
  BY DEF Products
<1>3. {j \in DOMAIN Products : Products[j].visible} = {1, 2}
  BY <1>1, <1>2
<1> QED
  BY <1>2, <1>3 DEF Sold, CheckoutSKUs

\* Settings that are valid in production, and what is wired from them.
LEMMA ValidInProduction ==
  ASSUME NEW d, Deployment(d), Valid(Loaded(d)), IsProduction(d)
  PROVE  LET c == Loaded(d)
         IN  /\ Production(c) /\ c.mode = "versioned"
             /\ SafeAdmin(c) /\ SafeRateLimit(c) /\ SafeCheckout(c)
             /\ SafeAccess(c) /\ SafeCloudStorage(c) /\ SafeCreem(c)
<1>1. Loaded(d).env = "prod"
  BY LoadedFields DEF IsProduction
<1>2. IsProduction(Loaded(d))
  BY <1>1 DEF IsProduction, Plain
<1> QED
  BY <1>1, <1>2 DEF Valid, Production, SafeDatabase

\* The live provider is wired, with the whole catalog mapped.
LEMMA CreemIsLive ==
  ASSUME NEW c, Production(c), SafeCreem(c)
  PROVE  Creem(c) = "live" /\ Sold \subseteq c.creemMap
<1>1. CheckoutSKUs \subseteq c.creemMap /\ c.creemMap # {}
  BY DEF SafeCreem, EverySKU
<1>2. MapParses(c.creemMap)
  BY <1>1 DEF MapParses, CheckoutSKUs
<1>3. MapsRequired(c.creemMap)
  BY <1>1, SoldIsChecked DEF MapsRequired
<1>4. SameEnvironment(c)
  BY DEF SafeCreem, LiveCreem, SameEnvironment
<1>5. CreemStarts(c) /\ ~c.sandbox
  BY <1>1, <1>2, <1>3, <1>4 DEF SafeCreem, CreemStarts
<1> QED
  BY <1>1, <1>5, SoldIsChecked DEF Creem

\* Administrators are asked who they are, and requests for a key pair.
LEMMA KeysAreKnown ==
  ASSUME NEW c, Production(c), SafeAdmin(c), SafeAccess(c)
  PROVE  Signer(c) = "Ed25519" /\ AdminAuth(c) = "on" /\ Gate(c) = "permission"
<1>1. AdminAuth(c) = "on"
  BY DEF SafeAdmin, Scoped, AdminAuth, Usable
<1>2. Signer(c) = "Ed25519"
  BY DEF SafeAccess, SafeKey, Signer, Ed25519Signs
<1> QED
  BY <1>1, <1>2 DEF Gate

\* Only the delivery and the rules of fulfillment can make the wiring fail.
LEMMA WiresInProduction ==
  ASSUME NEW c, Production(c), SafeAdmin(c), SafeAccess(c), SafeCloudStorage(c),
         c.rules \in {"", "own", "broken"}
  PROVE  Wires(c) \/ c.delivery = "smtp" \/ c.rules = "broken"
<1> SUFFICES ASSUME c.delivery # "smtp", c.rules # "broken" PROVE Wires(c)
  OBVIOUS
<1>1. Delivery(c) = "disabled"
  BY DEF SafeAccess, Delivery
<1>2. FulfillmentCatalog(c) \in {"default", "own"}
  BY DEF FulfillmentCatalog
<1>3. CloudProvider(c) \in {"unconfigured", "s3", "r2"}
  BY DEF SafeCloudStorage, CloudProvider, S3Compatible, S3Endpoint
<1> QED
  BY <1>1, <1>2, <1>3, KeysAreKnown DEF Wires

\* A redirect that the policies let pass is on the list, and is one that
\* production allows.
LEMMA RedirectsAreListed ==
  ASSUME NEW c, Production(c), SafeCheckout(c), NEW url, Accepts(c, url)
  PROVE  url \in c.redirects \cap {"https", "app"}
  BY DEF SafeCheckout, SafeRedirect, Accepts, CheckoutPolicies, Production, RedirectKeys

-----------------------------------------------------------------------------
(* The life of the servers.                                                  *)

\* The products, by their place in the catalog.
LEMMA ProductFacts ==
  /\ Len(Products) = 3 /\ DOMAIN Products = 1..3
  /\ \A i \in 1..3 : Products[i].code \in Codes /\ DomainProduct(Products[i]) \in Row
  /\ \A i, j \in 1..3 : Products[i].code = Products[j].code => i = j
<1>1. Len(Products) = 3 /\ DOMAIN Products = 1..3
  BY DEF Products
<1>2. /\ Products[1] = [code |-> "monthly", visible |-> TRUE]
      /\ Products[2] = [code |-> "lifetime", visible |-> TRUE]
      /\ Products[3] = [code |-> "legacy", visible |-> FALSE]
  BY DEF Products
<1>3. \A i \in 1..3 : DomainProduct(Products[i]) \in Row
  <2>1. /\ DomainProduct(Products[1]) = [fresh |-> TRUE, visible |-> TRUE]
        /\ DomainProduct(Products[2]) = [fresh |-> TRUE, visible |-> TRUE]
        /\ DomainProduct(Products[3]) = [fresh |-> TRUE, visible |-> FALSE]
    BY <1>2 DEF DomainProduct
  <2>2. [fresh |-> TRUE, visible |-> TRUE] \in Row /\ [fresh |-> TRUE, visible |-> FALSE] \in Row
    BY DEF Row
  <2> QED
    BY <2>1, <2>2
<1> QED
  BY <1>1, <1>2, <1>3 DEF Codes

\* Product i is stored as the catalog defines it.
IsStored(i) == rows[Products[i].code] = DomainProduct(Products[i])

Booted == {"reconcile", "wire"} \cup Up

\* The variables are functions of the servers.
Shapes ==
  /\ scene \in Scenes
  /\ phase \in [Servers -> Phases]
  /\ conf = [s \in Servers |-> conf[s]] /\ app = [s \in Servers |-> app[s]]
  /\ at \in [Servers -> Nat] /\ seen \in [Servers -> Row \cup {None, Unread}]

\* A version is on record only when its models are there.
Schema ==
  /\ tables \in 0..Tables /\ recorded \in {"none", "baseline", "renamed"}
  /\ recorded # "none" => tables = Tables
  /\ rows \in [Codes -> Row \cup {None}]

\* A run has settings that Load has let pass; one that serves is wired by them.
Deployed(s) ==
  /\ phase[s] # "down" => Deployment(conf[s]) /\ Valid(Config(s))
  /\ phase[s] \in Up => Wires(Config(s)) /\ app[s] = Wired(Config(s))

\* The migration of a server that is past it has been to the end, its own or not.
Migrated(s) ==
  /\ phase[s] = "down" => at[s] = 0
  /\ phase[s] = "migrate" => at[s] \in 0..Tables-1
  /\ phase[s] \in Booted =>
       /\ Config(s).mode = "versioned" => recorded = "baseline"
       /\ Config(s).mode # "disabled" => tables = Tables

\* The products a server has been through are stored, also when another server
\* has been at them since; and so is one it has found as it should be.
Reconciled(s) ==
  /\ phase[s] # "reconcile" => seen[s] = Unread
  /\ phase[s] = "reconcile" =>
       /\ at[s] \in 1..3 /\ \A i \in 1..at[s]-1 : IsStored(i)
       /\ seen[s] = DomainProduct(Products[at[s]]) => IsStored(at[s])
  /\ phase[s] \in {"wire"} \cup Up => \A i \in 1..3 : IsStored(i)

\* The inductive invariant.
IInv == Shapes /\ Schema /\ \A s \in Servers : Deployed(s) /\ Migrated(s) /\ Reconciled(s)

\* What a step of another server leaves alone.
Keeps(s) ==
  /\ phase'[s] = phase[s] /\ conf'[s] = conf[s] /\ app'[s] = app[s]
  /\ at'[s] = at[s] /\ seen'[s] = seen[s]

\* The database only ever gets closer to what the servers want of it.
Grows ==
  /\ tables' \in 0..Tables /\ tables' >= tables
  /\ recorded' = recorded \/ recorded' = "baseline"
  /\ recorded' # "none" => tables' = Tables
  /\ rows' \in [Codes -> Row \cup {None}]
  /\ \A i \in 1..3 : IsStored(i) => rows'[Products[i].code] = DomainProduct(Products[i])

\* A server that does nothing itself keeps its part of the invariant.
LEMMA OthersKeep ==
  ASSUME NEW s \in Servers, Schema, Deployed(s), Migrated(s), Reconciled(s), Keeps(s), Grows
  PROVE  Deployed(s)' /\ Migrated(s)' /\ Reconciled(s)'
<1>1. Config(s)' = Config(s)
  BY DEF Keeps, Config
<1>2. Deployed(s)'
  BY <1>1 DEF Deployed, Keeps
<1>3. Migrated(s)'
  BY <1>1, TablesAssumption DEF Migrated, Keeps, Grows, Schema
<1>4. \A i \in 1..3 : IsStored(i) => IsStored(i)'
  BY DEF Grows, IsStored
<1>5. Reconciled(s)'
  BY <1>4 DEF Reconciled, Keeps, IsStored
<1> QED
  BY <1>2, <1>3, <1>5

\* A step of one server.
LEMMA OneServer ==
  ASSUME IInv, NEW s \in Servers, \A t \in Servers \ {s} : Keeps(t), Shapes', Grows,
         Deployed(s)', Migrated(s)', Reconciled(s)'
  PROVE  IInv'
<1>1. Schema'
  BY DEF IInv, Schema, Grows
<1>2. ASSUME NEW t \in Servers PROVE Deployed(t)' /\ Migrated(t)' /\ Reconciled(t)'
  <2>1. CASE t = s
    BY <2>1
  <2>2. CASE t # s
    BY <2>2, OthersKeep DEF IInv
  <2> QED
    BY <2>1, <2>2
<1> QED
  BY <1>1, <1>2 DEF IInv

\* A database that is left alone.
LEMMA Untouched ==
  ASSUME IInv, UNCHANGED database
  PROVE  Grows
  BY ProductFacts, TablesAssumption DEF IInv, Schema, Grows, database, IsStored

\* The beginning: all servers are down, the database is one of the scene's.
LEMMA InitIInv ==
  ASSUME Init
  PROVE  IInv
<1>1. Schema
  <2>1. PICK d \in scene.stored : tables = d.tables /\ recorded = d.recorded /\ rows = d.rows
    BY DEF Init
  <2> QED
    BY <2>1, ScenesAssumption DEF Init, Schema
<1>2. Shapes
  BY DEF Init, Shapes, Phases
<1>3. ASSUME NEW s \in Servers PROVE Deployed(s) /\ Migrated(s) /\ Reconciled(s)
  BY DEF Init, Deployed, Migrated, Reconciled, Up, Booted
<1> QED
  BY <1>1, <1>2, <1>3 DEF IInv

\* Steps of the limiter, of the handlers, of the audit trail and of the clock.
LEMMA QuietPreserves ==
  ASSUME IInv, UNCHANGED <<phase, conf, app, at, seen, database, scene>>
  PROVE  IInv'
<1>1. Grows
  BY Untouched
<1>2. Shapes'
  BY DEF IInv, Shapes
<1>3. \A t \in Servers : Keeps(t)
  BY DEF Keeps
<1>4. \A t \in Servers : Deployed(t)' /\ Migrated(t)' /\ Reconciled(t)'
  BY <1>1, <1>3, OthersKeep DEF IInv
<1>5. Schema'
  BY DEF IInv, Schema, database
<1> QED
  BY <1>2, <1>4, <1>5 DEF IInv

\* The end of a run, however it comes.
LEMMA EndsPreserves ==
  ASSUME IInv, NEW s \in Servers, NEW how, Ends(s, how), UNCHANGED <<database, scene>>
  PROVE  IInv'
<1> USE DEF IInv
<1>1. Grows
  BY Untouched
<1>2. Shapes'
  BY DEF Shapes, Ends, Moved, Phases
<1>3. \A t \in Servers \ {s} : Keeps(t)
  BY DEF Shapes, Ends, Moved, Keeps
<1>4. phase'[s] = "down" /\ at'[s] = 0 /\ seen'[s] = Unread
  BY DEF Shapes, Ends, Moved
<1>5. Deployed(s)' /\ Migrated(s)' /\ Reconciled(s)'
  BY <1>4 DEF Deployed, Migrated, Reconciled, Up, Booted
<1> QED
  BY <1>1, <1>2, <1>3, <1>5, OneServer

\* A run begins, or is refused.
LEMMA StartPreserves ==
  ASSUME IInv, NEW s \in Servers, Start(s)
  PROVE  IInv'
<1> USE DEF IInv
<1>1. Grows /\ at' = at /\ seen' = seen /\ app' = app /\ scene' = scene
  BY Untouched DEF Start, bounds
<1>2. PICK d \in scene.deploys[s] :
        \/ UNCHANGED <<phase, conf>>
        \/ /\ Valid(Loaded(d))
           /\ Moved(s, "migrate") /\ conf' = [conf EXCEPT ![s] = d]
  BY DEF Start
<1>3. CASE UNCHANGED <<phase, conf>>
  BY <1>1, <1>3, QuietPreserves DEF Start
<1>4. CASE /\ Valid(Loaded(d))
           /\ Moved(s, "migrate") /\ conf' = [conf EXCEPT ![s] = d]
  <2>1. Deployment(d)
    BY ScenesAssumption DEF Start, Shapes
  <2>2. phase'[s] = "migrate" /\ conf'[s] = d /\ at'[s] = 0 /\ seen'[s] = Unread
    BY <1>1, <1>4 DEF Start, Shapes, Moved, Migrated, Reconciled
  <2>3. Shapes' /\ \A t \in Servers \ {s} : Keeps(t)
    BY <1>1, <1>4 DEF Shapes, Moved, Keeps, Phases
  <2>4. Deployed(s)'
    BY <1>4, <2>1, <2>2 DEF Deployed, Config, Up
  <2>5. Migrated(s)' /\ Reconciled(s)'
    BY <2>2, TablesAssumption DEF Migrated, Reconciled, Up, Booted
  <2> QED
    BY <1>1, <2>3, <2>4, <2>5, OneServer
<1> QED
  BY <1>2, <1>3, <1>4

\* On to the catalog, with a migration that has been to its end.
LEMMA ToCatalogPreserves ==
  ASSUME IInv, NEW s \in Servers, phase[s] = "migrate", ToCatalog(s), Grows,
         UNCHANGED <<conf, app, seen, scene>>,
         Config(s).mode = "versioned" => recorded' = "baseline",
         Config(s).mode # "disabled" => tables' = Tables
  PROVE  IInv'
<1> USE DEF IInv
<1>1. Shapes' /\ \A t \in Servers \ {s} : Keeps(t)
  BY DEF ToCatalog, Moved, Shapes, Keeps, Phases
<1>2. phase'[s] = "reconcile" /\ at'[s] = 1 /\ seen'[s] = Unread /\ Config(s)' = Config(s)
  BY DEF ToCatalog, Moved, Shapes, Reconciled, Config
<1>3. Deployed(s)'
  BY <1>2 DEF Deployed, Up
<1>4. Migrated(s)'
  BY <1>2 DEF Migrated
<1>5. Reconciled(s)'
  BY <1>2, ProductFacts, SentinelsAssumption DEF Reconciled, Up
<1> QED
  BY <1>1, <1>3, <1>4, <1>5, OneServer

LEMMA MigrateTablePreserves ==
  ASSUME IInv, NEW s \in Servers, MigrateTable(s)
  PROVE  IInv'
<1> USE DEF IInv
<1>1. /\ at[s] \in 0..Tables-1 /\ Config(s).mode = "auto" /\ phase[s] = "migrate"
      /\ UNCHANGED <<conf, app, seen, scene, recorded, rows>>
  BY DEF MigrateTable, Migrated, Starting, bounds
<1>2. Grows /\ tables' > at[s]
  BY <1>1, ProductFacts, TablesAssumption DEF MigrateTable, Schema, Grows, IsStored
<1>3. CASE at[s] + 1 = Tables
  <2>1. tables' = Tables
    BY <1>1, <1>2, <1>3, TablesAssumption DEF Grows
  <2> QED
    BY <1>1, <1>2, <1>3, <2>1, ToCatalogPreserves DEF MigrateTable
<1>4. CASE at[s] + 1 # Tables
  <2>1. at' = [at EXCEPT ![s] = @ + 1] /\ phase' = phase
    BY <1>4 DEF MigrateTable
  <2>2. at'[s] = at[s] + 1 /\ at'[s] \in 0..Tables-1
    BY <1>1, <1>4, <2>1, TablesAssumption DEF Shapes
  <2>3. Shapes' /\ \A t \in Servers \ {s} : Keeps(t)
    BY <1>1, <2>1 DEF Shapes, Keeps
  <2>4. Deployed(s)' /\ Migrated(s)' /\ Reconciled(s)'
    BY <1>1, <2>1, <2>2 DEF Deployed, Migrated, Reconciled, Up, Booted, Config
  <2> QED
    BY <1>2, <2>3, <2>4, OneServer
<1> QED
  BY <1>3, <1>4

LEMMA MigrateVersionPreserves ==
  ASSUME IInv, NEW s \in Servers, MigrateVersion(s)
  PROVE  IInv'
<1> USE DEF IInv
<1>1. /\ ToCatalog(s) /\ phase[s] = "migrate" /\ recorded' = "baseline"
      /\ UNCHANGED <<conf, app, seen, scene, rows>>
  BY DEF MigrateVersion, Starting, bounds
<1>2. tables' = Tables
  BY DEF MigrateVersion, Schema
<1>3. Grows
  BY <1>1, <1>2, ProductFacts, TablesAssumption DEF Schema, Grows, IsStored
<1> QED
  BY <1>1, <1>2, <1>3, ToCatalogPreserves

LEMMA SkipMigrationPreserves ==
  ASSUME IInv, NEW s \in Servers, SkipMigration(s)
  PROVE  IInv'
<1>1. /\ ToCatalog(s) /\ phase[s] = "migrate" /\ Config(s).mode = "disabled"
      /\ UNCHANGED <<conf, app, seen, scene, database>>
  BY DEF SkipMigration, Starting, bounds
<1> QED
  BY <1>1, Untouched, ToCatalogPreserves

\* A server reads the row of the product it is at.
LEMMA FindProductPreserves ==
  ASSUME IInv, NEW s \in Servers, FindProduct(s)
  PROVE  IInv'
<1> USE DEF IInv
<1>1. /\ phase[s] = "reconcile" /\ seen' = [seen EXCEPT ![s] = rows[Products[at[s]].code]]
      /\ UNCHANGED <<phase, at, conf, app, scene, database>>
  BY DEF FindProduct, Starting, bounds
<1>2. Grows
  BY <1>1, Untouched
<1>3. at[s] \in 1..3 /\ Products[at[s]].code \in Codes
  BY <1>1, ProductFacts DEF Reconciled
<1>4. rows[Products[at[s]].code] \in Row \cup {None}
  BY <1>3 DEF Schema
<1>5. Shapes' /\ \A t \in Servers \ {s} : Keeps(t)
  BY <1>1, <1>4 DEF Shapes, Keeps
<1>6. seen'[s] = rows[Products[at[s]].code] /\ rows' = rows
  BY <1>1 DEF Shapes, database
<1>7. Deployed(s)' /\ Migrated(s)'
  BY <1>1 DEF Deployed, Migrated, Config, database
<1>8. Reconciled(s)'
  BY <1>1, <1>6 DEF Reconciled, IsStored
<1> QED
  BY <1>2, <1>5, <1>7, <1>8, OneServer

\* ... and writes it: what is stored of a product is its definition from then on.
LEMMA WriteProductPreserves ==
  ASSUME IInv, NEW s \in Servers, WriteProduct(s)
  PROVE  IInv'
<1> USE DEF IInv
<1> DEFINE p == Products[at[s]]
           Stores == rows' = [rows EXCEPT ![p.code] = DomainProduct(p)]
           Leaves == rows' = rows /\ IsStored(at[s])
<1>1. /\ phase[s] = "reconcile" /\ UNCHANGED <<conf, app, scene, tables, recorded>>
      /\ NextProduct(s)
  BY DEF WriteProduct, Starting, bounds
<1>2. at[s] \in 1..3 /\ p.code \in Codes /\ DomainProduct(p) \in Row
  BY <1>1, ProductFacts DEF Reconciled
<1>3. Stores \/ Leaves
  BY <1>1 DEF WriteProduct, Created, Updated, Reconciled
<1>4. /\ rows' \in [Codes -> Row \cup {None}]
      /\ \A i \in 1..3 : IsStored(i) => IsStored(i)'
      /\ rows'[p.code] = DomainProduct(p)
  <2>1. CASE Leaves
    BY <1>2, <2>1 DEF Schema, IsStored, NextProduct
  <2>2. CASE Stores
    <3>1. rows' \in [Codes -> Row \cup {None}] /\ rows'[p.code] = DomainProduct(p)
      BY <1>2, <2>2 DEF Schema
    <3>2. ASSUME NEW i \in 1..3, IsStored(i)
          PROVE  rows'[Products[i].code] = DomainProduct(Products[i])
      <4>1. CASE Products[i].code = p.code
        BY <1>2, <3>1, <4>1, ProductFacts
      <4>2. CASE Products[i].code # p.code
        BY <1>2, <2>2, <3>2, <4>2, ProductFacts DEF Schema, IsStored
      <4> QED
        BY <4>1, <4>2
    <3> QED
      BY <3>1, <3>2 DEF IsStored
  <2> QED
    BY <1>3, <2>1, <2>2
<1>5. Grows
  BY <1>1, <1>4, TablesAssumption DEF Grows, Schema, IsStored
<1>6. seen'[s] = Unread /\ at'[s] = at[s] + 1
  BY <1>1 DEF NextProduct, Shapes
<1>7. /\ phase'[s] \in {"reconcile", "wire"}
      /\ phase'[s] = "reconcile" => at[s] # 3
      /\ phase'[s] = "wire" => at[s] = 3
  BY <1>1, ProductFacts DEF NextProduct, Moved, Shapes
<1>8. Shapes' /\ \A t \in Servers \ {s} : Keeps(t)
  BY <1>1, SMTT(40) DEF NextProduct, Moved, Shapes, Keeps, Phases
<1>9. Deployed(s)'
  BY <1>1, <1>7 DEF Deployed, Config, Up
<1>10. Migrated(s)'
  BY <1>1, <1>7 DEF Migrated, Config, Booted, Up
<1>11. Reconciled(s)'
  <2>1. ASSUME NEW i \in 1..3, i <= at[s] PROVE IsStored(i)'
    <3>1. CASE i = at[s]
      BY <1>4, <3>1 DEF IsStored
    <3>2. CASE i # at[s]
      <4>1. i \in 1..at[s]-1
        BY <1>2, <2>1, <3>2
      <4> QED
        BY <1>1, <1>4, <4>1 DEF Reconciled
    <3> QED
      BY <3>1, <3>2
  <2>2. CASE phase'[s] = "wire"
    BY <1>6, <1>7, <2>1, <2>2 DEF Reconciled, Up
  <2>3. CASE phase'[s] = "reconcile"
    <3>1. at'[s] \in 1..3 /\ \A i \in 1..at'[s]-1 : IsStored(i)'
      BY <1>2, <1>6, <1>7, <2>1, <2>3
    <3>2. Unread # DomainProduct(Products[at'[s]])
      BY <3>1, ProductFacts, SentinelsAssumption
    <3> QED
      BY <1>6, <2>3, <3>1, <3>2 DEF Reconciled, Up, IsStored
  <2> QED
    BY <1>7, <2>2, <2>3
<1> QED
  BY <1>5, <1>8, <1>9, <1>10, <1>11, OneServer

\* A server moves on among the phases in which it serves, or starts to.
LEMMA UpPreserves ==
  ASSUME IInv, NEW s \in Servers, NEW q \in Up, Moved(s, q), phase[s] \in {"wire"} \cup Up,
         UNCHANGED <<conf, seen, scene, database>>, at' \in [Servers -> Nat],
         \A t \in Servers \ {s} : at'[t] = at[t] /\ app'[t] = app[t],
         app' = [t \in Servers |-> app'[t]],
         Wires(Config(s)), app'[s] = Wired(Config(s))
  PROVE  IInv'
<1> USE DEF IInv
<1>1. Grows
  BY Untouched
<1>2. Shapes' /\ \A t \in Servers \ {s} : Keeps(t)
  BY DEF Moved, Shapes, Keeps, Phases
<1>3. phase'[s] = q
  BY DEF Moved, Shapes
<1>4. Deployed(s)'
  BY <1>3 DEF Deployed, Config, Up
<1>5. Migrated(s)'
  BY <1>3 DEF Migrated, Config, Booted, Up, database
<1>6. Reconciled(s)'
  BY <1>3 DEF Reconciled, IsStored, Up, database
<1> QED
  BY <1>1, <1>2, <1>4, <1>5, <1>6, OneServer

LEMMA WirePreserves ==
  ASSUME IInv, NEW s \in Servers, Wire(s)
  PROVE  IInv'
<1>1. CASE ~Wires(Config(s)) /\ Ends(s, "wiring")
  BY <1>1, EndsPreserves DEF Wire, bounds
<1>2. CASE /\ Wires(Config(s)) /\ Moved(s, "serving")
           /\ app' = [app EXCEPT ![s] = Wired(Config(s))]
           /\ at' = [at EXCEPT ![s] = 0]
           /\ UNCHANGED <<conf, seen, ended, req>>
  <2>1. /\ at' \in [Servers -> Nat] /\ app' = [t \in Servers |-> app'[t]]
        /\ app'[s] = Wired(Config(s))
        /\ \A t \in Servers \ {s} : at'[t] = at[t] /\ app'[t] = app[t]
    BY <1>2 DEF IInv, Shapes
  <2>2. phase[s] = "wire" /\ UNCHANGED <<database, scene>>
    BY DEF Wire, bounds
  <2>3. "serving" \in Up
    BY DEF Up
  <2> QED
    BY <1>2, <2>1, <2>2, <2>3, UpPreserves
<1> QED
  BY <1>1, <1>2 DEF Wire

\* A server that stops taking requests, or waits for the audit trail only.
LEMMA WindsDown ==
  ASSUME IInv, NEW s \in Servers, Shutdown(s) \/ Stop(s)
  PROVE  IInv'
<1>1. PICK q \in Up : Moved(s, q)
  BY DEF Shutdown, Stop, Up
<1>2. /\ phase[s] \in Up
      /\ UNCHANGED <<conf, app, at, seen, scene, database>>
  BY DEF Shutdown, Stop, Up, bounds
<1>3. Wires(Config(s)) /\ app[s] = Wired(Config(s))
  BY <1>2 DEF IInv, Deployed
<1>4. at' \in [Servers -> Nat] /\ app' = [t \in Servers |-> app'[t]]
  BY <1>2 DEF IInv, Shapes
<1> QED
  BY <1>1, <1>2, <1>3, <1>4, UpPreserves

LEMMA StepIInv ==
  ASSUME IInv, [Next]_vars
  PROVE  IInv'
<1>1. CASE UNCHANGED vars
  BY <1>1, QuietPreserves DEF vars, bounds
<1>2. CASE Tick
  BY <1>2, QuietPreserves DEF Tick
<1>3. ASSUME NEW s \in Servers, NEW r \in Requests,
             Arrive(s, r) \/ Allow(s, r) \/ Handle(s, r)
      PROVE  IInv'
  BY <1>3, QuietPreserves DEF Arrive, Allow, Handle, bounds
<1>4. ASSUME NEW s \in Servers, Cleanup(s) \/ Take(s) \/ Write(s)
      PROVE  IInv'
  BY <1>4, QuietPreserves DEF Cleanup, Take, Write, bounds
<1>5. ASSUME NEW s \in Servers,
             MigrationFails(s) \/ ReconcileFails(s) \/ Exit(s) \/ ForcedExit(s) \/ Die(s)
      PROVE  IInv'
  BY <1>5, EndsPreserves DEF MigrationFails, ReconcileFails, Exit, ForcedExit, Die, bounds
<1>6. ASSUME NEW s \in Servers,
             \/ Start(s) \/ MigrateTable(s) \/ MigrateVersion(s) \/ SkipMigration(s)
             \/ FindProduct(s) \/ WriteProduct(s) \/ Wire(s) \/ Shutdown(s) \/ Stop(s)
      PROVE  IInv'
  BY <1>6, StartPreserves, MigrateTablePreserves, MigrateVersionPreserves,
     SkipMigrationPreserves, FindProductPreserves, WriteProductPreserves, WirePreserves,
     WindsDown
<1> QED
  BY <1>1, <1>2, <1>3, <1>4, <1>5, <1>6 DEF Next

LEMMA InvariantHolds == Spec => []IInv
  BY InitIInv, StepIInv, PTL DEF Spec

\* Any number of servers, started with any settings on any database of the
\* service, together, again and again: one that takes requests has every table,
\* unless it was told not to migrate, and its whole catalog.
THEOREM CatalogServed == Spec => []ServesTheCatalog
<1>1. IInv => ServesTheCatalog
  BY ProductFacts DEF IInv, Migrated, Reconciled, IsStored, ServesTheCatalog, Booted
<1> QED
  BY <1>1, InvariantHolds, PTL

\* What the invariant says of a server in production.
LEMMA InvariantIsSafe ==
  ASSUME IInv
  PROVE  ProductionIsSafe
<1>1. ASSUME NEW s \in Servers, phase[s] \in Up, IsProduction(conf[s])
      PROVE  /\ app[s].signer = "Ed25519" /\ app[s].delivery # "dev"
             /\ ~app[s].mockPages /\ ~app[s].resets
             /\ app[s].registry.mock = "disabled" /\ app[s].registry.creem = "live"
             /\ Sold \subseteq conf[s].creemMap
             /\ app[s].policies = {"plan", "redirect", "risk"}
             /\ \A url \in {"https", "http", "app", "script", "bare"} :
                  Accepts(Config(s), url) => url \in conf[s].redirects \cap {"https", "app"}
             /\ app[s].gate = "permission" /\ app[s].limited
             /\ recorded = "baseline" /\ tables = Tables
  <2> DEFINE c == Config(s)
  <2>1. Deployment(conf[s]) /\ Valid(c) /\ app[s] = Wired(c) /\ c = Loaded(conf[s])
    BY <1>1 DEF IInv, Deployed, Up, Config
  <2>2. /\ Production(c) /\ c.mode = "versioned"
        /\ SafeAdmin(c) /\ SafeRateLimit(c) /\ SafeCheckout(c) /\ SafeAccess(c) /\ SafeCreem(c)
    BY <1>1, <2>1, ValidInProduction
  <2>3. c.creemMap = conf[s].creemMap /\ c.redirects = conf[s].redirects
    BY <2>1, LoadedFields
  <2>4. recorded = "baseline" /\ tables = Tables
    BY <1>1, <2>2 DEF IInv, Migrated, Booted
  <2>5. IsProduction(c)
    BY <2>2 DEF IsProduction, Production, Plain
  <2> HIDE DEF c
  <2>6. app[s].signer = "Ed25519" /\ app[s].gate = "permission"
    BY <2>1, <2>2, KeysAreKnown DEF Wired
  <2>7. app[s].registry.mock = "disabled" /\ app[s].registry.creem = "live"
    BY <2>1, <2>2, CreemIsLive DEF Wired, Registry
  <2>8. app[s].delivery # "dev"
    <3>1. Delivery(c) # "dev"
      BY <2>2 DEF Delivery
    <3> QED
      BY <2>1, <3>1 DEF Wired
  <2>9. ~app[s].mockPages /\ ~app[s].resets /\ app[s].limited
    <3>1. /\ app[s].mockPages = MockPages(c) /\ app[s].resets = ResetAllowed(c)
          /\ app[s].limited = (c.limiter # "off")
      BY <2>1 DEF Wired
    <3>2. ~MockPages(c) /\ ~ResetAllowed(c) /\ c.limiter # "off"
      BY <2>2, <2>5 DEF MockPages, ResetAllowed, SafeRateLimit
    <3> QED
      BY <3>1, <3>2
  <2>10. app[s].policies = {"plan", "redirect", "risk"}
    <3>1. CheckoutPolicies(c) = {"plan", "redirect", "risk"}
      BY <2>2 DEF CheckoutPolicies, SafeCheckout
    <3> QED
      BY <2>1, <3>1 DEF Wired
  <2> QED
    BY <2>2, <2>3, <2>4, <2>6, <2>7, <2>8, <2>9, <2>10, CreemIsLive, RedirectsAreListed DEF c
<1>2. ASSUME NEW s \in Servers, phase[s] = "wire", IsProduction(conf[s])
      PROVE  Wires(Config(s)) \/ conf[s].delivery = "smtp" \/ conf[s].rules = "broken"
  <2> DEFINE c == Config(s)
  <2>1. Deployment(conf[s]) /\ Valid(c) /\ c = Loaded(conf[s])
    BY <1>2 DEF IInv, Deployed, Config
  <2>2. c.delivery = conf[s].delivery /\ c.rules = conf[s].rules
    BY <2>1, LoadedFields
  <2>3. c.rules \in {"", "own", "broken"}
    BY <2>1, <2>2, SettingsByName DEF Deployment
  <2>4. Production(c) /\ SafeAdmin(c) /\ SafeAccess(c) /\ SafeCloudStorage(c)
    BY <1>2, <2>1, ValidInProduction
  <2> QED
    BY <2>2, <2>3, <2>4, WiresInProduction
<1> QED
  BY <1>1, <1>2 DEF ProductionIsSafe

\* No combination of settings that Load lets pass makes a server in production
\* serve with a mock, a developer's key, an open gate, products that are not
\* mapped or a schema of no known version.
THEOREM ProductionSafe == Spec => []ProductionIsSafe
  BY InvariantHolds, InvariantIsSafe, PTL

-----------------------------------------------------------------------------
(* The audit trail: what a log has kept, as one sequence.                     *)

Held(l) == IF l.hand = 0 THEN <<>> ELSE <<l.hand>>
Kept(l) == l.written \o Held(l) \o l.queue

Ascending(t) == \A i, j \in DOMAIN t : i < j => t[i] < t[j]
Entries(t) == {t[i] : i \in DOMAIN t}

\* A later entry goes to the end.
LEMMA AscendingAppend ==
  ASSUME NEW t \in Seq(Nat), NEW a \in Nat, NEW F \in SUBSET (1..a),
         Ascending(t), Entries(t) = 1..a \ F
  PROVE  Ascending(Append(t, a + 1)) /\ Entries(Append(t, a + 1)) = 1..(a + 1) \ F
<1> DEFINE u == Append(t, a + 1)
<1>1. /\ u \in Seq(Nat) /\ DOMAIN t = 1..Len(t) /\ DOMAIN u = 1..(Len(t) + 1)
      /\ \A i \in 1..Len(t) : u[i] = t[i]
      /\ u[Len(t) + 1] = a + 1
      /\ Len(t) \in Nat
  BY AppendProperties
<1> HIDE DEF u
<1>2. \A i \in 1..Len(t) : t[i] \in 1..a \ F
  BY <1>1 DEF Entries
<1>3. Ascending(u)
  <2> SUFFICES ASSUME NEW i \in 1..(Len(t) + 1), NEW j \in 1..(Len(t) + 1), i < j
               PROVE  u[i] < u[j]
    BY <1>1 DEF Ascending
  <2>0. \A n \in Nat : \A k, l \in 1..(n + 1) :
          k < l => k \in 1..n /\ (l \in 1..n \/ l = n + 1)
    OBVIOUS
  <2>1. i \in 1..Len(t) /\ u[i] = t[i]
    BY <1>1, <2>0
  <2>2. CASE j \in 1..Len(t)
    <3>1. t[i] < t[j]
      BY <1>1, <2>1, <2>2 DEF Ascending
    <3> QED
      BY <1>1, <2>1, <2>2, <3>1
  <2>3. CASE j = Len(t) + 1
    <3>1. t[i] \in 1..a
      BY <1>2, <2>1
    <3>2. \A x \in 1..a : x < a + 1
      OBVIOUS
    <3>3. u[i] \in 1..a /\ u[j] = a + 1
      BY <1>1, <2>1, <2>3, <3>1
    <3> QED
      BY <3>2, <3>3
  <2> QED
    BY <1>1, <2>0, <2>2, <2>3
<1>4. Entries(u) = Entries(t) \cup {a + 1}
  <2>1. 1..(Len(t) + 1) = 1..Len(t) \cup {Len(t) + 1}
    BY <1>1
  <2>2. Entries(u) = {u[i] : i \in 1..Len(t)} \cup {u[Len(t) + 1]}
    BY <1>1, <2>1 DEF Entries
  <2>3. {u[i] : i \in 1..Len(t)} = Entries(t)
    BY <1>1 DEF Entries
  <2> QED
    BY <1>1, <2>2, <2>3
<1>5. 1..(a + 1) \ F = (1..a \ F) \cup {a + 1}
  OBVIOUS
<1> QED
  BY <1>3, <1>4, <1>5 DEF u

\* The places of a sequence that is put together of three.
LEMMA ThreeParts ==
  ASSUME NEW w \in Seq(Nat), NEW e \in Nat, NEW q \in Seq(Nat)
  PROVE  /\ w \o <<e>> \o q \in Seq(Nat)
         /\ DOMAIN (w \o <<e>> \o q) = 1..(Len(w) + 1 + Len(q))
         /\ \A i \in 1..Len(w) : (w \o <<e>> \o q)[i] = w[i]
         /\ (w \o <<e>> \o q)[Len(w) + 1] = e
         /\ \A i \in 1..Len(q) : (w \o <<e>> \o q)[Len(w) + 1 + i] = q[i]
<1> DEFINE v == w \o <<e>>
<1>1. /\ v \in Seq(Nat) /\ Len(v) = Len(w) + 1
      /\ \A i \in 1..Len(w) : v[i] = w[i]
      /\ v[Len(w) + 1] = e
  BY AppendProperties, AppendIsConcat
<1>2. Len(w) \in Nat /\ Len(q) \in Nat
  OBVIOUS
<1> HIDE DEF v
<1>3. /\ v \o q \in Seq(Nat) /\ Len(v \o q) = Len(v) + Len(q)
      /\ \A i \in 1..(Len(v) + Len(q)) : (v \o q)[i] = IF i <= Len(v) THEN v[i] ELSE q[i - Len(v)]
  BY <1>1, ConcatProperties
<1> HIDE DEF v
<1>4. DOMAIN (v \o q) = 1..(Len(w) + 1 + Len(q))
  BY <1>1, <1>3
<1>5. \A i \in 1..Len(w) : (v \o q)[i] = w[i]
  BY <1>1, <1>2, <1>3
<1>6. (v \o q)[Len(w) + 1] = e
  BY <1>1, <1>2, <1>3
<1>7. \A i \in 1..Len(q) : (v \o q)[Len(w) + 1 + i] = q[i]
  <2> SUFFICES ASSUME NEW i \in 1..Len(q) PROVE (v \o q)[Len(w) + 1 + i] = q[i]
    OBVIOUS
  <2>1. /\ Len(w) + 1 + i \in 1..(Len(v) + Len(q)) /\ ~(Len(w) + 1 + i <= Len(v))
        /\ (Len(w) + 1 + i) - Len(v) = i
    BY <1>1, <1>2
  <2> QED
    BY <1>3, <2>1
<1> QED
  BY <1>3, <1>4, <1>5, <1>6, <1>7 DEF v

LEMMA InTheMiddle ==
  ASSUME NEW w \in Seq(Nat), NEW e \in Nat, NEW q \in Seq(Nat)
  PROVE  e \in Entries(w \o <<e>> \o q)
<1>1. PICK t : t = w \o <<e>> \o q
  OBVIOUS
<1>2. DOMAIN t = 1..(Len(w) + 1 + Len(q)) /\ t[Len(w) + 1] = e
  BY <1>1, ThreeParts
<1>3. Len(w) \in Nat /\ Len(q) \in Nat
  OBVIOUS
<1>4. Len(w) + 1 \in DOMAIN t
  BY <1>2, <1>3
<1>5. e \in Entries(t)
  BY <1>2, <1>4 DEF Entries
<1> QED
  BY <1>1, <1>5

LEMMA InParts ==
  ASSUME NEW p \in Seq(Nat), NEW u \in Seq(Nat), NEW q \in Seq(Nat)
  PROVE  (p \o u) \o q = p \o (u \o q)
  BY ConcatAssociative, SMTT(40)

\* The entry in hand is given up.
LEMMA AscendingWithout ==
  ASSUME NEW w \in Seq(Nat), NEW e \in Nat, NEW q \in Seq(Nat),
         Ascending(w \o <<e>> \o q)
  PROVE  Ascending(w \o q) /\ Entries(w \o q) = Entries(w \o <<e>> \o q) \ {e}
<1> DEFINE t == w \o <<e>> \o q
           u == w \o q
           m == Len(w)
           n == Len(q)
<1>1. /\ t \in Seq(Nat) /\ DOMAIN t = 1..(m + 1 + n)
      /\ \A i \in 1..m : t[i] = w[i]
      /\ t[m + 1] = e
      /\ \A i \in 1..n : t[m + 1 + i] = q[i]
  BY ThreeParts
<1>2. /\ u \in Seq(Nat) /\ DOMAIN u = 1..(m + n)
      /\ \A i \in 1..(m + n) : u[i] = IF i <= m THEN w[i] ELSE q[i - m]
  BY ConcatProperties
<1>3. m \in Nat /\ n \in Nat
  OBVIOUS
<1>4. Ascending(t)
  OBVIOUS
<1> HIDE DEF t, u, m, n
<1>5. \A i \in 1..m : u[i] = t[i]
  <2> SUFFICES ASSUME NEW i \in 1..m PROVE u[i] = t[i]
    OBVIOUS
  <2>1. i \in 1..(m + n) /\ i <= m
    BY <1>3
  <2>2. u[i] = w[i]
    BY <1>2, <2>1
  <2> QED
    BY <1>1, <2>2
<1>6. \A i \in (m + 1)..(m + n) : u[i] = t[i + 1]
  <2> SUFFICES ASSUME NEW i \in (m + 1)..(m + n) PROVE u[i] = t[i + 1]
    OBVIOUS
  <2>1. i - m \in 1..n /\ i \in 1..(m + n) /\ ~(i <= m)
    BY <1>3
  <2>2. u[i] = q[i - m]
    BY <1>2, <2>1
  <2>3. t[m + 1 + (i - m)] = q[i - m]
    BY <1>1, <2>1
  <2>4. m + 1 + (i - m) = i + 1
    BY <1>3
  <2> QED
    BY <2>2, <2>3, <2>4
<1>7. \A i, j \in 1..(m + 1 + n) : i < j => t[i] < t[j]
  BY <1>1, <1>4 DEF Ascending
<1>8. \A i \in 1..(m + 1 + n) : t[i] \in Nat
  <2>1. \A i \in DOMAIN t : t[i] \in Nat
    BY <1>1, LenProperties
  <2> QED
    BY <2>1, <1>1
<1>9. Ascending(u)
  <2> SUFFICES ASSUME NEW i \in 1..(m + n), NEW j \in 1..(m + n), i < j PROVE u[i] < u[j]
    BY <1>2 DEF Ascending
  <2>1. CASE j <= m
    BY <2>1, <1>3, <1>5, <1>7
  <2>2. CASE i <= m /\ j > m
    BY <2>2, <1>3, <1>5, <1>6, <1>7
  <2>3. CASE i > m
    <3>1. /\ i \in (m + 1)..(m + n) /\ j \in (m + 1)..(m + n) /\ i + 1 < j + 1
          /\ i + 1 \in 1..(m + 1 + n) /\ j + 1 \in 1..(m + 1 + n)
      BY <2>3, <1>3
    <3>2. t[i + 1] < t[j + 1]
      BY <1>7, <3>1
    <3> QED
      BY <1>6, <3>1, <3>2
  <2> QED
    BY <1>3, <2>1, <2>2, <2>3
<1>10. Entries(u) \subseteq Entries(t) \ {e}
  <2> SUFFICES ASSUME NEW i \in 1..(m + n) PROVE u[i] \in Entries(t) /\ u[i] # e
    BY <1>2 DEF Entries
  <2>1. CASE i <= m
    <3>1. u[i] = t[i] /\ i \in 1..(m + 1 + n) /\ m + 1 \in 1..(m + 1 + n) /\ i < m + 1
      BY <2>1, <1>3, <1>5
    <3>2. t[i] < t[m + 1]
      BY <3>1, <1>7
    <3>3. t[i] \in Entries(t)
      BY <3>1, <1>1 DEF Entries
    <3>4. t[i] # e
      BY <3>1, <3>2, <1>1, <1>8
    <3> QED
      BY <3>1, <3>3, <3>4
  <2>2. CASE i > m
    <3>1. /\ u[i] = t[i + 1] /\ i + 1 \in 1..(m + 1 + n) /\ m + 1 \in 1..(m + 1 + n)
          /\ m + 1 < i + 1
      BY <2>2, <1>3, <1>6
    <3>2. t[m + 1] < t[i + 1]
      BY <3>1, <1>7
    <3>3. t[i + 1] \in Entries(t)
      BY <3>1, <1>1 DEF Entries
    <3>4. t[i + 1] # e
      BY <3>1, <3>2, <1>1, <1>8
    <3> QED
      BY <3>1, <3>3, <3>4
  <2> QED
    BY <1>3, <2>1, <2>2
<1>11. Entries(t) \ {e} \subseteq Entries(u)
  <2> SUFFICES ASSUME NEW i \in 1..(m + 1 + n), t[i] # e PROVE t[i] \in Entries(u)
    BY <1>1 DEF Entries
  <2>1. CASE i <= m
    <3>1. u[i] = t[i] /\ i \in 1..(m + n)
      BY <2>1, <1>3, <1>5
    <3> QED
      BY <3>1, <1>2 DEF Entries
  <2>2. CASE i > m
    <3>1. i # m + 1
      BY <1>1
    <3>2. i - 1 \in (m + 1)..(m + n) /\ i - 1 \in 1..(m + n) /\ (i - 1) + 1 = i
      BY <2>2, <3>1, <1>3
    <3>3. u[i - 1] = t[i]
      BY <3>2, <1>6
    <3> QED
      BY <3>2, <3>3, <1>2 DEF Entries
  <2> QED
    BY <1>3, <2>1, <2>2
<1> QED
  BY <1>9, <1>10, <1>11 DEF t, u

\* What a log is made of, and what it keeps.
LogOK(l) ==
  /\ l \in [queue : Seq(Nat), hand : Nat, accepted : Nat, written : Seq(Nat),
            failed : SUBSET Nat]
  /\ l.failed \subseteq 1..l.accepted
  /\ Ascending(Kept(l)) /\ Entries(Kept(l)) = 1..l.accepted \ l.failed

\* A run begins with an empty log.
LEMMA NewLogOK == LogOK(NoLog)
<1>1. Kept(NoLog) = <<>>
  <2>1. Held(NoLog) = <<>> /\ NoLog.written = <<>> /\ NoLog.queue = <<>>
    BY DEF Held, NoLog
  <2>2. <<>> \o <<>> = <<>>
    OBVIOUS
  <2> QED
    BY <2>1, <2>2 DEF Kept
<1>2. Ascending(<<>>) /\ Entries(<<>>) = {}
  BY DEF Ascending, Entries
<1>3. 1..0 = {}
  OBVIOUS
<1> QED
  BY <1>1, <1>2, <1>3 DEF LogOK, NoLog

\* An entry is accepted.
LEMMA RecordKeeps ==
  ASSUME NEW l, LogOK(l)
  PROVE  LogOK(Record(l))
<1>1. CASE ~(Len(l.queue) < Buffer)
  BY <1>1 DEF Record
<1>2. CASE Len(l.queue) < Buffer
  <2>1. PICK n : n = Record(l)
    OBVIOUS
  <2>2. /\ l.queue \in Seq(Nat) /\ l.hand \in Nat /\ l.accepted \in Nat /\ l.written \in Seq(Nat)
        /\ l.failed \subseteq 1..l.accepted
    BY DEF LogOK
  <2>3. /\ n = [queue |-> Append(l.queue, l.accepted + 1), hand |-> l.hand,
                accepted |-> l.accepted + 1, written |-> l.written, failed |-> l.failed]
    BY <1>2, <2>1 DEF Record, LogOK
  <2>4. Held(l) \in Seq(Nat) /\ Held(n) = Held(l)
    BY <2>2, <2>3 DEF Held
  <2>5. Kept(n) = Append(Kept(l), l.accepted + 1) /\ Kept(l) \in Seq(Nat)
    <3> DEFINE p == l.written \o Held(l)
               e == l.accepted + 1
    <3>1. p \in Seq(Nat) /\ e \in Nat /\ <<e>> \in Seq(Nat)
      BY <2>2, <2>4, ConcatProperties
    <3>2. Kept(l) = p \o l.queue /\ Kept(n) = p \o Append(l.queue, e)
      BY <2>3, <2>4 DEF Kept
    <3> HIDE DEF p, e
    <3>3. Append(l.queue, e) = l.queue \o <<e>>
      BY <2>2, <3>1, AppendIsConcat
    <3>4. p \o l.queue \in Seq(Nat)
      BY <2>2, <3>1, ConcatProperties
    <3>5. Append(p \o l.queue, e) = (p \o l.queue) \o <<e>>
      BY <3>1, <3>4, AppendIsConcat
    <3>6. (p \o l.queue) \o <<e>> = p \o (l.queue \o <<e>>)
      BY <2>2, <3>1, InParts
    <3> QED
      BY <3>2, <3>3, <3>4, <3>5, <3>6 DEF e
  <2>6. Ascending(Kept(n)) /\ Entries(Kept(n)) = 1..(l.accepted + 1) \ l.failed
    <3>1. l.failed \in SUBSET (1..l.accepted)
      BY <2>2
    <3>2. Ascending(Kept(l)) /\ Entries(Kept(l)) = 1..l.accepted \ l.failed
      BY DEF LogOK
    <3>3. /\ Ascending(Append(Kept(l), l.accepted + 1))
          /\ Entries(Append(Kept(l), l.accepted + 1)) = 1..(l.accepted + 1) \ l.failed
      BY <2>2, <2>5, <3>1, <3>2, AscendingAppend
    <3> QED
      BY <2>5, <3>3
  <2>7. /\ n.queue \in Seq(Nat) /\ l.accepted + 1 \in Nat /\ n.failed \subseteq 1..n.accepted
        /\ n.failed \in SUBSET Nat
    BY <2>2, <2>3
  <2>8. /\ n.queue \in Seq(Nat) /\ n.hand \in Nat /\ n.accepted = l.accepted + 1
        /\ n.written \in Seq(Nat) /\ n.failed = l.failed
    BY <2>2, <2>3, <2>7
  <2>9. n \in [queue : Seq(Nat), hand : Nat, accepted : Nat, written : Seq(Nat),
               failed : SUBSET Nat]
    BY <2>2, <2>3, <2>7
  <2> QED
    BY <2>1, <2>6, <2>7, <2>8, <2>9 DEF LogOK
<1> QED
  BY <1>1, <1>2

\* The writer takes the next entry.
LEMMA TakeKeeps ==
  ASSUME NEW l, LogOK(l), l.hand = 0, l.queue # <<>>
  PROVE  LogOK([l EXCEPT !.hand = Head(l.queue), !.queue = Tail(@)])
<1>1. PICK n : n = [l EXCEPT !.hand = Head(l.queue), !.queue = Tail(@)]
  OBVIOUS
<1>2. /\ l.queue \in Seq(Nat) /\ l.accepted \in Nat /\ l.written \in Seq(Nat)
      /\ l.failed \in SUBSET Nat
  BY DEF LogOK
<1>3. Head(l.queue) \in Nat /\ Tail(l.queue) \in Seq(Nat)
  BY <1>2, HeadTailProperties
<1>4. n = [queue |-> Tail(l.queue), hand |-> Head(l.queue), accepted |-> l.accepted,
           written |-> l.written, failed |-> l.failed]
  BY <1>1 DEF LogOK
<1>5. Kept(l) = l.written \o l.queue
  BY <1>2, ConcatEmptySeq DEF Kept, Held
<1>6. l.queue = <<Head(l.queue)>> \o Tail(l.queue)
  <2> DEFINE q == l.queue
             u == <<Head(q)>> \o Tail(q)
  <2>1. /\ Len(Tail(q)) = Len(q) - 1 /\ Len(q) \in Nat /\ Len(q) # 0
        /\ \A i \in 1..Len(Tail(q)) : Tail(q)[i] = q[i + 1]
    BY <1>2, HeadTailProperties, EmptySeq
  <2>2. /\ <<Head(q)>> \in Seq(Nat) /\ Len(<<Head(q)>>) = 1 /\ <<Head(q)>>[1] = Head(q)
        /\ Head(q) = q[1]
    BY <1>3
  <2>3. /\ u \in Seq(Nat) /\ Len(u) = 1 + Len(Tail(q))
        /\ \A i \in 1..(1 + Len(Tail(q))) :
             u[i] = IF i <= 1 THEN <<Head(q)>>[i] ELSE Tail(q)[i - 1]
    <3>1. PICK h, r : h = <<Head(q)>> /\ r = Tail(q)
      OBVIOUS
    <3>2. h \in Seq(Nat) /\ r \in Seq(Nat) /\ Len(h) = 1
      BY <1>3, <2>2, <3>1
    <3>3. /\ h \o r \in Seq(Nat) /\ Len(h \o r) = Len(h) + Len(r)
          /\ \A i \in 1..(Len(h) + Len(r)) :
               (h \o r)[i] = IF i <= Len(h) THEN h[i] ELSE r[i - Len(h)]
      BY <3>2, ConcatProperties, Zenon
    <3> QED
      BY <3>1, <3>2, <3>3, Zenon
  <2>4. q \in Seq(Nat)
    BY <1>2
  <2> HIDE DEF u, q
  <2>5. Len(u) = Len(q)
    BY <2>1, <2>3
  <2>6. ASSUME NEW i \in 1..Len(q) PROVE u[i] = q[i]
    <3>1. CASE i = 1
      BY <2>1, <2>2, <2>3, <3>1
    <3>2. CASE i > 1
      <4>1. i \in 1..(1 + Len(Tail(q))) /\ i - 1 \in 1..Len(Tail(q)) /\ ~(i <= 1)
            /\ (i - 1) + 1 = i
        BY <2>1, <3>2
      <4> QED
        BY <2>1, <2>3, <4>1
    <3> QED
      BY <2>1, <3>1, <3>2
  <2>7. u = q
    BY <2>3, <2>4, <2>5, <2>6, SeqEqual
  <2> QED
    BY <2>7 DEF u, q
<1>7. Head(l.queue) # 0
  <2>1. Head(l.queue) \in Entries((l.written \o <<Head(l.queue)>>) \o Tail(l.queue))
    BY <1>2, <1>3, InTheMiddle
  <2>2. <<Head(l.queue)>> \in Seq(Nat)
    BY <1>3
  <2>3. (l.written \o <<Head(l.queue)>>) \o Tail(l.queue)
          = l.written \o (<<Head(l.queue)>> \o Tail(l.queue))
    BY <1>2, <1>3, <2>2, InParts
  <2>4. Head(l.queue) \in Entries(Kept(l))
    BY <1>5, <1>6, <2>1, <2>3
  <2> QED
    BY <1>2, <2>4 DEF LogOK
<1>8. Kept(n) = Kept(l)
  <2>1. Kept(n) = (l.written \o <<Head(l.queue)>>) \o Tail(l.queue)
    BY <1>4, <1>7 DEF Kept, Held
  <2>2. <<Head(l.queue)>> \in Seq(Nat)
    BY <1>3
  <2>3. Kept(n) = l.written \o (<<Head(l.queue)>> \o Tail(l.queue))
    BY <1>2, <1>3, <2>1, <2>2, InParts
  <2> QED
    BY <1>5, <1>6, <2>3
<1> QED
  BY <1>1, <1>2, <1>3, <1>4, <1>8 DEF LogOK

\* The writer writes the entry in its hand, ...
LEMMA WriteKeeps ==
  ASSUME NEW l, LogOK(l), l.hand # 0
  PROVE  LogOK([l EXCEPT !.hand = 0, !.written = Append(@, l.hand)])
<1>1. PICK n : n = [l EXCEPT !.hand = 0, !.written = Append(@, l.hand)]
  OBVIOUS
<1>2. /\ l.queue \in Seq(Nat) /\ l.hand \in Nat /\ l.accepted \in Nat /\ l.written \in Seq(Nat)
      /\ l.failed \in SUBSET Nat
  BY DEF LogOK
<1>3. Append(l.written, l.hand) = l.written \o <<l.hand>> /\ Append(l.written, l.hand) \in Seq(Nat)
  BY <1>2, AppendIsConcat, AppendProperties
<1>4. n = [queue |-> l.queue, hand |-> 0, accepted |-> l.accepted,
           written |-> Append(l.written, l.hand), failed |-> l.failed]
  BY <1>1 DEF LogOK
<1>5. Kept(n) = Append(l.written, l.hand) \o l.queue
  BY <1>3, <1>4, ConcatEmptySeq DEF Kept, Held
<1>6. Kept(n) = Kept(l)
  BY <1>3, <1>5 DEF Kept, Held
<1> QED
  BY <1>1, <1>2, <1>3, <1>4, <1>6 DEF LogOK

\* ... or gives it up.
LEMMA FailureKeeps ==
  ASSUME NEW l, LogOK(l), l.hand # 0
  PROVE  LogOK([l EXCEPT !.hand = 0, !.failed = @ \cup {l.hand}])
<1>1. PICK n : n = [l EXCEPT !.hand = 0, !.failed = @ \cup {l.hand}]
  OBVIOUS
<1>2. /\ l.queue \in Seq(Nat) /\ l.hand \in Nat /\ l.accepted \in Nat /\ l.written \in Seq(Nat)
      /\ l.failed \in SUBSET Nat
  BY DEF LogOK
<1>3. n = [queue |-> l.queue, hand |-> 0, accepted |-> l.accepted,
           written |-> l.written, failed |-> l.failed \cup {l.hand}]
  BY <1>1 DEF LogOK
<1>4. Kept(n) = l.written \o l.queue
  BY <1>2, <1>3, ConcatEmptySeq DEF Kept, Held
<1>5. Kept(l) = l.written \o <<l.hand>> \o l.queue
  BY DEF Kept, Held
<1>6. Ascending(Kept(n)) /\ Entries(Kept(n)) = Entries(Kept(l)) \ {l.hand}
  <2>1. Ascending(l.written \o <<l.hand>> \o l.queue)
    BY <1>5 DEF LogOK
  <2> QED
    BY <1>2, <1>4, <1>5, <2>1, AscendingWithout
<1>7. l.hand \in 1..l.accepted
  <2>1. l.hand \in Entries(l.written \o <<l.hand>> \o l.queue)
    BY <1>2, InTheMiddle
  <2> QED
    BY <1>5, <2>1 DEF LogOK
<1>8. n.failed \subseteq 1..n.accepted /\ Entries(Kept(n)) = 1..n.accepted \ n.failed
  BY <1>3, <1>6, <1>7 DEF LogOK
<1> QED
  BY <1>1, <1>2, <1>3, <1>6, <1>8 DEF LogOK

-----------------------------------------------------------------------------
(* The limiter: what a bucket holds when it is looked at.                    *)

Bucket == [tokens : 0..MaxTokens, last : Nat]
Full(c) == [tokens |-> MaxTokens, last |-> c]

\* Refilled, of any bucket at any time.
FilledTo(b, c) == LET t == b.tokens + RefillRate * (c - b.last)
                  IN  IF t > MaxTokens THEN MaxTokens ELSE t

LEMMA FilledToBounds ==
  ASSUME NEW b \in Bucket, NEW c \in Nat, b.last <= c
  PROVE  FilledTo(b, c) \in 0..MaxTokens
<1>1. /\ b.tokens \in 0..MaxTokens /\ c - b.last \in Nat /\ RefillRate \in Nat
      /\ MaxTokens \in Nat
  BY LimiterAssumption DEF Bucket
<1>2. PICK x \in Nat : x = RefillRate * (c - b.last)
  BY <1>1
<1>3. b.tokens + x \in Nat
  BY <1>1, <1>2
<1> QED
  BY <1>1, <1>2, <1>3 DEF FilledTo

\* A unit of time later there are as many tokens more, up to the limit.
LEMMA FilledToLater ==
  ASSUME NEW b \in Bucket, NEW c \in Nat, b.last <= c
  PROVE  FilledTo(b, c + 1) = IF FilledTo(b, c) + RefillRate > MaxTokens THEN MaxTokens
                              ELSE FilledTo(b, c) + RefillRate
<1>1. /\ b.tokens \in 0..MaxTokens /\ c - b.last \in Nat /\ RefillRate \in Nat
      /\ MaxTokens \in Nat /\ b.last \in Nat
  BY LimiterAssumption DEF Bucket
<1>2. PICK x \in Nat : x = RefillRate * (c - b.last)
  BY <1>1
<1>3. RefillRate * ((c + 1) - b.last) = x + RefillRate
  <2>1. (c + 1) - b.last = (c - b.last) + 1
    BY <1>1
  <2>2. \A m, n \in Nat : m * (n + 1) = m * n + m
    OBVIOUS
  <2> QED
    BY <1>1, <1>2, <2>1, <2>2
<1>4. PICK y \in Nat : y = b.tokens
  BY <1>1
<1>5. FilledTo(b, c) = IF y + x > MaxTokens THEN MaxTokens ELSE y + x
  BY <1>2, <1>4 DEF FilledTo
<1>6. FilledTo(b, c + 1) = IF y + (x + RefillRate) > MaxTokens THEN MaxTokens
                           ELSE y + (x + RefillRate)
  BY <1>3, <1>4 DEF FilledTo
<1> QED
  BY <1>1, <1>5, <1>6

\* A bucket that has just been looked at holds what it says.
LEMMA FilledToNow ==
  ASSUME NEW n \in 0..MaxTokens, NEW c \in Nat
  PROVE  /\ [tokens |-> n, last |-> c] \in Bucket
         /\ FilledTo([tokens |-> n, last |-> c], c) = n
<1>1. MaxTokens \in Nat /\ RefillRate \in Nat
  BY LimiterAssumption
<1>2. RefillRate * (c - c) = 0
  BY <1>1
<1> QED
  BY <1>1, <1>2 DEF FilledTo, Bucket

LEMMA FullIsFull ==
  ASSUME NEW c \in Nat
  PROVE  Full(c) \in Bucket /\ FilledTo(Full(c), c) = MaxTokens
<1>1. MaxTokens \in 0..MaxTokens
  BY LimiterAssumption
<1> QED
  BY <1>1, FilledToNow DEF Full

\* One that has not been looked at for longer than IdleTime is full.
LEMMA IdleIsFull ==
  ASSUME NEW b \in Bucket, NEW c \in Nat, c - b.last > IdleTime
  PROVE  FilledTo(b, c) = MaxTokens
<1>1. /\ b.tokens \in 0..MaxTokens /\ RefillRate \in Nat /\ IdleTime \in Nat
      /\ MaxTokens \in Nat /\ b.last \in Nat /\ MaxTokens <= RefillRate * (IdleTime + 1)
  BY LimiterAssumption DEF Bucket
<1>2. PICK d \in Nat : c - b.last = (IdleTime + 1) + d
  <2>1. (c - b.last) - (IdleTime + 1) \in Nat
    BY <1>1
  <2>2. c - b.last = (IdleTime + 1) + ((c - b.last) - (IdleTime + 1))
    BY <1>1
  <2> QED
    BY <2>1, <2>2
<1>3. RefillRate * (c - b.last) = RefillRate * (IdleTime + 1) + RefillRate * d
  <2>1. \A m, i, j \in Nat : m * (i + j) = m * i + m * j
    OBVIOUS
  <2> QED
    BY <1>1, <1>2, <2>1
<1>4. PICK x \in Nat, y \in Nat : x = RefillRate * (IdleTime + 1) /\ y = RefillRate * d
  BY <1>1, <1>2
<1>5. FilledTo(b, c) = IF b.tokens + (x + y) > MaxTokens THEN MaxTokens ELSE b.tokens + (x + y)
  BY <1>3, <1>4 DEF FilledTo
<1> QED
  BY <1>1, <1>4, <1>5

-----------------------------------------------------------------------------
(* Servers at work.                                                          *)

\* The variables of the work are functions of the servers and their requests.
WorkShapes ==
  /\ phase \in [Servers -> Phases] /\ clock \in Nat
  /\ ended = [s \in Servers |-> ended[s]] /\ log = [s \in Servers |-> log[s]]
  /\ mapped = [s \in Servers |-> mapped[s]]
  /\ buckets \in [Servers -> Seq(Bucket)] /\ ideal \in [Servers -> Bucket]
  /\ req = [s \in Servers |-> [r \in Requests |-> req[s][r]]]

\* Only a server that serves, or that has just stopped, has requests; and a
\* request that has been handed a bucket holds one there is.
RequestsOK(s) ==
  \A r \in Requests :
    /\ req[s][r].at # "idle" => phase[s] \in {"serving", "draining"}
    /\ req[s][r].at = "limiter" => req[s][r].bucket \in 1..Len(buckets[s])

\* The trail is in order, and a clean exit leaves nothing out of it.
AuditOK(s) ==
  /\ LogOK(log[s])
  /\ ended[s] = "clean" =>
       phase[s] = "down" /\ log[s].queue = <<>> /\ log[s].hand = 0

\* The bucket in the map never holds more than the one that is never forgotten,
\* which is full when there is none in the map.
BucketsOK(s) ==
  /\ \A k \in 1..Len(buckets[s]) : buckets[s][k].last <= clock
  /\ mapped[s] \in 0..Len(buckets[s])
  /\ ideal[s].last <= clock
  /\ IF mapped[s] = 0 THEN FilledTo(ideal[s], clock) = MaxTokens
     ELSE FilledTo(buckets[s][mapped[s]], clock) <= FilledTo(ideal[s], clock)

\* The inductive invariant of the work.
WInv == WorkShapes /\ \A s \in Servers : RequestsOK(s) /\ AuditOK(s) /\ BucketsOK(s)

\* What a step of another server leaves alone.
WorkKeeps(s) ==
  /\ phase'[s] = phase[s] /\ ended'[s] = ended[s] /\ log'[s] = log[s] /\ req'[s] = req[s]
  /\ buckets'[s] = buckets[s] /\ mapped'[s] = mapped[s] /\ ideal'[s] = ideal[s]

LEMMA RequestsKeep ==
  ASSUME NEW s \in Servers, RequestsOK(s), phase'[s] = phase[s], req'[s] = req[s],
         buckets'[s] = buckets[s]
  PROVE  RequestsOK(s)'
  BY DEF RequestsOK

LEMMA AuditKeeps ==
  ASSUME NEW s \in Servers, AuditOK(s), phase'[s] = phase[s], ended'[s] = ended[s],
         log'[s] = log[s]
  PROVE  AuditOK(s)'
  BY DEF AuditOK

LEMMA BucketsKeep ==
  ASSUME NEW s \in Servers, BucketsOK(s), clock' = clock, mapped'[s] = mapped[s],
         buckets'[s] = buckets[s], ideal'[s] = ideal[s]
  PROVE  BucketsOK(s)'
  BY DEF BucketsOK

LEMMA OneWorks ==
  ASSUME WInv, NEW s \in Servers, \A t \in Servers \ {s} : WorkKeeps(t), clock' = clock,
         WorkShapes', RequestsOK(s)', AuditOK(s)', BucketsOK(s)'
  PROVE  WInv'
<1>1. ASSUME NEW t \in Servers PROVE RequestsOK(t)' /\ AuditOK(t)' /\ BucketsOK(t)'
  <2>1. CASE t = s
    BY <2>1
  <2>2. CASE t # s
    <3>1. WorkKeeps(t) /\ RequestsOK(t) /\ AuditOK(t) /\ BucketsOK(t)
      BY <2>2 DEF WInv
    <3> QED
      BY <3>1, RequestsKeep, AuditKeeps, BucketsKeep DEF WorkKeeps
  <2> QED
    BY <2>1, <2>2
<1> QED
  BY <1>1 DEF WInv

\* The beginning: nothing has been asked, accepted or taken.
LEMMA InitWInv ==
  ASSUME Init
  PROVE  WInv
<1>1. WorkShapes
  <2>1. [tokens |-> MaxTokens, last |-> 0] \in Bucket
    BY LimiterAssumption DEF Bucket
  <2>2. ideal \in [Servers -> Bucket]
    BY <2>1 DEF Init
  <2>3. buckets \in [Servers -> Seq(Bucket)]
    BY DEF Init
  <2>4. req = [s \in Servers |-> [r \in Requests |-> req[s][r]]]
    BY DEF Init
  <2> QED
    BY <2>2, <2>3, <2>4 DEF Init, WorkShapes, Phases
<1>2. ASSUME NEW s \in Servers PROVE RequestsOK(s) /\ AuditOK(s) /\ BucketsOK(s)
  <2>1. RequestsOK(s)
    BY DEF Init, RequestsOK, Idle
  <2>2. LogOK(log[s])
    BY NewLogOK DEF Init
  <2>3. AuditOK(s)
    BY <2>2 DEF Init, AuditOK
  <2>4. BucketsOK(s)
    <3>1. FilledTo([tokens |-> MaxTokens, last |-> 0], 0) = MaxTokens
      BY FilledToNow, LimiterAssumption
    <3>2. ideal[s] = [tokens |-> MaxTokens, last |-> 0] /\ mapped[s] = 0 /\ buckets[s] = <<>>
          /\ clock = 0
      BY DEF Init
    <3> QED
      BY <3>1, <3>2 DEF BucketsOK
  <2> QED
    BY <2>1, <2>3, <2>4
<1> QED
  BY <1>1, <1>2 DEF WInv

\* A start moves on, or the server stops taking requests.
LEMMA MovesOn ==
  ASSUME WInv, NEW s \in Servers, NEW p \in Phases, Moved(s, p) \/ UNCHANGED phase,
         phase[s] # "down",
         p \in {"serving", "draining"} \/ (\A r \in Requests : req[s][r].at = "idle"),
         UNCHANGED <<ended, log, limiter, req, clock>>
  PROVE  WInv'
<1>1. CASE UNCHANGED phase
  <2>1. WorkShapes' /\ \A t \in Servers : WorkKeeps(t)
    BY <1>1 DEF WInv, WorkShapes, WorkKeeps, limiter
  <2> QED
    BY <2>1, OneWorks, RequestsKeep, AuditKeeps, BucketsKeep DEF WInv, WorkKeeps
<1>2. CASE Moved(s, p)
  <2>1. phase'[s] = p /\ \A t \in Servers \ {s} : WorkKeeps(t)
    BY <1>2 DEF WInv, WorkShapes, WorkKeeps, limiter, Moved
  <2>2. WorkShapes'
    BY <1>2 DEF WInv, WorkShapes, limiter, Moved
  <2>3. RequestsOK(s)'
    BY <2>1 DEF WInv, RequestsOK, limiter
  <2>4. AuditOK(s)'
    BY <2>1 DEF WInv, AuditOK
  <2>5. BucketsOK(s)'
    BY BucketsKeep DEF WInv, limiter
  <2> QED
    BY <2>1, <2>2, <2>3, <2>4, <2>5, OneWorks
<1> QED
  BY <1>1, <1>2

\* The end of a run: the requests are gone, and the log is what it was.
LEMMA EndsKeepsWork ==
  ASSUME WInv, NEW s \in Servers, NEW how, Ends(s, how), UNCHANGED <<log, limiter, clock>>,
         how = "clean" => log[s].queue = <<>> /\ log[s].hand = 0
  PROVE  WInv'
<1>1. /\ phase'[s] = "down" /\ ended'[s] = how /\ req'[s] = [r \in Requests |-> Idle]
      /\ \A t \in Servers \ {s} : WorkKeeps(t)
  BY DEF WInv, WorkShapes, WorkKeeps, limiter, Ends, Moved
<1>2. WorkShapes'
  <2>1. phase' \in [Servers -> Phases]
    BY DEF WInv, WorkShapes, Ends, Moved, Phases
  <2>2. req' = [t \in Servers |-> [r \in Requests |-> req'[t][r]]]
    BY DEF WInv, WorkShapes, Ends
  <2> QED
    BY <2>1, <2>2 DEF WInv, WorkShapes, Ends, limiter
<1>3. RequestsOK(s)'
  BY <1>1 DEF RequestsOK, Idle
<1>4. AuditOK(s)'
  BY <1>1 DEF WInv, AuditOK
<1>5. BucketsOK(s)'
  BY BucketsKeep DEF WInv, limiter
<1> QED
  BY <1>1, <1>2, <1>3, <1>4, <1>5, OneWorks

\* A run begins, with no bucket and an empty log, or is refused.
LEMMA StartKeepsWork ==
  ASSUME WInv, NEW s \in Servers, Start(s)
  PROVE  WInv'
<1>1. /\ phase[s] = "down" /\ UNCHANGED <<req, clock>>
      /\ log' = [log EXCEPT ![s] = NoLog]
      /\ buckets' = [buckets EXCEPT ![s] = <<>>] /\ mapped' = [mapped EXCEPT ![s] = 0]
      /\ ideal' = [ideal EXCEPT ![s] = Full(clock)]
  BY DEF Start, bounds, Full
<1>2. PICK how \in {"refused", "running"} :
        /\ ended' = [ended EXCEPT ![s] = how]
        /\ Moved(s, "migrate") \/ UNCHANGED phase
  BY DEF Start
<1>3. Full(clock) \in Bucket /\ FilledTo(Full(clock), clock) = MaxTokens
  <2>1. clock \in Nat
    BY DEF WInv, WorkShapes
  <2> QED
    BY <2>1, FullIsFull
<1>4. \A t \in Servers \ {s} : WorkKeeps(t)
  BY <1>1, <1>2 DEF WInv, WorkShapes, WorkKeeps, Moved
<1>5. WorkShapes'
  <2>1. phase' \in [Servers -> Phases]
    BY <1>2 DEF WInv, WorkShapes, Moved, Phases
  <2>2. buckets' \in [Servers -> Seq(Bucket)] /\ ideal' \in [Servers -> Bucket]
    BY <1>1, <1>3 DEF WInv, WorkShapes
  <2> QED
    BY <1>1, <1>2, <2>1, <2>2 DEF WInv, WorkShapes
<1>6. RequestsOK(s)'
  BY <1>1 DEF WInv, RequestsOK
<1>7. AuditOK(s)'
  <2>1. log'[s] = NoLog /\ ended'[s] = how
    BY <1>1, <1>2 DEF WInv, WorkShapes
  <2> QED
    BY <2>1, NewLogOK DEF AuditOK
<1>8. BucketsOK(s)'
  <2>1. buckets'[s] = <<>> /\ mapped'[s] = 0 /\ ideal'[s] = Full(clock) /\ clock' = clock
    BY <1>1 DEF WInv, WorkShapes
  <2>2. ideal'[s].last <= clock'
    BY <2>1 DEF Full, WInv, WorkShapes
  <2> QED
    BY <1>3, <2>1, <2>2 DEF BucketsOK
<1> QED
  BY <1>1, <1>4, <1>5, <1>6, <1>7, <1>8, OneWorks

\* A request arrives and is handed the bucket in the map, or a new one.
LEMMA ArriveKeepsWork ==
  ASSUME WInv, NEW s \in Servers, NEW r \in Requests, Arrive(s, r)
  PROVE  WInv'
<1> USE DEF WInv
<1>1. /\ phase[s] = "serving"
      /\ UNCHANGED <<phase, ended, log, ideal, clock>>
  BY DEF Arrive
<1>2. PICK x : req' = [req EXCEPT ![s][r] = x] /\
        \/ x.at # "limiter" /\ UNCHANGED <<buckets, mapped>>
        \/ x.bucket = mapped[s] /\ mapped[s] # 0 /\ UNCHANGED <<buckets, mapped>>
        \/ /\ mapped[s] = 0 /\ x.bucket = Len(buckets[s]) + 1
           /\ buckets' = [buckets EXCEPT ![s] = Append(@, Full(clock))]
           /\ mapped' = [mapped EXCEPT ![s] = Len(buckets[s]) + 1]
  <2>1. CASE ~app[s].limited
    <3>1. PICK x : x = [at |-> "handling", bucket |-> 0]
      OBVIOUS
    <3>2. Asks(s, r, x) /\ UNCHANGED <<buckets, mapped>> /\ x.at # "limiter"
      BY <2>1, <3>1 DEF Arrive
    <3> QED
      BY <3>2 DEF Asks
  <2>2. CASE app[s].limited /\ mapped[s] # 0
    <3>1. PICK x : x = [at |-> "limiter", bucket |-> mapped[s]]
      OBVIOUS
    <3>2. Asks(s, r, x) /\ UNCHANGED <<buckets, mapped>> /\ x.bucket = mapped[s]
      BY <2>2, <3>1 DEF Arrive
    <3> QED
      BY <2>2, <3>2 DEF Asks
  <2>3. CASE app[s].limited /\ mapped[s] = 0
    <3>1. PICK x : x = [at |-> "limiter", bucket |-> Len(buckets[s]) + 1]
      OBVIOUS
    <3>2. /\ Asks(s, r, x) /\ x.bucket = Len(buckets[s]) + 1
          /\ buckets' = [buckets EXCEPT ![s] = Append(@, Full(clock))]
          /\ mapped' = [mapped EXCEPT ![s] = Len(buckets[s]) + 1]
      BY <2>3, <3>1 DEF Arrive, Full
    <3> QED
      BY <2>3, <3>2 DEF Asks
  <2> QED
    BY <2>1, <2>2, <2>3
<1>3. req' = [t \in Servers |-> [q \in Requests |-> req'[t][q]]]
  BY <1>2 DEF WorkShapes
<1>4. /\ req'[s][r] = x /\ \A q \in Requests \ {r} : req'[s][q] = req[s][q]
      /\ \A t \in Servers \ {s} : req'[t] = req[t]
  BY <1>2 DEF WorkShapes
<1>5. AuditOK(s)'
  BY <1>1, AuditKeeps
<1>6. CASE UNCHANGED <<buckets, mapped>>
  <2>1. \A t \in Servers \ {s} : WorkKeeps(t)
    BY <1>1, <1>4, <1>6 DEF WorkKeeps
  <2>2. WorkShapes'
    BY <1>1, <1>3, <1>6 DEF WorkShapes
  <2>3. BucketsOK(s)'
    BY <1>1, <1>6, BucketsKeep
  <2>4. mapped[s] # 0 => mapped[s] \in 1..Len(buckets[s])
    BY DEF BucketsOK, WorkShapes
  <2>5. x.at = "limiter" => x.bucket \in 1..Len(buckets[s])
    <3>1. CASE x.at = "limiter" /\ mapped[s] = 0
      <4>1. buckets' = [buckets EXCEPT ![s] = Append(@, Full(clock))]
        BY <1>2, <3>1
      <4>2. buckets'[s] = Append(buckets[s], Full(clock)) /\ buckets[s] \in Seq(Bucket)
        BY <4>1 DEF WorkShapes
      <4>3. Full(clock) \in Bucket
        BY FullIsFull DEF WorkShapes
      <4>4. Len(buckets'[s]) = Len(buckets[s]) + 1 /\ Len(buckets[s]) \in Nat
        BY <4>2, <4>3, AppendProperties
      <4> QED
        BY <1>6, <4>4
    <3>2. CASE mapped[s] # 0
      BY <1>2, <2>4, <3>2
    <3> QED
      BY <3>1, <3>2
  <2>6. RequestsOK(s)'
    BY <1>1, <1>4, <1>6, <2>5 DEF RequestsOK
  <2> QED
    BY <1>1, <1>5, <2>1, <2>2, <2>3, <2>6, OneWorks
<1>7. CASE /\ mapped[s] = 0 /\ x.bucket = Len(buckets[s]) + 1
           /\ buckets' = [buckets EXCEPT ![s] = Append(@, Full(clock))]
           /\ mapped' = [mapped EXCEPT ![s] = Len(buckets[s]) + 1]
  <2>1. Full(clock) \in Bucket /\ FilledTo(Full(clock), clock) = MaxTokens /\ clock \in Nat
    BY FullIsFull DEF WorkShapes
  <2>2. buckets[s] \in Seq(Bucket)
    BY DEF WorkShapes
  <2> DEFINE n == Len(buckets[s])
             new == Append(buckets[s], Full(clock))
  <2>3. /\ new \in Seq(Bucket) /\ Len(new) = n + 1 /\ n \in Nat
        /\ \A i \in 1..n : new[i] = buckets[s][i]
        /\ new[n + 1] = Full(clock)
    BY <2>1, <2>2, AppendProperties
  <2>4. buckets'[s] = new /\ mapped'[s] = n + 1
    BY <1>7 DEF WorkShapes
  <2>5. buckets' \in [Servers -> Seq(Bucket)] /\ mapped' = [t \in Servers |-> mapped'[t]]
    BY <1>7, <2>3 DEF WorkShapes
  <2>6. \A t \in Servers \ {s} : WorkKeeps(t)
    BY <1>1, <1>4, <1>7 DEF WorkKeeps, WorkShapes
  <2>7. WorkShapes'
    BY <1>1, <1>3, <2>5 DEF WorkShapes
  <2> HIDE DEF n, new
  <2>8. RequestsOK(s)'
    <3>1. \A i : i \in 1..n => i \in 1..(n + 1)
      BY <2>3
    <3>2. x.bucket \in 1..Len(buckets'[s])
      BY <1>7, <2>3, <2>4 DEF n
    <3>3. \A q \in Requests : req[s][q].at = "limiter" => req[s][q].bucket \in 1..n
      BY DEF RequestsOK, n
    <3> QED
      BY <1>1, <1>4, <2>3, <2>4, <3>1, <3>2, <3>3 DEF RequestsOK
  <2>9. BucketsOK(s)'
    <3>1. \A i \in 1..Len(new) : new[i].last <= clock
      <4>1. Full(clock).last <= clock
        BY <2>1 DEF Full
      <4>2. \A i \in 1..n : new[i].last <= clock
        BY <2>3 DEF BucketsOK, n
      <4> QED
        BY <2>3, <4>1, <4>2
    <3>2. FilledTo(ideal[s], clock) = MaxTokens /\ ideal[s].last <= clock
      BY <1>7 DEF BucketsOK
    <3>3. FilledTo(new[n + 1], clock) <= FilledTo(ideal[s], clock)
      BY <2>1, <2>3, <3>2, LimiterAssumption
    <3>4. n + 1 \in 0..Len(new) /\ n + 1 # 0
      BY <2>3
    <3> QED
      BY <1>1, <2>4, <3>1, <3>2, <3>3, <3>4 DEF BucketsOK
  <2> QED
    BY <1>1, <1>5, <2>6, <2>7, <2>8, <2>9, OneWorks
<1> QED
  BY <1>2, <1>6, <1>7

\* A request looks into its bucket, which may not be the one in the map, and
\* takes a token if there is one.
LEMMA AllowKeepsWork ==
  ASSUME WInv, NEW s \in Servers, NEW r \in Requests, Allow(s, r)
  PROVE  WInv'
<1> USE DEF WInv
<1> DEFINE k == req[s][r].bucket
           b == buckets[s][k]
           n == FilledTo(b, clock)
<1>1. /\ req[s][r].at = "limiter" /\ UNCHANGED <<phase, ended, log, mapped, clock>>
  BY DEF Allow, bounds
<1>2. /\ buckets[s] \in Seq(Bucket) /\ clock \in Nat /\ ideal[s] \in Bucket
      /\ ideal[s].last <= clock
  BY DEF WorkShapes, BucketsOK
<1>3. k \in 1..Len(buckets[s]) /\ b \in Bucket /\ b.last <= clock
  <2>1. k \in 1..Len(buckets[s])
    BY <1>1 DEF RequestsOK
  <2>2. b \in Bucket
    BY <1>2, <2>1
  <2> QED
    BY <2>1, <2>2 DEF BucketsOK
<1>4. n \in 0..MaxTokens /\ FilledTo(ideal[s], clock) \in 0..MaxTokens
  BY <1>2, <1>3, FilledToBounds
<1>5. n = Refilled(buckets[s][req[s][r].bucket])
      /\ FilledTo(ideal[s], clock) = Refilled(ideal[s])
  BY DEF FilledTo, Refilled
<1>6. PICK m \in 0..MaxTokens, i \in 0..MaxTokens,
           x \in {Idle, [at |-> "handling", bucket |-> 0]} :
        /\ buckets' = [buckets EXCEPT ![s][k] = [tokens |-> m, last |-> clock]]
        /\ req' = [req EXCEPT ![s][r] = x] /\ x.at # "limiter"
        /\ x.at # "idle" => phase[s] \in {"serving", "draining"}
        /\ \/ m <= n /\ UNCHANGED ideal
           \/ /\ k = mapped[s] /\ n >= 1 /\ m = n - 1 /\ i = FilledTo(ideal[s], clock) - 1
              /\ ideal' = [ideal EXCEPT ![s] = [tokens |-> i, last |-> clock]]
  <2>1. phase[s] \in {"serving", "draining"}
    BY <1>1 DEF RequestsOK
  <2>2. CASE n >= 1 /\ k = mapped[s]
    <3>1. PICK x \in {Idle, [at |-> "handling", bucket |-> 0]} : x = [at |-> "handling", bucket |-> 0]
      OBVIOUS
    <3>2. /\ buckets' = [buckets EXCEPT ![s][k] = [tokens |-> n - 1, last |-> clock]]
          /\ ideal' = [ideal EXCEPT ![s] = [tokens |-> Refilled(@) - 1, last |-> clock]]
          /\ Asks(s, r, x)
      BY <1>5, <2>2, <3>1 DEF Allow
    <3>3. ideal' = [ideal EXCEPT ![s] = [tokens |-> FilledTo(ideal[s], clock) - 1, last |-> clock]]
      BY <1>5, <3>2
    <3>4. FilledTo(b, clock) <= FilledTo(ideal[s], clock)
      <4>1. mapped[s] # 0
        BY <1>2, <1>3, <2>2
      <4> QED
        BY <2>2, <4>1 DEF BucketsOK
    <3>5. n - 1 \in 0..MaxTokens /\ FilledTo(ideal[s], clock) - 1 \in 0..MaxTokens
      BY <1>4, <2>2, <3>4, LimiterAssumption
    <3>6. x.at # "limiter"
      BY <3>1
    <3> HIDE DEF n, k, b
    <3> QED
      BY <2>1, <2>2, <3>2, <3>3, <3>5, <3>6 DEF Asks
  <2>3. CASE n >= 1 /\ k # mapped[s]
    <3>1. PICK x \in {Idle, [at |-> "handling", bucket |-> 0]} : x = [at |-> "handling", bucket |-> 0]
      OBVIOUS
    <3>2. /\ buckets' = [buckets EXCEPT ![s][k] = [tokens |-> n - 1, last |-> clock]]
          /\ UNCHANGED ideal /\ Asks(s, r, x)
      BY <1>5, <2>3, <3>1 DEF Allow
    <3>3. n - 1 \in 0..MaxTokens /\ n - 1 <= n
      BY <1>4, <2>3, LimiterAssumption
    <3>4. x.at # "limiter"
      BY <3>1
    <3> HIDE DEF n, k, b
    <3> QED
      BY <2>1, <3>2, <3>3, <3>4 DEF Asks
  <2>4. CASE ~(n >= 1)
    <3>1. PICK x \in {Idle, [at |-> "handling", bucket |-> 0]} : x = Idle
      OBVIOUS
    <3>2. /\ buckets' = [buckets EXCEPT ![s][k] = [tokens |-> n, last |-> clock]]
          /\ UNCHANGED ideal /\ Asks(s, r, x)
      BY <1>5, <2>4, <3>1 DEF Allow
    <3>3. x.at # "limiter" /\ n <= n
      BY <1>4, <3>1 DEF Idle
    <3> HIDE DEF n, k, b
    <3> QED
      BY <1>4, <2>1, <3>2, <3>3 DEF Asks
  <2> QED
    BY <2>2, <2>3, <2>4
<1> HIDE DEF k, b, n
<1> DEFINE new == [tokens |-> m, last |-> clock]
<1>7. new \in Bucket /\ FilledTo(new, clock) = m /\ new.last = clock
  BY <1>2, FilledToNow
<1> HIDE DEF new
<1>8. /\ buckets' \in [Servers -> Seq(Bucket)] /\ Len(buckets'[s]) = Len(buckets[s])
      /\ buckets'[s][k] = new
      /\ \A j \in 1..Len(buckets[s]) : j # k => buckets'[s][j] = buckets[s][j]
      /\ \A t \in Servers \ {s} : buckets'[t] = buckets[t]
  <2>1. buckets' = [buckets EXCEPT ![s] = [buckets[s] EXCEPT ![k] = new]]
    BY <1>6 DEF new
  <2>2. /\ [buckets[s] EXCEPT ![k] = new] \in Seq(Bucket)
        /\ Len([buckets[s] EXCEPT ![k] = new]) = Len(buckets[s])
    BY <1>2, <1>3, <1>7, ExceptSeq
  <2> QED
    BY <1>2, <1>3, <2>1, <2>2 DEF WorkShapes
<1>9. /\ ideal' \in [Servers -> Bucket]
      /\ \A t \in Servers \ {s} : ideal'[t] = ideal[t]
  <2>1. [tokens |-> i, last |-> clock] \in Bucket
    BY <1>2, FilledToNow
  <2>2. /\ \/ UNCHANGED ideal
           \/ ideal' = [ideal EXCEPT ![s] = [tokens |-> i, last |-> clock]]
        /\ ideal \in [Servers -> Bucket]
    BY <1>6 DEF WorkShapes
  <2> QED
    BY <2>1, <2>2, ZenonT(30)
<1>10. /\ req' = [t \in Servers |-> [q \in Requests |-> req'[t][q]]]
       /\ req'[s][r] = x /\ \A q \in Requests \ {r} : req'[s][q] = req[s][q]
       /\ \A t \in Servers \ {s} : req'[t] = req[t]
  BY <1>6, ZenonT(40) DEF WorkShapes
<1>11. WorkShapes' /\ \A t \in Servers \ {s} : WorkKeeps(t)
  BY <1>1, <1>8, <1>9, <1>10 DEF WorkShapes, WorkKeeps
<1>12. RequestsOK(s)'
  BY <1>1, <1>6, <1>8, <1>10 DEF RequestsOK
<1>13. AuditOK(s)'
  BY <1>1, AuditKeeps
<1>14. ideal'[s].last <= clock
  <2>1. CASE UNCHANGED ideal
    BY <1>2, <2>1
  <2>2. CASE ideal' = [ideal EXCEPT ![s] = [tokens |-> i, last |-> clock]]
    <3>1. ideal'[s] = [tokens |-> i, last |-> clock]
      BY <2>2 DEF WorkShapes
    <3> QED
      BY <1>2, <3>1
  <2> QED
    BY <1>6, <2>1, <2>2
<1>15. \A j \in 1..Len(buckets'[s]) : buckets'[s][j].last <= clock
  BY <1>2, <1>7, <1>8 DEF BucketsOK
<1>16. IF mapped[s] = 0 THEN FilledTo(ideal'[s], clock) = MaxTokens
       ELSE FilledTo(buckets'[s][mapped[s]], clock) <= FilledTo(ideal'[s], clock)
  <2>1. IF mapped[s] = 0 THEN FilledTo(ideal[s], clock) = MaxTokens
        ELSE FilledTo(buckets[s][mapped[s]], clock) <= FilledTo(ideal[s], clock)
    BY DEF BucketsOK
  <2>2. mapped[s] \in 0..Len(buckets[s])
    BY DEF BucketsOK
  <2>3. CASE m <= n /\ UNCHANGED ideal
    <3>1. CASE mapped[s] = k /\ mapped[s] # 0
      <4>1. FilledTo(buckets'[s][mapped[s]], clock) = m
        BY <1>7, <1>8, <3>1
      <4>2. n <= FilledTo(ideal[s], clock)
        BY <2>1, <3>1 DEF n, b
      <4> QED
        BY <1>4, <2>3, <3>1, <4>1, <4>2
    <3>2. CASE mapped[s] # k /\ mapped[s] # 0
      <4>1. buckets'[s][mapped[s]] = buckets[s][mapped[s]]
        BY <1>2, <1>8, <2>2, <3>2
      <4> QED
        BY <2>1, <2>3, <3>2, <4>1
    <3> QED
      BY <2>1, <2>3, <3>1, <3>2
  <2>4. CASE /\ k = mapped[s] /\ n >= 1 /\ m = n - 1 /\ i = FilledTo(ideal[s], clock) - 1
             /\ ideal' = [ideal EXCEPT ![s] = [tokens |-> i, last |-> clock]]
    <3>1. ideal'[s] = [tokens |-> i, last |-> clock]
      BY <2>4 DEF WorkShapes
    <3>2. FilledTo(ideal'[s], clock) = i
      BY <1>2, <3>1, FilledToNow
    <3>3. mapped[s] # 0
      BY <1>2, <1>3, <2>4
    <3>4. n <= FilledTo(ideal[s], clock)
      BY <2>1, <2>4, <3>3 DEF n, b
    <3>5. FilledTo(buckets'[s][mapped[s]], clock) = m
      BY <1>7, <1>8, <2>4
    <3> QED
      BY <1>4, <2>4, <3>2, <3>3, <3>4, <3>5
  <2> QED
    BY <1>6, <2>3, <2>4
<1>17. BucketsOK(s)'
  <2>1. mapped'[s] \in 0..Len(buckets'[s])
    BY <1>1, <1>8 DEF BucketsOK
  <2> QED
    BY <1>1, <1>14, <1>15, <1>16, <2>1 DEF BucketsOK
<1> QED
  BY <1>1, <1>11, <1>12, <1>13, <1>17, OneWorks

\* A bucket that is forgotten is full, and so is the one that is not.
LEMMA CleanupKeepsWork ==
  ASSUME WInv, NEW s \in Servers, Cleanup(s)
  PROVE  WInv'
<1> USE DEF WInv
<1>1. /\ mapped[s] # 0 /\ clock - buckets[s][mapped[s]].last > IdleTime
      /\ mapped' = [mapped EXCEPT ![s] = 0]
      /\ UNCHANGED <<phase, ended, log, buckets, ideal, req, clock>>
  BY DEF Cleanup, bounds
<1>2. WorkShapes' /\ mapped'[s] = 0 /\ \A t \in Servers \ {s} : WorkKeeps(t)
  BY <1>1 DEF WorkShapes, WorkKeeps
<1>3. RequestsOK(s)' /\ AuditOK(s)'
  BY <1>1, RequestsKeep, AuditKeeps
<1>4. /\ buckets[s] \in Seq(Bucket) /\ mapped[s] \in 1..Len(buckets[s]) /\ clock \in Nat
      /\ ideal[s] \in Bucket /\ ideal[s].last <= clock
  BY <1>1 DEF WorkShapes, BucketsOK
<1>5. buckets[s][mapped[s]] \in Bucket
  BY <1>4
<1>6. FilledTo(buckets[s][mapped[s]], clock) = MaxTokens
  BY <1>1, <1>4, <1>5, IdleIsFull
<1>7. FilledTo(buckets[s][mapped[s]], clock) <= FilledTo(ideal[s], clock)
  BY <1>1 DEF BucketsOK
<1>8. FilledTo(ideal[s], clock) \in 0..MaxTokens
  BY <1>4, FilledToBounds
<1>9. FilledTo(ideal[s], clock) = MaxTokens
  BY <1>6, <1>7, <1>8, LimiterAssumption
<1>10. BucketsOK(s)'
  BY <1>1, <1>2, <1>4, <1>9 DEF BucketsOK
<1> QED
  BY <1>1, <1>2, <1>3, <1>10, OneWorks

\* Time fills all buckets alike.
LEMMA TickKeepsWork ==
  ASSUME WInv, Tick
  PROVE  WInv'
<1> USE DEF WInv
<1>1. /\ clock' = clock + 1 /\ clock \in Nat
      /\ UNCHANGED <<phase, ended, log, buckets, mapped, ideal, req>>
  BY DEF Tick, limiter, WorkShapes
<1>2. WorkShapes'
  BY <1>1 DEF WorkShapes
<1>3. ASSUME NEW s \in Servers PROVE RequestsOK(s)' /\ AuditOK(s)' /\ BucketsOK(s)'
  <2>1. RequestsOK(s)' /\ AuditOK(s)'
    BY <1>1, RequestsKeep, AuditKeeps
  <2>2. buckets[s] \in Seq(Bucket) /\ ideal[s] \in Bucket /\ ideal[s].last <= clock
    BY DEF WorkShapes, BucketsOK
  <2>3. \A j \in 1..Len(buckets[s]) : buckets[s][j].last <= clock + 1
    <3>1. \A j \in 1..Len(buckets[s]) : buckets[s][j] \in Bucket
      BY <2>2
    <3>2. \A j \in 1..Len(buckets[s]) : buckets[s][j].last \in Nat
      BY <3>1 DEF Bucket
    <3> QED
      BY <1>1, <3>2 DEF BucketsOK
  <2>4. ideal[s].last <= clock + 1
    BY <1>1, <2>2 DEF Bucket
  <2> DEFINE f == FilledTo(ideal[s], clock)
  <2>5. /\ f \in 0..MaxTokens
        /\ FilledTo(ideal[s], clock + 1) = IF f + RefillRate > MaxTokens THEN MaxTokens
                                           ELSE f + RefillRate
    BY <1>1, <2>2, FilledToBounds, FilledToLater
  <2> HIDE DEF f
  <2>6. CASE mapped[s] = 0
    <3>1. f = MaxTokens
      BY <2>6 DEF BucketsOK, f
    <3>2. FilledTo(ideal[s], clock + 1) = MaxTokens
      BY <2>5, <3>1, LimiterAssumption
    <3> QED
      BY <1>1, <2>1, <2>3, <2>4, <2>6, <3>2 DEF BucketsOK
  <2>7. CASE mapped[s] # 0
    <3> DEFINE b == buckets[s][mapped[s]]
               g == FilledTo(b, clock)
    <3>1. mapped[s] \in 1..Len(buckets[s]) /\ b \in Bucket /\ b.last <= clock
      <4>1. mapped[s] \in 1..Len(buckets[s])
        BY <2>2, <2>7 DEF BucketsOK
      <4>2. b \in Bucket
        BY <2>2, <4>1
      <4> QED
        BY <4>1, <4>2 DEF BucketsOK
    <3>2. g <= f
      BY <2>7 DEF BucketsOK, f
    <3>3. /\ g \in 0..MaxTokens
          /\ FilledTo(b, clock + 1) = IF g + RefillRate > MaxTokens THEN MaxTokens
                                      ELSE g + RefillRate
      BY <1>1, <3>1, FilledToBounds, FilledToLater
    <3> HIDE DEF g
    <3>4. FilledTo(b, clock + 1) <= FilledTo(ideal[s], clock + 1)
      BY <2>5, <3>2, <3>3, LimiterAssumption
    <3>5. FilledTo(buckets[s][mapped[s]], clock + 1) <= FilledTo(ideal[s], clock + 1)
      BY <3>4
    <3>6. mapped[s] \in 0..Len(buckets[s])
      BY DEF BucketsOK
    <3> HIDE DEF b
    <3> QED
      BY <1>1, <2>1, <2>3, <2>4, <2>7, <3>5, <3>6 DEF BucketsOK
  <2> QED
    BY <2>6, <2>7
<1> QED
  BY <1>2, <1>3

\* A step of the log of a server that is not down.
LEMMA LogKeepsWork ==
  ASSUME WInv, NEW s \in Servers, NEW l, log' = [log EXCEPT ![s] = l], LogOK(l),
         phase[s] # "down", UNCHANGED <<phase, ended, limiter, clock>>,
         \/ UNCHANGED req
         \/ \E r \in Requests : req' = [req EXCEPT ![s][r] = Idle]
  PROVE  WInv'
<1> USE DEF WInv
<1>1. log'[s] = l /\ \A t \in Servers \ {s} : log'[t] = log[t]
  BY DEF WorkShapes
<1>2. /\ req' = [t \in Servers |-> [q \in Requests |-> req'[t][q]]]
      /\ \A t \in Servers \ {s} : req'[t] = req[t]
      /\ \A q \in Requests : req'[s][q] \in {req[s][q], Idle}
  <2>1. CASE UNCHANGED req
    BY <2>1 DEF WorkShapes
  <2>2. CASE \E r \in Requests : req' = [req EXCEPT ![s][r] = Idle]
    <3>1. PICK r \in Requests : req' = [req EXCEPT ![s][r] = Idle]
      BY <2>2
    <3>2. req' = [t \in Servers |-> [q \in Requests |->
                    IF t = s /\ q = r THEN Idle ELSE req[t][q]]]
      BY <3>1 DEF WorkShapes
    <3>3. \A t \in Servers : req'[t] = [q \in Requests |->
                    IF t = s /\ q = r THEN Idle ELSE req[t][q]]
      BY <3>2
    <3>4. \A q \in Requests : req'[s][q] = IF q = r THEN Idle ELSE req[s][q]
      <4>1. req'[s] = [q \in Requests |-> IF s = s /\ q = r THEN Idle ELSE req[s][q]]
        BY <3>3
      <4> QED
        BY <4>1
    <3>5. \A t \in Servers \ {s} : req'[t] = req[t]
      BY <3>3 DEF WorkShapes
    <3>6. req' = [t \in Servers |-> [q \in Requests |-> req'[t][q]]]
      BY <3>2
    <3> QED
      BY <3>4, <3>5, <3>6
  <2> QED
    BY <2>1, <2>2
<1>3. WorkShapes' /\ \A t \in Servers \ {s} : WorkKeeps(t)
  BY <1>1, <1>2 DEF WorkShapes, WorkKeeps, limiter
<1>4. RequestsOK(s)'
  <2>1. \A q \in Requests : req'[s][q].at # "idle" => req'[s][q] = req[s][q]
    BY <1>2 DEF Idle
  <2>2. UNCHANGED <<phase, buckets>>
    BY DEF limiter
  <2> QED
    BY <2>1, <2>2 DEF RequestsOK
<1>5. AuditOK(s)'
  BY <1>1 DEF AuditOK
<1>6. BucketsOK(s)'
  BY BucketsKeep DEF limiter
<1> QED
  BY <1>3, <1>4, <1>5, <1>6, OneWorks

LEMMA HandleKeepsWork ==
  ASSUME WInv, NEW s \in Servers, NEW r \in Requests, Handle(s, r)
  PROVE  WInv'
<1>1. LogOK(log[s]) /\ phase[s] # "down" /\ log = [t \in Servers |-> log[t]]
  BY DEF WInv, WorkShapes, AuditOK, RequestsOK, Handle
<1>2. PICK l \in {log[s], Record(log[s])} : log' = [log EXCEPT ![s] = l]
  BY <1>1 DEF Handle
<1>3. LogOK(l)
  BY <1>1, <1>2, RecordKeeps
<1>4. UNCHANGED <<phase, ended, limiter, clock>> /\ req' = [req EXCEPT ![s][r] = Idle]
  BY DEF Handle, Asks, bounds
<1> QED
  BY <1>1, <1>2, <1>3, <1>4, LogKeepsWork

LEMMA WriterKeepsWork ==
  ASSUME WInv, NEW s \in Servers, Take(s) \/ Write(s)
  PROVE  WInv'
<1>1. LogOK(log[s])
  BY DEF WInv, AuditOK
<1>2. phase[s] # "down" /\ UNCHANGED <<phase, ended, limiter, clock, req>>
  BY DEF Take, Write, Up, bounds
<1>3. \E l : LogOK(l) /\ log' = [log EXCEPT ![s] = l]
  <2>1. CASE Take(s)
    BY <1>1, <2>1, TakeKeeps DEF Take, Trail
  <2>2. CASE Write(s)
    BY <1>1, <2>2, WriteKeeps, FailureKeeps DEF Write, Trail
  <2> QED
    BY <2>1, <2>2
<1> QED
  BY <1>2, <1>3, LogKeepsWork

LEMMA StepWInv ==
  ASSUME WInv, [Next]_vars
  PROVE  WInv'
<1>1. CASE UNCHANGED vars
  BY <1>1, RequestsKeep, AuditKeeps, BucketsKeep DEF WInv, WorkShapes, vars, bounds, limiter
<1>2. CASE Tick
  BY <1>2, TickKeepsWork
<1>3. ASSUME NEW s \in Servers, NEW r \in Requests,
             Arrive(s, r) \/ Allow(s, r) \/ Handle(s, r)
      PROVE  WInv'
  BY <1>3, ArriveKeepsWork, AllowKeepsWork, HandleKeepsWork
<1>4. ASSUME NEW s \in Servers, Cleanup(s) \/ Take(s) \/ Write(s) \/ Start(s)
      PROVE  WInv'
  BY <1>4, CleanupKeepsWork, WriterKeepsWork, StartKeepsWork
<1>5. ASSUME NEW s \in Servers,
             MigrationFails(s) \/ ReconcileFails(s) \/ Exit(s) \/ ForcedExit(s) \/ Die(s)
      PROVE  WInv'
  <2>1. UNCHANGED <<log, limiter, clock>>
    BY <1>5 DEF MigrationFails, ReconcileFails, Exit, ForcedExit, Die, bounds
  <2>2. CASE Exit(s)
    BY <2>1, <2>2, EndsKeepsWork DEF Exit
  <2>3. CASE MigrationFails(s) \/ ReconcileFails(s) \/ ForcedExit(s) \/ Die(s)
    <3>1. \E how \in {"migration", "catalog", "forced", "died"} : Ends(s, how)
      BY <2>3 DEF MigrationFails, ReconcileFails, ForcedExit, Die
    <3> QED
      BY <2>1, <3>1, EndsKeepsWork
  <2> QED
    BY <1>5, <2>2, <2>3
<1>6. ASSUME NEW s \in Servers, Wire(s)
      PROVE  WInv'
  <2>1. UNCHANGED <<log, limiter, clock>> /\ phase[s] = "wire"
    BY <1>6 DEF Wire, bounds
  <2>2. CASE Ends(s, "wiring")
    BY <2>1, <2>2, EndsKeepsWork
  <2>3. CASE Moved(s, "serving") /\ UNCHANGED <<ended, req>>
    BY <2>1, <2>3, MovesOn DEF Phases, Up
  <2> QED
    BY <1>6, <2>2, <2>3 DEF Wire
<1>7. ASSUME NEW s \in Servers,
             MigrateTable(s) \/ MigrateVersion(s) \/ SkipMigration(s) \/ FindProduct(s)
               \/ WriteProduct(s)
      PROVE  WInv'
  <2>1. /\ UNCHANGED <<ended, log, limiter, req, clock>>
        /\ phase[s] \in {"migrate", "reconcile"}
    BY <1>7 DEF MigrateTable, MigrateVersion, SkipMigration, FindProduct, WriteProduct, Starting,
                bounds
  <2>2. \A r \in Requests : req[s][r].at = "idle"
    BY <2>1 DEF WInv, RequestsOK
  <2>3. \E p \in {"reconcile", "wire"} : Moved(s, p) \/ UNCHANGED phase
    BY <1>7 DEF MigrateTable, MigrateVersion, SkipMigration, FindProduct, WriteProduct, ToCatalog,
                NextProduct
  <2> QED
    BY <2>1, <2>2, <2>3, MovesOn DEF Phases
<1>8. ASSUME NEW s \in Servers, Shutdown(s) \/ Stop(s)
      PROVE  WInv'
  <2>1. UNCHANGED <<ended, log, limiter, req, clock>> /\ phase[s] # "down"
    BY <1>8 DEF Shutdown, Stop, bounds
  <2>2. CASE Shutdown(s)
    BY <2>1, <2>2, MovesOn DEF Shutdown, Phases, Up
  <2>3. CASE Stop(s)
    BY <2>1, <2>3, MovesOn DEF Stop, Phases, Up
  <2> QED
    BY <1>8, <2>2, <2>3
<1> QED
  BY <1>1, <1>2, <1>3, <1>4, <1>5, <1>6, <1>7, <1>8 DEF Next

LEMMA WorkHolds == Spec => []WInv
  BY InitWInv, StepWInv, PTL DEF Spec

\* However many requests record what they did, whenever the channel is full, the
\* database refuses an entry, or the server stops: what was accepted and not
\* refused is kept, in its order and once each, and is written by a clean exit.
THEOREM TrailKept == Spec => []TrailIsKept
<1>1. ASSUME WInv PROVE TrailIsKept
  <2> SUFFICES ASSUME NEW s \in Servers
               PROVE  LET l == log[s]
                          held == IF l.hand = 0 THEN <<>> ELSE <<l.hand>>
                          kept == l.written \o held \o l.queue
                      IN  /\ \A i, j \in DOMAIN kept : i < j => kept[i] < kept[j]
                          /\ {kept[i] : i \in DOMAIN kept} = 1..l.accepted \ l.failed
                          /\ ended[s] = "clean" => l.written = kept
    BY DEF TrailIsKept
  <2>1. LogOK(log[s]) /\ AuditOK(s)
    BY <1>1 DEF WInv, AuditOK
  <2>2. PICK l : l = log[s]
    OBVIOUS
  <2>3. PICK kept : kept = Kept(l)
    OBVIOUS
  <2>4. kept = l.written \o (IF l.hand = 0 THEN <<>> ELSE <<l.hand>>) \o l.queue
    BY <2>3 DEF Kept, Held
  <2>5. /\ \A i, j \in DOMAIN kept : i < j => kept[i] < kept[j]
        /\ {kept[i] : i \in DOMAIN kept} = 1..l.accepted \ l.failed
    BY <2>1, <2>2, <2>3 DEF LogOK, Ascending, Entries
  <2>6. ended[s] = "clean" => l.written = kept
    <3> SUFFICES ASSUME ended[s] = "clean" PROVE l.written = kept
      OBVIOUS
    <3>1. l.queue = <<>> /\ l.hand = 0 /\ l.written \in Seq(Nat)
      BY <2>1, <2>2 DEF AuditOK, LogOK
    <3> QED
      BY <2>3, <3>1, ConcatEmptySeq DEF Kept, Held
  <2> QED
    BY <2>2, <2>4, <2>5, <2>6, ZenonT(30)
<1> QED
  BY <1>1, WorkHolds, PTL

\* Whatever the size of the bucket, its rate and the time after which it is
\* forgotten, if it is full again by then: the bucket that is never forgotten
\* has a token for each request that takes one from the bucket in the map.
THEOREM BurstsAreBounded == Spec => []BurstsBounded
<1>1. WInv => BurstsBounded
  BY LimiterAssumption DEF WInv, WorkShapes, Bucket, BurstsBounded
<1> QED
  BY <1>1, WorkHolds, PTL

-----------------------------------------------------------------------------
(* Types.                                                                    *)

\* What a server runs, where it is and what it has wired.
Placed(s) ==
  /\ phase[s] # "down" => /\ s \in scene.servers /\ conf[s] \in scene.deploys[s]
                          /\ ~LoadFails(conf[s])
  /\ phase[s] \notin Up => app[s] = None
  /\ phase[s] = "wire" => at[s] = 4
  /\ phase[s] \in Up => at[s] = 0

Outcomes == {"new", "running", "refused", "migration", "catalog", "wiring", "died", "forced", "clean"}

\* A request is in one of three places, and the channel holds what it can.
Engaged(s) ==
  /\ \A r \in Requests : req[s][r].at \in {"idle", "limiter", "handling"}
  /\ Len(log[s].queue) <= Buffer

TInv == ended \in [Servers -> Outcomes] /\ \A s \in Servers : Placed(s) /\ Engaged(s)

LEMMA InitTInv == ASSUME Init PROVE TInv
<1>1. ended \in [Servers -> Outcomes]
  BY DEF Init, Outcomes
<1>2. ASSUME NEW s \in Servers PROVE Placed(s) /\ Engaged(s)
  BY BufferAssumption DEF Init, Placed, Engaged, Up, Idle, NoLog
<1> QED
  BY <1>1, <1>2 DEF TInv

\* Who leaves the servers where they are keeps their places.
LEMMA StaysPlaced ==
  ASSUME NEW s \in Servers, Placed(s), scene' = scene,
         phase'[s] = phase[s], conf'[s] = conf[s], app'[s] = app[s], at'[s] = at[s]
  PROVE  Placed(s)'
  BY DEF Placed

\* One server moves, the others stay.
LEMMA OneIsPlaced ==
  ASSUME IInv, \A t \in Servers : Placed(t), NEW s \in Servers, \A t \in Servers \ {s} : Keeps(t),
         scene' = scene, Placed(s)'
  PROVE  \A t \in Servers : Placed(t)'
  BY StaysPlaced DEF Keeps

LEMMA EndsPlaced ==
  ASSUME IInv, \A t \in Servers : Placed(t), NEW s \in Servers, NEW how, Ends(s, how), scene' = scene
  PROVE  \A t \in Servers : Placed(t)'
<1>1. \A t \in Servers \ {s} : Keeps(t)
  BY DEF IInv, Shapes, Ends, Moved, Keeps
<1>2. phase'[s] = "down" /\ app'[s] = None
  BY DEF IInv, Shapes, Ends, Moved
<1>3. Placed(s)'
  BY <1>2 DEF Placed, Up
<1> QED
  BY <1>1, <1>3, OneIsPlaced

LEMMA StartPlaced ==
  ASSUME IInv, \A t \in Servers : Placed(t), NEW s \in Servers, Start(s)
  PROVE  \A t \in Servers : Placed(t)'
<1>1. phase[s] = "down" /\ s \in scene.servers /\ UNCHANGED <<app, at, scene>>
  BY DEF Start, bounds
<1>2. PICK d \in scene.deploys[s] :
        \/ UNCHANGED <<phase, conf>>
        \/ ~LoadFails(d) /\ Moved(s, "migrate") /\ conf' = [conf EXCEPT ![s] = d]
  BY DEF Start
<1>3. CASE UNCHANGED <<phase, conf>>
  BY <1>1, <1>3, StaysPlaced
<1>4. CASE ~LoadFails(d) /\ Moved(s, "migrate") /\ conf' = [conf EXCEPT ![s] = d]
  <2>1. \A t \in Servers \ {s} : Keeps(t)
    BY <1>1, <1>4 DEF IInv, Shapes, Moved, Keeps, Start
  <2>2. phase'[s] = "migrate" /\ conf'[s] = d
    BY <1>4 DEF IInv, Shapes, Moved
  <2>3. app[s] = None
    BY <1>1 DEF Placed, Up
  <2>4. Placed(s)'
    BY <1>1, <1>4, <2>2, <2>3 DEF Placed, Up
  <2> QED
    BY <1>1, <2>1, <2>4, OneIsPlaced
<1> QED
  BY <1>2, <1>3, <1>4

\* A start goes on: to the next table, to the catalog, or through it.
LEMMA BootPlaced ==
  ASSUME IInv, \A t \in Servers : Placed(t), NEW s \in Servers,
         MigrateTable(s) \/ MigrateVersion(s) \/ SkipMigration(s) \/ FindProduct(s) \/ WriteProduct(s)
  PROVE  \A t \in Servers : Placed(t)'
<1>1. /\ phase[s] \in {"migrate", "reconcile"} /\ UNCHANGED <<conf, app, scene>>
      /\ \A t \in Servers \ {s} : Keeps(t)
  BY DEF IInv, Shapes, Keeps, MigrateTable, MigrateVersion, SkipMigration, FindProduct, WriteProduct,
     Starting, bounds, ToCatalog, NextProduct, Moved
<1>2. \/ phase'[s] \in {"migrate", "reconcile"}
      \/ phase'[s] = "wire" /\ at'[s] = 4
  <2>1. CASE WriteProduct(s)
    BY <1>1, <2>1, ProductFacts DEF IInv, Shapes, WriteProduct, NextProduct, Moved
  <2>2. CASE MigrateTable(s) \/ MigrateVersion(s) \/ SkipMigration(s) \/ FindProduct(s)
    BY <1>1, <2>2 DEF IInv, Shapes, MigrateTable, MigrateVersion, SkipMigration, FindProduct,
       ToCatalog, Moved
  <2> QED
    BY <2>1, <2>2
<1>3. Placed(s)'
  BY <1>1, <1>2 DEF Placed, Up
<1> QED
  BY <1>1, <1>3, OneIsPlaced

\* A server is wired, and later winds down.
LEMMA UpPlaced ==
  ASSUME IInv, \A t \in Servers : Placed(t), NEW s \in Servers, Wire(s) \/ Shutdown(s) \/ Stop(s)
  PROVE  \A t \in Servers : Placed(t)'
<1>1. scene' = scene
  BY DEF Wire, Shutdown, Stop, bounds
<1>2. CASE Ends(s, "wiring")
  BY <1>1, <1>2, EndsPlaced
<1>3. CASE Moved(s, "serving") /\ at' = [at EXCEPT ![s] = 0] /\ app' = [app EXCEPT ![s] = Wired(Config(s))]
           /\ UNCHANGED <<conf, seen>> /\ phase[s] = "wire"
  <2>1. \A t \in Servers \ {s} : Keeps(t)
    BY <1>3 DEF IInv, Shapes, Moved, Keeps
  <2>2. phase'[s] = "serving" /\ at'[s] = 0 /\ conf'[s] = conf[s]
    BY <1>3 DEF IInv, Shapes, Moved
  <2>3. Placed(s)'
    BY <1>1, <1>3, <2>2 DEF Placed, Up
  <2> QED
    BY <1>1, <2>1, <2>3, OneIsPlaced
<1>4. CASE Shutdown(s) \/ Stop(s)
  <2>1. /\ phase[s] \in Up /\ UNCHANGED <<conf, app, at, seen>>
        /\ phase' = [phase EXCEPT ![s] = "draining"] \/ phase' = [phase EXCEPT ![s] = "stopping"]
    BY <1>4 DEF Shutdown, Stop, Up, Moved
  <2>2. phase'[s] \in Up /\ \A t \in Servers \ {s} : Keeps(t)
    BY <2>1 DEF IInv, Shapes, Keeps, Up
  <2>3. Placed(s)'
    BY <1>1, <2>1, <2>2 DEF Placed, Up
  <2> QED
    BY <1>1, <2>2, <2>3, OneIsPlaced
<1> QED
  BY <1>2, <1>3, <1>4 DEF Wire

\* No step leaves a server where it cannot be.
LEMMA StepPlaces ==
  ASSUME IInv, \A t \in Servers : Placed(t), [Next]_vars
  PROVE  \A t \in Servers : Placed(t)'
<1>1. CASE UNCHANGED vars \/ Tick
  BY <1>1, StaysPlaced DEF vars, bounds, Tick
<1>2. ASSUME NEW s \in Servers, NEW r \in Requests, Arrive(s, r) \/ Allow(s, r) \/ Handle(s, r)
      PROVE  \A t \in Servers : Placed(t)'
  BY <1>2, StaysPlaced DEF Arrive, Allow, Handle, bounds
<1>3. ASSUME NEW s \in Servers, Cleanup(s) \/ Take(s) \/ Write(s)
      PROVE  \A t \in Servers : Placed(t)'
  BY <1>3, StaysPlaced DEF Cleanup, Take, Write, bounds
<1>4. ASSUME NEW s \in Servers,
             MigrationFails(s) \/ ReconcileFails(s) \/ Exit(s) \/ ForcedExit(s) \/ Die(s)
      PROVE  \A t \in Servers : Placed(t)'
  BY <1>4, EndsPlaced DEF MigrationFails, ReconcileFails, Exit, ForcedExit, Die, bounds
<1>5. ASSUME NEW s \in Servers,
             \/ Start(s) \/ MigrateTable(s) \/ MigrateVersion(s) \/ SkipMigration(s)
             \/ FindProduct(s) \/ WriteProduct(s) \/ Wire(s) \/ Shutdown(s) \/ Stop(s)
      PROVE  \A t \in Servers : Placed(t)'
  BY <1>5, StartPlaced, BootPlaced, UpPlaced
<1> QED
  BY <1>1, <1>2, <1>3, <1>4, <1>5 DEF Next

\* A run ends in one of the ways there are.
LEMMA StepOutcomes ==
  ASSUME ended \in [Servers -> Outcomes], [Next]_vars
  PROVE  ended' \in [Servers -> Outcomes]
<1>1. ASSUME UNCHANGED ended PROVE ended' \in [Servers -> Outcomes]
  BY <1>1
<1>2. ASSUME NEW s \in Servers, NEW how \in Outcomes, ended' = [ended EXCEPT ![s] = how]
      PROVE  ended' \in [Servers -> Outcomes]
  BY <1>2
<1>3. CASE UNCHANGED vars \/ Tick
  BY <1>1, <1>3 DEF vars, Tick
<1>4. ASSUME NEW s \in Servers, NEW r \in Requests, Arrive(s, r) \/ Allow(s, r) \/ Handle(s, r)
      PROVE  UNCHANGED ended
  BY <1>4 DEF Arrive, Allow, Handle
<1>5. ASSUME NEW s \in Servers,
             \/ Cleanup(s) \/ Take(s) \/ Write(s) \/ Shutdown(s) \/ Stop(s)
             \/ MigrateTable(s) \/ MigrateVersion(s) \/ SkipMigration(s) \/ FindProduct(s)
             \/ WriteProduct(s)
      PROVE  UNCHANGED ended
  BY <1>5 DEF Cleanup, Take, Write, Shutdown, Stop, MigrateTable, MigrateVersion, SkipMigration,
     FindProduct, WriteProduct, Starting
<1>6. ASSUME NEW s \in Servers,
             \/ Start(s) \/ Wire(s) \/ MigrationFails(s) \/ ReconcileFails(s) \/ Exit(s)
             \/ ForcedExit(s) \/ Die(s)
      PROVE  UNCHANGED ended \/ \E how \in Outcomes : ended' = [ended EXCEPT ![s] = how]
  BY <1>6 DEF Start, Wire, MigrationFails, ReconcileFails, Exit, ForcedExit, Die, Ends, Outcomes
<1> QED
  BY <1>1, <1>2, <1>3, <1>4, <1>5, <1>6 DEF Next

\* The channel takes no entry it has no room for.
LEMMA RoomInTheChannel ==
  ASSUME NEW l, LogOK(l), Len(l.queue) <= Buffer
  PROVE  /\ Len(Record(l).queue) <= Buffer
         /\ l.queue # <<>> => Len(Tail(l.queue)) <= Buffer
<1>1. l.queue \in Seq(Nat) /\ l.accepted \in Nat /\ Buffer \in Nat
  BY BufferAssumption DEF LogOK
<1>2. CASE Len(l.queue) < Buffer
  <2>1. Record(l).queue = Append(l.queue, l.accepted + 1)
    BY <1>2 DEF LogOK, Record
  <2>2. Len(Append(l.queue, l.accepted + 1)) = Len(l.queue) + 1
    BY <1>1
  <2> QED
    BY <1>1, <1>2, <2>1, <2>2
<1>3. CASE ~(Len(l.queue) < Buffer)
  BY <1>1, <1>3 DEF Record
<1> QED
  BY <1>1, <1>2, <1>3

LEMMA StepEngages ==
  ASSUME WInv, \A t \in Servers : Engaged(t), [Next]_vars
  PROVE  \A t \in Servers : Engaged(t)'
<1> DEFINE Places == {"idle", "limiter", "handling"}
<1>1. ASSUME UNCHANGED <<req, log>> PROVE \A t \in Servers : Engaged(t)'
  BY <1>1 DEF Engaged
<1>2. ASSUME NEW s \in Servers, NEW r \in Requests, NEW x, x.at \in Places,
             req' = [req EXCEPT ![s][r] = x],
             \/ UNCHANGED log
             \/ log' = [log EXCEPT ![s] = Record(@)]
      PROVE  \A t \in Servers : Engaged(t)'
  <2> SUFFICES ASSUME NEW t \in Servers PROVE Engaged(t)'
    OBVIOUS
  <2>1. ASSUME NEW q \in Requests PROVE req'[t][q].at \in Places
    <3>1. req[t][q].at \in Places
      BY <1>2 DEF Engaged
    <3>2. req = [u \in Servers |-> [v \in Requests |-> req[u][v]]]
      BY DEF WInv, WorkShapes
    <3>3. req'[t][q] = req[t][q] \/ req'[t][q] = x
      BY <1>2, <3>2, ZenonT(30)
    <3> QED
      BY <1>2, <3>1, <3>3
  <2>2. Len(log'[t].queue) <= Buffer
    <3>1. LogOK(log[s]) /\ Len(log[s].queue) <= Buffer /\ Len(log[t].queue) <= Buffer
      BY DEF WInv, AuditOK, Engaged
    <3>2. Len(Record(log[s]).queue) <= Buffer
      BY <3>1, RoomInTheChannel
    <3>3. log = [u \in Servers |-> log[u]]
      BY DEF WInv, WorkShapes
    <3>4. log'[t] = log[t] \/ log'[t] = Record(log[s])
      BY <1>2, <3>3
    <3> QED
      BY <3>1, <3>2, <3>4
  <2> QED
    BY <2>1, <2>2 DEF Engaged
<1>3. ASSUME NEW s \in Servers, NEW l, Len(l.queue) <= Buffer, log' = [log EXCEPT ![s] = l], UNCHANGED req
      PROVE  \A t \in Servers : Engaged(t)'
  <2> SUFFICES ASSUME NEW t \in Servers PROVE Engaged(t)'
    OBVIOUS
  <2>1. log = [u \in Servers |-> log[u]]
    BY DEF WInv, WorkShapes
  <2>2. log'[t] = log[t] \/ log'[t] = l
    BY <1>3, <2>1
  <2>3. Engaged(t)
    OBVIOUS
  <2> QED
    BY <1>3, <2>2, <2>3 DEF Engaged
<1>4. ASSUME NEW s \in Servers, NEW how, Ends(s, how), UNCHANGED log PROVE \A t \in Servers : Engaged(t)'
  <2> SUFFICES ASSUME NEW t \in Servers PROVE Engaged(t)'
    OBVIOUS
  <2>1. req' = [req EXCEPT ![s] = [r \in Requests |-> Idle]]
    BY <1>4 DEF Ends
  <2>2. req = [u \in Servers |-> [v \in Requests |-> req[u][v]]]
    BY DEF WInv, WorkShapes
  <2>3. req'[t] = req[t] \/ req'[t] = [r \in Requests |-> Idle]
    BY <2>1, <2>2
  <2>4. ASSUME NEW r \in Requests PROVE req'[t][r].at \in Places
    <3>1. req'[t][r] = req[t][r] \/ req'[t][r] = Idle
      BY <2>3
    <3>2. req[t][r].at \in Places
      BY DEF Engaged
    <3>3. Idle.at = "idle"
      BY DEF Idle
    <3> QED
      BY <3>1, <3>2, <3>3
  <2> QED
    BY <1>4, <2>4 DEF Engaged
<1>5. CASE UNCHANGED vars \/ Tick
  BY <1>1, <1>5 DEF vars, Tick
<1>6. ASSUME NEW s \in Servers, NEW r \in Requests, Arrive(s, r) \/ Allow(s, r) \/ Handle(s, r)
      PROVE  \A t \in Servers : Engaged(t)'
  <2>1. UNCHANGED log \/ log' = [log EXCEPT ![s] = Record(@)]
    BY <1>6 DEF Arrive, Allow, Handle
  <2> DEFINE GoesTo(x) == req' = [req EXCEPT ![s][r] = x]
  <2>2. ASSUME NEW x, x.at \in Places, GoesTo(x) PROVE \A t \in Servers : Engaged(t)'
    <3> HIDE DEF Places
    <3> QED
      BY <1>2, <2>1, <2>2
  <2>3. CASE Arrive(s, r)
    <3>1. PICK n : \/ GoesTo([at |-> "handling", bucket |-> 0])
                   \/ GoesTo([at |-> "limiter", bucket |-> mapped[s]])
                   \/ GoesTo([at |-> "limiter", bucket |-> n])
      BY <2>3 DEF Arrive, Asks
    <3> HIDE DEF GoesTo
    <3> QED
      BY <2>2, <3>1
  <2>4. CASE Allow(s, r)
    <3>1. GoesTo([at |-> "handling", bucket |-> 0]) \/ GoesTo([at |-> "idle", bucket |-> 0])
      BY <2>4 DEF Allow, Asks, Idle
    <3> HIDE DEF GoesTo
    <3> QED
      BY <2>2, <3>1
  <2>5. CASE Handle(s, r)
    <3>1. GoesTo([at |-> "idle", bucket |-> 0])
      BY <2>5 DEF Handle, Asks, Idle
    <3> HIDE DEF GoesTo
    <3> QED
      BY <2>2, <3>1
  <2> QED
    BY <1>6, <2>3, <2>4, <2>5
<1>7. ASSUME NEW s \in Servers, Take(s) \/ Write(s) PROVE \A t \in Servers : Engaged(t)'
  <2>1. PICK l : l = log[s]
    OBVIOUS
  <2>2. LogOK(l) /\ Len(l.queue) <= Buffer
    BY <2>1 DEF WInv, AuditOK, Engaged
  <2>3. CASE Take(s)
    <3>1. PICK m : m = [l EXCEPT !.hand = Head(l.queue), !.queue = Tail(@)]
      OBVIOUS
    <3>2. m.queue = Tail(l.queue) /\ l.queue # <<>> /\ log' = [log EXCEPT ![s] = m] /\ UNCHANGED req
      BY <2>1, <2>2, <2>3, <3>1 DEF Take, Trail, LogOK
    <3> QED
      BY <1>3, <2>2, <3>2, RoomInTheChannel
  <2>4. CASE Write(s)
    <3>1. PICK m, n : /\ m = [l EXCEPT !.hand = 0, !.written = Append(@, l.hand)]
                      /\ n = [l EXCEPT !.hand = 0, !.failed = @ \cup {l.hand}]
      OBVIOUS
    <3>2. m.queue = l.queue /\ n.queue = l.queue
      BY <2>2, <3>1 DEF LogOK
    <3>3. UNCHANGED req /\ (log' = [log EXCEPT ![s] = m] \/ log' = [log EXCEPT ![s] = n])
      BY <2>1, <2>4, <3>1 DEF Write, Trail
    <3> QED
      BY <1>3, <2>2, <3>2, <3>3
  <2> QED
    BY <1>7, <2>3, <2>4
<1>8. ASSUME NEW s \in Servers, Start(s) PROVE \A t \in Servers : Engaged(t)'
  <2>1. log' = [log EXCEPT ![s] = NoLog] /\ UNCHANGED req
    BY <1>8 DEF Start
  <2>2. Len(NoLog.queue) <= Buffer
    BY BufferAssumption DEF NoLog
  <2> QED
    BY <1>3, <2>1, <2>2
<1>9. ASSUME NEW s \in Servers,
             MigrationFails(s) \/ ReconcileFails(s) \/ Exit(s) \/ ForcedExit(s) \/ Die(s)
      PROVE  \A t \in Servers : Engaged(t)'
  BY <1>4, <1>9 DEF MigrationFails, ReconcileFails, Exit, ForcedExit, Die
<1>10. ASSUME NEW s \in Servers, Wire(s) PROVE \A t \in Servers : Engaged(t)'
  BY <1>1, <1>4, <1>10 DEF Wire
<1>11. ASSUME NEW s \in Servers,
              \/ Cleanup(s) \/ Shutdown(s) \/ Stop(s) \/ MigrateTable(s) \/ MigrateVersion(s)
              \/ SkipMigration(s) \/ FindProduct(s) \/ WriteProduct(s)
       PROVE  UNCHANGED <<req, log>>
  BY <1>11 DEF Cleanup, Shutdown, Stop, MigrateTable, MigrateVersion, SkipMigration, FindProduct,
     WriteProduct, Starting
<1> HIDE DEF Places
<1> QED
  BY <1>1, <1>5, <1>6, <1>7, <1>8, <1>9, <1>10, <1>11 DEF Next

\* The entry in the writer's hand is one that was accepted.
LEMMA HandIsAccepted ==
  ASSUME NEW l, LogOK(l)
  PROVE  l.hand \in 0..l.accepted
<1>1. l.hand \in Nat /\ l.accepted \in Nat /\ l.written \in Seq(Nat) /\ l.queue \in Seq(Nat)
  BY DEF LogOK
<1>2. CASE l.hand = 0
  BY <1>1, <1>2
<1>3. CASE l.hand # 0
  <2>1. Kept(l) = l.written \o <<l.hand>> \o l.queue
    BY <1>3 DEF Kept, Held
  <2>2. l.hand \in Entries(Kept(l))
    BY <1>1, <2>1, InTheMiddle
  <2> QED
    BY <1>1, <2>2 DEF LogOK
<1> QED
  BY <1>2, <1>3

\* Whatever the servers, their settings and the databases, the variables have
\* their types: a server has wired something exactly while it serves, the
\* channel never holds more than it can, a bucket no more than its tokens, and
\* who works on a table or a product works on one there is (TypeOK).
THEOREM ServersTyped == Spec => []TypeOK
<1>1. IInv /\ TInv /\ [Next]_vars /\ WInv => TInv'
  BY StepPlaces, StepOutcomes, StepEngages DEF TInv
<1>2. ASSUME IInv, WInv, TInv PROVE TypeOK
  <2>1. ASSUME NEW s \in Servers
        PROVE  /\ at[s] \in 0..Tables \cup 1..(Len(Products) + 1)
               /\ seen[s] \in Row \cup {None, Unread}
               /\ app[s] # None <=> phase[s] \in Up
               /\ Len(log[s].queue) <= Buffer /\ log[s].hand \in 0..log[s].accepted
               /\ mapped[s] \in 0..Len(buckets[s])
               /\ \A k \in DOMAIN buckets[s] : buckets[s][k].tokens \in 0..MaxTokens
               /\ \A r \in Requests : req[s][r].at \in {"idle", "limiter", "handling"}
    <3>1. Deployed(s) /\ Migrated(s) /\ Reconciled(s) /\ Placed(s) /\ Engaged(s) /\ AuditOK(s) /\ BucketsOK(s)
      BY <1>2 DEF IInv, TInv, WInv
    <3>2. at[s] \in 0..Tables \cup 1..(Len(Products) + 1)
      <4>1. phase[s] \in Phases /\ Tables \in Nat /\ Len(Products) = 3
        BY <1>2, ProductFacts, TablesAssumption DEF IInv, Shapes
      <4> QED
        BY <3>1, <4>1 DEF Phases, Migrated, Reconciled, Placed
    <3>3. app[s] # None <=> phase[s] \in Up
      <4>1. ASSUME phase[s] \in Up PROVE app[s] # None
        <5>1. phase[s] # "down"
          BY <4>1 DEF Up
        <5>2. /\ s \in Servers \cap scene.servers /\ conf[s] \in scene.deploys[s] /\ scene \in Scenes
              /\ ~LoadFails(conf[s]) /\ Valid(Loaded(conf[s]))
          BY <1>2, <3>1, <5>1 DEF Placed, Deployed, Config, IInv, Shapes
        <5>3. Wires(Loaded(conf[s])) /\ app[s] = Wired(Loaded(conf[s]))
          BY <3>1, <4>1 DEF Deployed, Config
        <5> QED
          BY <5>2, <5>3, WiringAssumption
      <4> QED
        BY <3>1, <4>1 DEF Placed
    <3>4. seen[s] \in Row \cup {None, Unread}
      BY <1>2 DEF IInv, Shapes
    <3>5. log[s].hand \in 0..log[s].accepted
      BY <3>1, HandIsAccepted DEF AuditOK
    <3>6. \A k \in DOMAIN buckets[s] : buckets[s][k].tokens \in 0..MaxTokens
      <4>1. buckets[s] \in Seq(Bucket)
        BY <1>2 DEF WInv, WorkShapes
      <4>2. \A k \in DOMAIN buckets[s] : buckets[s][k] \in Bucket
        BY <4>1
      <4> QED
        BY <4>2 DEF Bucket
    <3> QED
      BY <3>1, <3>2, <3>3, <3>4, <3>5, <3>6 DEF Engaged, BucketsOK
  <2>2. phase \in [Servers -> Phases]
    BY <1>2 DEF IInv, Shapes
  <2>3. ended \in [Servers -> {"new", "running", "refused", "migration", "catalog", "wiring",
                               "died", "forced", "clean"}]
    BY <1>2 DEF TInv, Outcomes
  <2>4. tables \in 0..Tables /\ recorded \in {"none", "baseline", "renamed"}
        /\ rows \in [Codes -> Row \cup {None}]
    BY <1>2 DEF IInv, Schema
  <2> QED
    BY <2>1, <2>2, <2>3, <2>4 DEF TypeOK
<1> QED
  BY <1>1, <1>2, InitTInv, InvariantHolds, WorkHolds, PTL DEF Spec
=============================================================================
