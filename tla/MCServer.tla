------------------------------ MODULE MCServer ------------------------------
(* The instance of Server that TLC checks, in three scenes: a server started   *)
(* with each deployment that differs from a sound one in one or two settings;  *)
(* two servers that start together, on every database they can find; and one   *)
(* server at work.  One deployment stands for those that are refused, all of   *)
(* which have the same effect.                                                 *)
EXTENDS Server

CONSTANTS s1, s2

Base ==
  [env |-> "prod", dsn |-> "file", mode |-> "versioned", origins |-> {"https"},
   headers |-> "on", keys |-> TRUE, principals |-> "none", limiter |-> "on",
   risk |-> TRUE, redirects |-> {"https", "app"}, algorithm |-> "Ed25519",
   signingKey |-> "seed", keyID |-> "own", secret |-> "", delivery |-> "email",
   loginSecret |-> "own", quotas |-> "set", cloud |-> "s3", endpoint |-> "https",
   bucket |-> TRUE, targetTTL |-> TRUE, creemKey |-> "live", creemHook |-> TRUE,
   sandbox |-> FALSE, creemURL |-> "", creemMap |-> CheckoutSKUs, pages |-> "https",
   rules |-> "", wechat |-> "none", alipay |-> "valid"]

Changed(d) == UNION {{[d EXCEPT ![f] = v] : v \in Settings[f]} : f \in DOMAIN Settings}
Refused(d) == LoadFails(d) \/ ~Valid(Loaded(d))
Deploys == LET all == UNION {Changed(d) : d \in Changed(Base)}
           IN  {d \in all : ~Refused(d)} \cup {CHOOSE d \in all : Refused(d)}

\* The deployments of a rolling start differ in what they do to the database.
Rolling == {Base} \cup {[Base EXCEPT !.env = "dev", !.mode = m] : m \in Settings.mode}

Rows(r) == [c \in Codes |-> r]
NotStored == Rows(None)
Outdated == Rows([fresh |-> FALSE, visible |-> TRUE])
Stored == {[tables |-> 0, recorded |-> "none", rows |-> NotStored],
           [tables |-> 2, recorded |-> "none", rows |-> NotStored],
           [tables |-> Tables, recorded |-> "baseline", rows |-> Outdated],
           [tables |-> Tables, recorded |-> "renamed", rows |-> Outdated]}

Current == [tables |-> Tables, recorded |-> "baseline", rows |-> Outdated]

MCScenes ==
  {[servers |-> {s1}, deploys |-> s1 :> Deploys, stored |-> {Current}, calls |-> 0, time |-> 0],
   [servers |-> {s1, s2}, deploys |-> s1 :> Rolling @@ s2 :> Rolling, stored |-> Stored,
    calls |-> 0, time |-> 0],
   [servers |-> {s1}, deploys |-> s1 :> {Base}, stored |-> {Current}, calls |-> 5, time |-> 4]}
=============================================================================
