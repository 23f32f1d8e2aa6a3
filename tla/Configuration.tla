---------------------------- MODULE Configuration ----------------------------
(* What a server makes of the settings it is started with: config.Load, the   *)
(* rules config.ValidateProduction applies in production, and what            *)
(* bootstrap.Build wires from the settings that pass.  A setting is one of a  *)
(* few values that the code tells apart; spaces, capitals and the several     *)
(* ways of writing the same value are one variant, with a capital.            *)
EXTENDS FiniteSets, Integers, Sequences

\* The catalog: the products sold, and one for the plan and the legacy products
\* that are stored and hidden.
Products == << [code |-> "monthly", visible |-> TRUE],
               [code |-> "lifetime", visible |-> TRUE],
               [code |-> "legacy", visible |-> FALSE] >>

Sold == {Products[i].code : i \in {j \in DOMAIN Products : Products[j].visible}}

\* The products the rules for production ask to be mapped.
CheckoutSKUs == {"monthly", "lifetime"}

\* The settings of a deployment and the values they take.
Settings ==
  [env        |-> {"prod", "Prod", "dev"},
   dsn        |-> {"file", ":memory:", ""},
   mode       |-> {"versioned", "Versioned", "auto", "disabled", "none"},
   origins    |-> SUBSET {"https", "http", "*"},
   headers    |-> {"on", "short", "off"},
   keys       |-> BOOLEAN,
   principals |-> {"none", "scoped", "powerless", "blank", "garbage"},
   limiter    |-> {"on", "empty", "off"},
   risk       |-> BOOLEAN,
   redirects  |-> SUBSET {"https", "http", "app", "script", "bare"},
   algorithm  |-> {"Ed25519", "HS256", "RS256"},
   signingKey |-> {"seed", "garbage", ""},
   keyID      |-> {"own", "dev", ""},
   secret     |-> {"own", "dev", ""},
   delivery   |-> {"email", "dev", "", "smtp"},
   loginSecret |-> {"own", "dev", ""},
   quotas     |-> {"set", "zero", "negative"},
   cloud      |-> {"", "s3", "R2", "gcs"},
   endpoint   |-> {"https", "http", "path", ""},
   bucket     |-> BOOLEAN,
   targetTTL  |-> BOOLEAN,
   creemKey   |-> {"live", "test", ""},
   creemHook  |-> BOOLEAN,
   sandbox    |-> BOOLEAN,
   creemURL   |-> {"", "prod", "test", "http"},
   creemMap   |-> (SUBSET CheckoutSKUs) \cup {{"garbage"}},
   pages      |-> {"https", "http", ""},
   rules      |-> {"", "own", "broken"},
   wechat     |-> {"none", "valid", "broken"},
   alipay     |-> {"none", "valid", "broken"}]

\* A deployment has a value for each of them.
Deployment(d) ==
  /\ d = [f \in DOMAIN Settings |-> d[f]]
  /\ \A f \in DOMAIN Settings : d[f] \in Settings[f]

Plain(x) ==
  CASE x = "Prod" -> "prod" [] x = "Versioned" -> "versioned" [] x = "R2" -> "r2" [] OTHER -> x

Loaded_EnvAsWritten(d) == [d EXCEPT !.mode = Plain(@)]

\* Load: the settings as the program goes by them.
Loaded(d) == [d EXCEPT !.env = Plain(@), !.mode = Plain(@)]

LoadFails(d) == d.principals = "garbage"

\* ValidateProduction, part by part.
SafeDatabase(c) == c.dsn \notin {"", ":memory:"} /\ c.mode = "versioned"

SafeOrigin(o) == o = "https"
SafeHTTP(c) == c.origins # {} /\ (\A o \in c.origins : SafeOrigin(o)) /\ c.headers = "on"

Scoped(principals) == principals = "scoped"
SafeAdmin(c) == c.keys \/ Scoped(c.principals)

SafeRateLimit(c) == c.limiter = "on"

SafeRedirect(url) == url \in {"https", "app"}
SafeCheckout(c) == c.risk /\ c.redirects # {} /\ \A url \in c.redirects : SafeRedirect(url)

SafeKey(key) == key = "seed"
SafeAccess(c) ==
  /\ c.algorithm = "Ed25519" /\ SafeKey(c.signingKey)
  /\ c.keyID = "own" /\ c.secret # "dev"
  /\ c.delivery \notin {"", "dev"} /\ c.loginSecret = "own"
  /\ c.quotas = "set"

SafeCloudStorage(c) ==
  c.cloud # "" => /\ Plain(c.cloud) \in {"s3", "r2"}
                  /\ c.endpoint = "https" /\ c.bucket /\ c.targetTTL

\* The address and the key fit an environment, which is not the test one.
LiveCreem(c) ==
  /\ c.creemURL \notin {"http", "test"} /\ ~(c.creemURL = "" /\ c.sandbox)
  /\ c.creemKey # "test"

EverySKU(map) == CheckoutSKUs \subseteq map
SafePages(pages) == pages = "https"
SafeCreem(c) ==
  /\ c.creemKey # "" /\ c.creemHook /\ ~c.sandbox
  /\ LiveCreem(c)
  /\ c.creemMap # {} /\ EverySKU(c.creemMap) /\ SafePages(c.pages)

IsProduction(d) == Plain(d.env) = "prod"

Valid(c) ==
  IsProduction(c) =>
    /\ SafeDatabase(c) /\ SafeHTTP(c) /\ SafeAdmin(c) /\ SafeRateLimit(c)
    /\ SafeCheckout(c) /\ SafeAccess(c) /\ SafeCloudStorage(c) /\ SafeCreem(c)

-----------------------------------------------------------------------------
(* What Build makes of settings.  It compares the environment itself.        *)

Production(c) == c.env = "prod"

Ed25519Signs(c) == c.signingKey = "seed"
HMACSigns(c) == c.secret # ""
Signer(c) ==
  CASE c.algorithm = "Ed25519" /\ Ed25519Signs(c) -> "Ed25519"
    [] c.algorithm = "HS256" /\ ~Production(c) /\ HMACSigns(c) -> "HS256"
    [] OTHER -> "fails"

Delivery(c) ==
  CASE c.delivery \in {"", "dev"} /\ ~Production(c) -> "dev"
    [] c.delivery = "smtp" -> "fails"
    [] OTHER -> "disabled"

S3Endpoint(endpoint) == endpoint \in {"https", "http"}
S3Compatible(c) == S3Endpoint(c.endpoint) /\ c.bucket
CloudProvider(c) ==
  CASE c.cloud = "" -> "unconfigured"
    [] Plain(c.cloud) \in {"s3", "r2"} /\ S3Compatible(c) -> Plain(c.cloud)
    [] OTHER -> "fails"

FulfillmentCatalog(c) ==
  CASE c.rules = "" -> "default" [] c.rules = "own" -> "own" [] OTHER -> "fails"

\* NewCreemAdapter: the sandbox, the address and the key must go together.
SameEnvironment(c) ==
  /\ c.sandbox => c.creemURL \notin {"prod", "http"} /\ c.creemKey # "live"
  /\ ~c.sandbox => c.creemURL # "test" /\ c.creemKey # "test"

MapParses(map) == map # {"garbage"}
MapsRequired(map) == Sold \subseteq map
CreemStarts(c) ==
  /\ MapParses(c.creemMap) /\ c.creemMap # {} /\ c.creemKey # "" /\ c.creemHook
  /\ MapsRequired(c.creemMap) /\ SameEnvironment(c)

Creem(c) ==
  IF CreemStarts(c)
  THEN IF c.sandbox THEN "sandbox" ELSE "live"
  ELSE IF c.creemKey # "" \/ c.creemHook \/ c.creemMap # {} THEN "error" ELSE "disabled"

Legacy(credentials) == IF credentials = "valid" THEN "live" ELSE "mock"

Registry(c) ==
  [wechat |-> Legacy(c.wechat), alipay |-> Legacy(c.alipay), creem |-> Creem(c),
   mock |-> IF Production(c) THEN "disabled" ELSE "mock"]

CheckoutPolicies(c) ==
  {"plan"} \cup (IF Production(c) THEN {"redirect"} ELSE {})
           \cup (IF c.risk THEN {"risk"} ELSE {})

\* What the redirect policy goes by: nothing of an address without a scheme or
\* with one that is no place to go to.
RedirectKeys(urls) == urls \ {"script", "bare"}

Accepts(c, url) ==
  "redirect" \in CheckoutPolicies(c) => url \in RedirectKeys(c.redirects)

\* Principals without a key are counted before they are left out.
Usable(c) == c.keys \/ c.principals \in {"scoped", "powerless"}
AdminAuth(c) ==
  CASE Usable(c) -> "on"
    [] ~Usable(c) /\ c.principals = "blank" -> "panics"
    [] OTHER -> IF Production(c) THEN "fails" ELSE "off"

\* A gate asks nobody when no administrator is known.
Gate(c) == IF AdminAuth(c) = "on" THEN "permission" ELSE "open"

\* What is there for developers: the pages of the mock checkout, by Build's
\* comparison, and the reset of a test scenario, by one of its own.
MockPages(c) == ~Production(c)
ResetAllowed(c) == ~IsProduction(c)

Wired(c) ==
  [signer |-> Signer(c), delivery |-> Delivery(c), cloud |-> CloudProvider(c),
   rules |-> FulfillmentCatalog(c), registry |-> Registry(c),
   policies |-> CheckoutPolicies(c), gate |-> Gate(c),
   limited |-> c.limiter # "off", mockPages |-> MockPages(c), resets |-> ResetAllowed(c)]

Wires(c) ==
  /\ "fails" \notin {Signer(c), Delivery(c), CloudProvider(c), FulfillmentCatalog(c)}
  /\ AdminAuth(c) \in {"on", "off"}
=============================================================================
