--------------------------- MODULE Configuration ---------------------------
(***************************************************************************)
(* What the environment may be (config.ts and the boot checks of main.ts), *)
(* and what the process makes of it where two places must agree: the       *)
(* limiters and registries buildApp sizes, the providers the session       *)
(* offers, and the channel a one-time code leaves by.                      *)
(*                                                                         *)
(* An environment is a function of the variables that are set.  A secret,  *)
(* a name or an address is a value that stands for itself; its length and  *)
(* its form are not modelled.                                              *)
(***************************************************************************)
EXTENDS Naturals, Sequences, FiniteSetsExt

\* The variables that hold a number, and what the schema takes.
Ranges ==
  [UPSTREAM_CONCURRENCY |-> 1 .. 64, REQUEST_TIMEOUT_MS |-> 1000 .. 300000,
   UPSTREAM_CONTEXT_OVERHEAD_UNITS |-> 0 .. 1000000,
   RATE_LIMIT_RPM |-> 1 .. 100000, RATE_LIMIT_BURST |-> 1 .. 100000,
   RATE_LIMIT_MAX_ENTRIES |-> 64 .. 100000, STREAM_IDLE_TIMEOUT_MS |-> 1000 .. 300000,
   RETENTION_DAYS |-> 1 .. 3650, TENANT_MAX_CONCURRENT |-> 1 .. 64,
   TENANT_LIMIT_MAX_ENTRIES |-> 16 .. 100000, SESSION_TTL_HOURS |-> 1 .. 720,
   OTP_TTL_MINUTES |-> 1 .. 60, OTP_MAX_ATTEMPTS |-> 1 .. 20, OTP_RESEND_SECONDS |-> 15 .. 3600]

Numbers == DOMAIN Ranges

\* The schema's defaults: a variable with none is left unset.
Defaults ==
  [NODE_ENV |-> "production", UPSTREAM_CONCURRENCY |-> 4, REQUEST_TIMEOUT_MS |-> 120000,
   UPSTREAM_CONTEXT_OVERHEAD_UNITS |-> 2250, RATE_LIMIT_RPM |-> 120, RATE_LIMIT_BURST |-> 30,
   RATE_LIMIT_MAX_ENTRIES |-> 2048, STREAM_IDLE_TIMEOUT_MS |-> 60000, RETENTION_DAYS |-> 90,
   TENANT_MAX_CONCURRENT |-> 2, TENANT_LIMIT_MAX_ENTRIES |-> 512, SESSION_TTL_HOURS |-> 12,
   OTP_TTL_MINUTES |-> 10, OTP_MAX_ATTEMPTS |-> 5, OTP_RESEND_SECONDS |-> 60,
   METRICS_ENABLED |-> "false", CONSOLE_ENABLED |-> "true", OTP_DELIVERY |-> "log",
   PUBLIC_BASE_URL |-> "https"]

Config(env) ==
  [v \in DOMAIN env \cup DOMAIN Defaults |-> IF v \in DOMAIN env THEN env[v] ELSE Defaults[v]]

Has(c, variables) == variables \subseteq DOMAIN c

Together(c, a, b) == a \in DOMAIN c <=> b \in DOMAIN c

Equal(c, a, b) == Has(c, {a, b}) /\ c[a] = c[b]

Smtp == {"SMTP_HOST", "SMTP_PORT", "SMTP_SECURITY", "SMTP_USERNAME", "SMTP_PASSWORD", "SMTP_FROM"}

SchemaRefuses(c) ==
  \/ ~Has(c, {"API_KEY_PEPPER", "INTERNAL_READY_TOKEN"})
  \/ \E v \in Numbers : c[v] \notin Ranges[v]

\* The origins by their scheme; an entry that is no URL is "malformed".
allowedConsoleOrigins(c) ==
  {c.PUBLIC_BASE_URL} \cup (IF Has(c, {"CONSOLE_ALLOWED_ORIGINS"}) THEN c.CONSOLE_ALLOWED_ORIGINS
                            ELSE {})

Production(c) == c.NODE_ENV = "production"
Console(c)    == c.CONSOLE_ENABLED = "true"

\* The rules of loadConfig in their order: each says when it refuses.
Rules(c) == <<
  SchemaRefuses(c),
  c.RATE_LIMIT_BURST > c.RATE_LIMIT_RPM,
  c.TENANT_MAX_CONCURRENT > c.UPSTREAM_CONCURRENCY,
  c.OTP_DELIVERY = "webhook" /\ ~Has(c, {"OTP_WEBHOOK_URL", "OTP_WEBHOOK_TOKEN"}),
  c.OTP_DELIVERY = "smtp" /\ ~Has(c, Smtp),
  Production(c) /\ Console(c) /\ c.OTP_DELIVERY \notin {"webhook", "smtp"},
  c.METRICS_ENABLED = "true" /\ ~Has(c, {"INTERNAL_METRICS_TOKEN"}),
  Equal(c, "INTERNAL_METRICS_TOKEN", "INTERNAL_READY_TOKEN"),
  Equal(c, "API_KEY_PEPPER", "INTERNAL_METRICS_TOKEN"),
  Equal(c, "API_KEY_PEPPER", "INTERNAL_READY_TOKEN"),
  "malformed" \in allowedConsoleOrigins(c),
  Production(c) /\ ~(allowedConsoleOrigins(c) \subseteq {"https"}),
  ~Together(c, "GOOGLE_CLIENT_ID", "GOOGLE_CLIENT_SECRET"),
  ~Together(c, "DISCORD_CLIENT_ID", "DISCORD_CLIENT_SECRET"),
  ~Together(c, "CRYPTOMUS_MERCHANT_ID", "CRYPTOMUS_PAYMENT_API_KEY"),
  Console(c) /\ ~Together(c, "ACCESS_TEAM_DOMAIN", "ACCESS_AUD"),
  Production(c) /\ Console(c) /\ ~Has(c, {"LEUWONGRR_WEBHOOK_SECRET"}) >>

\* 0 when the environment is taken, or the rule that refuses it.
loadConfig(env) ==
  LET refusing == {i \in DOMAIN Rules(Config(env)) : Rules(Config(env))[i]}
  IN  IF refusing = {} THEN 0 ELSE Min(refusing)

\* main.ts boots production with the upstream's credential only.
Boots(env) ==
  loadConfig(env) = 0 /\ (Production(Config(env)) => Has(env, {"OMNIROUTE_API_KEY"}))

(***************************************************************************)
(* What is made of it.                                                     *)
(***************************************************************************)
\* The three token buckets: requests a minute, and the burst.
Limiters(c) == {[rate |-> k * c.RATE_LIMIT_RPM, burst |-> k * c.RATE_LIMIT_BURST] : k \in {1, 2, 20}}

\* providerConfig: the OAuth flow starts with both halves of a client.
providerConfigured(c, provider) ==
  IF provider = "google" THEN Has(c, {"GOOGLE_CLIENT_ID", "GOOGLE_CLIENT_SECRET"})
  ELSE Has(c, {"DISCORD_CLIENT_ID", "DISCORD_CLIENT_SECRET"})

\* The providers the session endpoint names.
offered(c) ==
  (IF Has(c, {"GOOGLE_CLIENT_ID"}) THEN {"google"} ELSE {})
    \cup (IF Has(c, {"DISCORD_CLIENT_ID"}) THEN {"discord"} ELSE {})

\* createSmtpTransport throws on the first setting that is missing.
createSmtpTransport(c) == IF Has(c, Smtp) THEN "smtp" ELSE "failed"

\* The way issueAndDeliver sends a code; "response" is the answer itself.
channel(c) ==
  CASE c.OTP_DELIVERY = "webhook" /\ Has(c, {"OTP_WEBHOOK_URL"}) ->
         IF Has(c, {"OTP_WEBHOOK_TOKEN"}) THEN "webhook" ELSE "anonymous webhook"
    [] c.OTP_DELIVERY = "smtp" -> createSmtpTransport(c)
    [] OTHER -> "response"

\* Admin routes answer 503 without the verifier buildApp makes of both settings.
accessVerified(c) == Has(c, {"ACCESS_TEAM_DOMAIN", "ACCESS_AUD"})

(***************************************************************************)
(* What a process that boots may rely on.                                  *)
(***************************************************************************)
\* RateLimits and Gateway assume of their constants what loadConfig and the
\* schema establish, at any corner of the ranges.
LimitsAreSound(environments) ==
  \A env \in {e \in environments : loadConfig(e) = 0} :
    LET c == Config(env)
    IN  /\ \A l \in Limiters(c) : 1 <= l.burst /\ l.burst <= l.rate
        /\ c.TENANT_MAX_CONCURRENT \in 1 .. c.UPSTREAM_CONCURRENCY
        /\ \A v \in Numbers \ {"UPSTREAM_CONTEXT_OVERHEAD_UNITS"} : c[v] >= 1

\* A code leaves by the channel the operator chose, whole: production never
\* answers with it, nothing is sent half configured, and no channel that
\* boots fails for want of a setting.
CodesLeaveAsConfigured(environments) ==
  \A env \in {e \in environments : loadConfig(e) = 0} :
    LET c == Config(env)
    IN  /\ channel(c) \in {"webhook", "smtp", "response"}
        /\ Console(c) => (c.OTP_DELIVERY = "log" <=> channel(c) = "response")
        /\ Production(c) /\ Console(c) => channel(c) # "response"

\* A provider is offered exactly when its flow can start.
OfferedCanStart(environments) ==
  \A env \in {e \in environments : loadConfig(e) = 0} :
    offered(Config(env)) = {p \in {"google", "discord"} : providerConfigured(Config(env), p)}

\* No two of the three secrets are the same.
SecretsDiffer(environments) ==
  \A env \in {e \in environments : loadConfig(e) = 0} :
    LET set == {"API_KEY_PEPPER", "INTERNAL_READY_TOKEN", "INTERNAL_METRICS_TOKEN"} \cap DOMAIN env
    IN  \A a, b \in set : env[a] = env[b] => a = b
=============================================================================
