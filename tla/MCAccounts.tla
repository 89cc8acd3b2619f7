------------------------------ MODULE MCAccounts ------------------------------
(***************************************************************************)
(* Instances of Accounts for TLC.                                          *)
(***************************************************************************)
EXTENDS Accounts, TLC

CONSTANTS a, b, u, t, p, q, google, discord

\* A user whose address changed at the provider.
MCReports == u :> {a, b}

Symmetry == Permutations({a, b}) \cup Permutations({p, q}) \cup Permutations(Providers)

(***************************************************************************)
(* The durations, the providers and the way codes are delivered come from  *)
(* the environment: loadConfig is evaluated over its corners.              *)
(***************************************************************************)
Boot == INSTANCE Configuration

Secrets == [API_KEY_PEPPER |-> 1, INTERNAL_READY_TOKEN |-> 2]

\* Two numbers at the ends of their ranges, or just outside.
Corners(v) == LET r == Boot!Ranges[v]
                  low == CHOOSE n \in r : \A m \in r : n <= m
              IN  {low, low + 1, low + Cardinality(r) - 1, low + Cardinality(r)} \cup {n \in {0} : low > 0}

Paired == {"RATE_LIMIT_RPM", "RATE_LIMIT_BURST", "TENANT_MAX_CONCURRENT", "UPSTREAM_CONCURRENCY"}

NumberEnvironments ==
  UNION {{v :> x @@ w :> y @@ Secrets @@ [NODE_ENV |-> "test"] : x \in Corners(v), y \in Corners(w)} :
           v \in Paired, w \in Boot!Numbers}

LimitsAreSound == Boot!LimitsAreSound(NumberEnvironments)
ASSUME LimitsAreSound

\* Every choice of which of the settings of the others are set.
Chosen(variables) == {[v \in set |-> "given"] : set \in SUBSET variables}

DeliveryEnvironments ==
  {[NODE_ENV |-> mode, CONSOLE_ENABLED |-> on, OTP_DELIVERY |-> way] @@ given @@ Secrets :
     mode \in {"production", "test"}, on \in {"true", "false"}, way \in {"webhook", "smtp", "log"},
     given \in Chosen({"OTP_WEBHOOK_URL", "OTP_WEBHOOK_TOKEN", "SMTP_HOST", "SMTP_PORT",
                       "SMTP_SECURITY", "SMTP_FROM", "SMTP_USERNAME", "SMTP_PASSWORD",
                       "LEUWONGRR_WEBHOOK_SECRET"})}

CodesLeaveAsConfigured == Boot!CodesLeaveAsConfigured(DeliveryEnvironments)
ASSUME CodesLeaveAsConfigured

ProviderEnvironments ==
  {[NODE_ENV |-> "test", CONSOLE_ENABLED |-> on] @@ given @@ Secrets :
     on \in {"true", "false"},
     given \in Chosen({"GOOGLE_CLIENT_ID", "GOOGLE_CLIENT_SECRET", "DISCORD_CLIENT_ID",
                       "DISCORD_CLIENT_SECRET", "ACCESS_TEAM_DOMAIN", "ACCESS_AUD"})}

OfferedCanStart == Boot!OfferedCanStart(ProviderEnvironments)
ASSUME OfferedCanStart

SecretEnvironments ==
  {[API_KEY_PEPPER |-> x, INTERNAL_READY_TOKEN |-> y, NODE_ENV |-> "test"] @@ metrics :
     x \in 1..3, y \in 1..3, metrics \in {<<>>} \cup {[INTERNAL_METRICS_TOKEN |-> z] : z \in 1..3}}

SecretsDiffer == Boot!SecretsDiffer(SecretEnvironments)
ASSUME SecretsDiffer

\* Each kind of environment is taken in some case and refused in another.
ASSUME \A kind \in {NumberEnvironments, DeliveryEnvironments, ProviderEnvironments, SecretEnvironments} :
         {0} \subseteq {Boot!loadConfig(e) : e \in kind} /\ \E e \in kind : Boot!loadConfig(e) # 0

\* Production boots with what the deployment must set, and with nothing less.
Deployed ==
  Secrets @@ [v \in {"OMNIROUTE_API_KEY", "OTP_WEBHOOK_URL", "OTP_WEBHOOK_TOKEN",
                     "LEUWONGRR_WEBHOOK_SECRET"} |-> "given"] @@ [OTP_DELIVERY |-> "webhook"]

ASSUME /\ Boot!Boots(Deployed)
       /\ \A v \in DOMAIN Deployed :
            ~Boot!Boots([w \in DOMAIN Deployed \ {v} |-> Deployed[w]])
=============================================================================
