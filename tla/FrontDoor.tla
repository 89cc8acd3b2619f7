----------------------------- MODULE FrontDoor -----------------------------
(***************************************************************************)
(* How app.ts answers a request before the pipeline takes it: the route    *)
(* allowlist, the onRequest hook, authenticate, the listing of models, the *)
(* resolution of one, what is reserved for a call, and the answer a        *)
(* refusal becomes (http/app.ts, policy/allowlist.ts, auth/api-keys.ts,    *)
(* policy/model-resolver.ts, contracts/errors.ts).                         *)
(*                                                                         *)
(* Every decision is a function of the request and of what it meets: what  *)
(* the limiters, the key's row, the account and the catalogue say is part  *)
(* of the request's record.  The limiters themselves are in RateLimits,    *)
(* the catalogue in Catalogue, the funding in Billing.                     *)
(***************************************************************************)
EXTENDS Naturals, Sequences, FiniteSetsExt, TLC

Llm == {"chat.completions", "responses.create", "messages.create", "messages.count_tokens"}

CONSOLE_ROUTES ==
  {"console.page", "console.asset", "console.auth", "console.callback", "console.member",
   "console.admin", "webhook.cryptomus", "webhook.leuwongrr"}

ORIGIN_PROTECTED_ROUTES == {"console.auth", "console.member", "console.admin"}

RouteIds == {"health.live", "health.ready", "metrics.read", "models.list"} \cup Llm \cup CONSOLE_ROUTES

\* The methods the allowlist has for a route's paths.
PUBLIC_ALLOWLIST ==
  [route \in RouteIds |->
     CASE route \in Llm \cup {"webhook.cryptomus", "webhook.leuwongrr"} -> {"POST"}
       [] route \in {"console.auth", "console.callback", "console.member"} -> {"GET", "POST"}
       [] route = "console.admin" -> {"GET", "POST", "PUT", "DELETE"}
       [] OTHER -> {"GET"}]

\* A path no entry matches is of no route.
resolveRoute(q) ==
  IF q.path \in RouteIds /\ q.method \in PUBLIC_ALLOWLIST[q.path] THEN q.path ELSE "none"

(***************************************************************************)
(* Answers.                                                                *)
(***************************************************************************)
Status ==
  [none |-> 200, route_not_found |-> 404, origin_rejected |-> 403, rate_limited |-> 429,
   not_ready |-> 503, invalid_api_key |-> 401, insufficient_scope |-> 403,
   account_suspended |-> 403, insufficient_tokens |-> 402, invalid_request |-> 400,
   model_not_found |-> 404, model_unavailable |-> 404, model_group_missing |-> 503,
   model_not_entitled |-> 403, plan_group_missing |-> 503, capability_unsupported |-> 400,
   overloaded |-> 503, gateway_error |-> 502]

\* handleError: a refusal is told by its code, any other error as gateway_error.
\* Only load, and what is no refusal, is worth trying again.
handleError(code) ==
  LET told == IF code \in DOMAIN Status THEN code ELSE "gateway_error"
  IN  [code |-> told, status |-> Status[told],
       retryable |-> told \in {"rate_limited", "overloaded", "not_ready", "gateway_error"}]

ANTHROPIC_ERROR_TYPES ==
  [status \in {400, 409, 422} |-> "invalid_request_error"] @@ (401 :> "authentication_error")
    @@ (403 :> "permission_error") @@ (404 :> "not_found_error") @@ (413 :> "request_too_large")
    @@ (429 :> "rate_limit_error") @@ (500 :> "api_error") @@ (502 :> "api_error")
    @@ (503 :> "overloaded_error")

\* The type an Anthropic client is told.
sendProtocolError(answer) ==
  IF answer.status \in DOMAIN ANTHROPIC_ERROR_TYPES THEN ANTHROPIC_ERROR_TYPES[answer.status]
  ELSE "api_error"

\* The first of the checks that fails decides; "none" when all pass.
FirstRefusal(checks) ==
  LET failed == {i \in DOMAIN checks : checks[i][1]}
  IN  IF failed = {} THEN "none" ELSE checks[Min(failed)][2]

(***************************************************************************)
(* The onRequest hook, and the routes the operator probes.                 *)
(***************************************************************************)
\* The origin a browser names: Origin unless it is absent or opaque, or else
\* the Referer's.
requestOrigin(q) == IF q.origin \notin {"absent", "null"} THEN q.origin ELSE q.referer

\* The bucket that pays, keyed by the client's address: none for the probes.
LimiterOf(route) ==
  CASE route \in {"none", "health.live", "health.ready"} -> "none"
    [] route \in {"console.page", "console.asset"} -> "shell"
    [] OTHER -> "source"

\* The route served: a console route is none when the console is not enabled.
Served(q) ==
  IF ~q.console /\ resolveRoute(q) \in CONSOLE_ROUTES THEN "none" ELSE resolveRoute(q)

onRequest(q) ==
  LET route == Served(q)
  IN  FirstRefusal(<<
        <<route = "none", "route_not_found">>,
        <<LimiterOf(route) # "none" /\ ~q.allows[LimiterOf(route)], "rate_limited">>,
        <<q.method = "POST" /\ route \in ORIGIN_PROTECTED_ROUTES
            /\ requestOrigin(q) # "trusted", "origin_rejected">> >>)

\* An empty or absent expectation matches nothing.
tokenMatches(provided, expected) == expected # "absent" /\ provided = expected

\* Without the token the probe's route answers as an unlisted one.
healthReady(q) ==
  FirstRefusal(<< <<onRequest(q) # "none", onRequest(q)>>,
                  <<~tokenMatches(q.token, q.readyToken), "route_not_found">>,
                  <<q.dependency # "up", "not_ready">> >>)

metrics(q) ==
  FirstRefusal(<< <<onRequest(q) # "none", onRequest(q)>>,
                  <<~q.metricsEnabled \/ ~tokenMatches(q.token, q.metricsToken),
                    "route_not_found">> >>)

(***************************************************************************)
(* The calls of the API.                                                   *)
(***************************************************************************)
\* An account, if the tenant has one, must be active and funded.
assertFunded(c) ==
  FirstRefusal(<< <<c.console /\ c.account = "suspended", "account_suspended">>,
                  <<c.console /\ c.account = "active" /\ ~c.funded, "insufficient_tokens">> >>)

authenticate(c, scope) ==
  FirstRefusal(<<
    <<~c.key, "invalid_api_key">>,
    <<scope \notin c.scopes, "insufficient_scope">>,
    <<~c.allows.credential \/ ~c.allows.tenant, "rate_limited">>,
    <<assertFunded(c) # "none", assertFunded(c)>> >>)

\* The resolver's answer (Catalogue!resolveCatalogModel), then what the model can do.
resolveModel(c, needs) ==
  FirstRefusal(<<
    <<c.console /\ c.account = "none", "model_not_entitled">>,
    <<c.resolves # "none", c.resolves>>,
    <<~(needs \subseteq c.capabilities), "capability_unsupported">> >>)

\* GET /v1/models lists the model: nothing is asked of what it can do.
Listed(c) == authenticate(c, "models:read") = "none" /\ resolveModel(c, {}) = "none"

\* A handler: a body that is not JSON fails before it, in the error handler.
Handled(c, scope, needs) ==
  FirstRefusal(<<
    <<c.body = "unreadable", "gateway_error">>,
    <<authenticate(c, scope) # "none", authenticate(c, scope)>>,
    <<c.body = "invalid", "invalid_request">>,
    <<resolveModel(c, needs) # "none", resolveModel(c, needs)>> >>)

DEFAULT_MAX_TOKENS == 1024

Unset == 0

\* The asked bound or the next one given, never more than the model's.
Bound(asked, default, c) == Min({IF asked = Unset THEN default ELSE asked, c.maxOutputTokens})

\* Math.ceil(max + length / 4) and the overhead OmniRoute adds.
Estimate(max, length, c) == max + (length + 3) \div 4 + c.overhead

\* An absent text counts as the two quotes of an empty one.
textLength(length) == IF length = Unset THEN 2 ELSE length

\* What the four handlers hand to execute: the bound sent upstream and the
\* units reserved; or the refusal.
chatCompletions(c) ==
  LET max == Bound(c.max_tokens,
                   IF c.max_completion_tokens = Unset THEN DEFAULT_MAX_TOKENS
                   ELSE c.max_completion_tokens, c)
  IN  [refusal |-> Handled(c, "chat:write", {"text"} \cup c.uses),
       max |-> max, estimate |-> Estimate(max, c.length, c)]

responses(c) ==
  LET max == Bound(c.max_tokens, DEFAULT_MAX_TOKENS, c)
  IN  [refusal |-> Handled(c, "responses:write", {"text"} \cup c.uses),
       max |-> max, estimate |-> Estimate(max, c.length + textLength(c.extra), c)]

\* max_tokens is required by the schema.
messages(c) ==
  LET max == Bound(c.max_tokens, c.max_tokens, c)
  IN  [refusal |-> Handled(c, "messages:write", {"text"} \cup c.uses),
       max |-> max, estimate |-> Estimate(max, c.length + textLength(c.extra), c)]

\* A count of tokens generates nothing, whatever tools it names.
countTokens(c) ==
  [refusal |-> Handled(c, "messages:write", {"text"}), max |-> 0, estimate |-> 1]

(***************************************************************************)
(* What the front door promises.                                           *)
(***************************************************************************)
\* allowlist.ts and app.ts: with the console off, every console path answers,
\* and spends, as a path that was never listed.
DisabledConsoleIsAbsent(requests) ==
  \A q \in {r \in requests : ~r.console /\ resolveRoute(r) \in CONSOLE_ROUTES} :
    LET absent == [q EXCEPT !.path = "unlisted"]
    IN  onRequest(q) = onRequest(absent) /\ LimiterOf(Served(q)) = LimiterOf(Served(absent))

\* app.ts (307-312): whoever lacks the token cannot tell metrics, or the
\* readiness probe, from a path that does not exist, unless the limiter answers.
ProbesAreHidden(requests) ==
  \A q \in {r \in requests : r.method = "GET" /\ r.allows["source"]} :
    LET absent == onRequest([q EXCEPT !.path = "unlisted"])
    IN  /\ q.path = "metrics.read" /\ q.token # q.metricsToken => metrics(q) = absent
        /\ q.path = "health.ready" /\ q.token # q.readyToken => healthReady(q) = absent

\* A caller without a valid key learns nothing of the models, the funds or the
\* schema: two calls that differ in them only are answered alike.
StrangersLearnNothing(calls) ==
  \A c \in {d \in calls : ~d.key /\ d.body # "unreadable"} :
    {chatCompletions(c).refusal, responses(c).refusal, messages(c).refusal,
     countTokens(c).refusal} = {"invalid_api_key"}

\* A model the key may list is refused by no endpoint of its scopes, in the same
\* state, except for what the call uses and the model cannot do.
ListedIsCallable(calls) ==
  \A c \in {d \in calls : Listed(d) /\ d.body = "valid"} :
    /\ "chat:write" \in c.scopes /\ {"text"} \cup c.uses \subseteq c.capabilities =>
         chatCompletions(c).refusal = "none"
    /\ "messages:write" \in c.scopes /\ "text" \in c.capabilities =>
         countTokens(c).refusal = "none"

\* A call that generates reserves, before it is sent, at least every token the
\* model is then allowed to answer with, and the model's own bound holds.
ReservationCoversAnswer(calls) ==
  \A c \in calls : \A call \in {chatCompletions(c), responses(c), messages(c)} :
    c.max_tokens # Unset =>
      call.max \in 1..c.maxOutputTokens /\ call.max <= c.max_tokens /\ call.estimate > call.max

\* An Anthropic client is told of load or of a fault exactly when it may retry.
\* The exceptions are what only an operator or a payment cures: the 503 of a
\* missing group, and the 402 that ANTHROPIC_ERROR_TYPES has no entry for.
DialectsAgreeOnRetry ==
  \A code \in DOMAIN Status \ {"none", "insufficient_tokens", "model_group_missing",
                               "plan_group_missing"} :
    handleError(code).retryable <=>
      sendProtocolError(handleError(code)) \in {"rate_limit_error", "overloaded_error", "api_error"}
=============================================================================
