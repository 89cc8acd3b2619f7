------------------------------ MODULE Gateway ------------------------------
(***************************************************************************)
(* The request pipeline of the gateway: one upstream call from admission   *)
(* to answer (createUpstreamExecutor), with everything it borrows on the   *)
(* way and must give back -                                                *)
(*   - an idempotency key          (table idempotency_keys)                *)
(*   - a budget reservation        (table usage_events)                    *)
(*   - a tenant concurrency slot   (TenantConcurrencyRegistry)             *)
(*   - an upstream permit          (BoundedSemaphore of OmniRouteClient)   *)
(*   - a registered stream closer  (stream-lifecycle)                      *)
(* - interleaved with the readiness probe, maintenance, the passing of     *)
(* midnight, graceful shutdown, the 15 s deadline, kills and restarts.     *)
(*                                                                         *)
(* Node runs a handler without interruption from one await to the next, so *)
(* one action is one such segment.  SQLite keeps what it committed; the    *)
(* registries, the semaphore and the running requests die with the process.*)
(***************************************************************************)
EXTENDS Integers, FiniteSets, Functions

CONSTANTS
  Requests,       \* identities of the calls a run makes, each made once
  Probes,         \* identities of concurrent readiness probes
  Tenants,        \* tenants
  Keys,           \* values of the Idempotency-Key header
  NoKey,          \* the absent header
  Bodies,         \* request bodies, told apart by their hash
  Calls,          \* the calls tried: [tenant, key, body, stream]
  Estimate,       \* units estimated for a body before it runs
  Actuals,        \* units the upstream may report
  Budget,         \* a tenant's effective daily limit
  SlotLimit,      \* a tenant's concurrency ceiling
  MaxTenants,     \* tenants the concurrency registry holds at once
  Concurrency,    \* permits of the upstream semaphore
  DayLength,      \* ticks of a day: also the 24 h life of an idempotency key
  Retention,      \* days kept by maintenance
  MaxTime,        \* bound: ticks a run lasts
  MaxCrashes,     \* bound: times the process dies
  MaxFaults       \* bound: database writes that fail

ASSUME SetsAssumption ==
  /\ IsFiniteSet(Requests) /\ IsFiniteSet(Probes) /\ IsFiniteSet(Tenants)
  /\ Requests \cap Probes = {}
  /\ NoKey \notin Keys
  /\ Calls \subseteq [tenant : Tenants, key : Keys \cup {NoKey},
                      body : Bodies, stream : BOOLEAN]
ASSUME UnitsAssumption ==
  /\ Estimate \in [Bodies -> Nat]
  /\ Actuals \subseteq Nat
  /\ Budget \in [Tenants -> Nat]
ASSUME LimitsAssumption ==
  /\ SlotLimit \in [Tenants -> Nat \ {0}]
  /\ MaxTenants \in Nat \ {0} /\ Concurrency \in Nat \ {0}
ASSUME TimeAssumption ==
  /\ DayLength \in Nat \ {0, 1} /\ Retention \in Nat \ {0}
  /\ MaxTime \in Nat /\ MaxCrashes \in Nat /\ MaxFaults \in Nat

VARIABLES
  call,        \* call[r]: what request r asks for, fixed from the start
  stage,       \* stage[r]: the await request r is suspended in
  answer,      \* answer[r]: what the client was told
  usage,       \* usage[r]: the row of usage_events request r created
  idem,        \* idem[t][k]: the row of idempotency_keys
  slots,       \* requests whose releaseTenantSlot closure has not run
  active,      \* active[t]: the counter of the concurrency registry
  permits,     \* requests and probes whose permit closure has not run
  inUse,       \* the counter of the upstream semaphore
  registered,  \* streams whose closer is registered, i.e. not finalized
  phase,       \* the process: "up", "closing" or "down"
  now,         \* the clock, in ticks
  overshot,    \* requests with a budget.overshoot audit event
  crashes,     \* times the process died, to bound them
  faulty       \* requests a database write failed in

process  == <<slots, active, permits, inUse, registered>>
database == <<usage, idem, overshot>>
bounds   == <<crashes, faulty>>
vars == <<call, stage, answer, database, process, phase, now, bounds>>

Answers   == {"none", "refused", "replay", "ok", "failed", "dropped"}
Awaiting  == {"fetching", "reading", "streaming"}
InFlight  == Awaiting \cup {"draining"}
Aborting  == {"aborting", "cancelling"}
Stages    == {"new", "hung", "done", "lost"} \cup InFlight \cup Aborting
RowStates == {"absent", "reserved", "settled", "released"}

NoRow   == [state |-> "absent", units |-> 0, at |-> 0]
NoClaim == [state |-> "absent", body |-> NoKey, by |-> NoKey, expires |-> 0]

Tenant(r) == call[r].tenant
Day(tick) == tick \div DayLength
Live(r)   == stage[r] \in InFlight

(***************************************************************************)
(* The budget: usage_events.                                               *)
(***************************************************************************)
Units == [r \in Requests |-> usage[r].units]

\* The rows a tenant's total of a day adds up (released rows carry 0 units).
Charged(t, day) ==
  {r \in Requests : /\ usage[r].state \in {"reserved", "settled"}
                    /\ Tenant(r) = t
                    /\ Day(usage[r].at) = day}

\* mutant: the estimate is not added to the total
BudgetForNothing(r) ==
  SumFunctionOnSet(Units, Charged(Tenant(r), Day(now))) < Budget[Tenant(r)]

BudgetFor(r) ==
  SumFunctionOnSet(Units, Charged(Tenant(r), Day(now))) + Estimate[call[r].body]
    <= Budget[Tenant(r)]

reserveBudget(r) ==
  [usage EXCEPT ![r] = [state |-> "reserved", units |-> Estimate[call[r].body],
                        at |-> now]]

settleBudget(r, actual) ==
  IF usage[r].state = "reserved"
  THEN [usage EXCEPT ![r].state = "settled", ![r].units = actual]
  ELSE usage

releaseBudget(rows, S) ==
  [r \in Requests |-> IF r \in S /\ rows[r].state = "reserved"
                      THEN [rows[r] EXCEPT !.state = "released", !.units = 0]
                      ELSE rows[r]]

\* The audit records an overshoot against what is left of the day on which the
\* settlement runs, the settled row itself left out.
Overshoots(r, actual) ==
  LET others == SumFunctionOnSet(Units, Charged(Tenant(r), Day(now)) \ {r})
  IN  actual > 0 /\ actual + others > Budget[Tenant(r)]

(***************************************************************************)
(* The idempotency keys.  A row has no owner: complete and abandon find it *)
(* by key, body hash and a status that is still NULL.                      *)
(***************************************************************************)
HasKey(r) == call[r].key # NoKey
Claim(r)  == idem[Tenant(r)][call[r].key]
\* mutant: a key expires a tick early
ExpiredEarly(row) == row.expires <= now + 1

Expired(row) == row.expires <= now

\* mutant: a claim without an answer is taken over
claimTakesOver(r) ==
  IF ~HasKey(r) \/ Claim(r).state # "stored" \/ Expired(Claim(r)) THEN "owner"
  ELSE IF Claim(r).body # call[r].body THEN "conflict"
  ELSE "cached"

claim(r) ==
  IF ~HasKey(r) \/ Claim(r).state = "absent" \/ Expired(Claim(r)) THEN "owner"
  ELSE IF Claim(r).body # call[r].body THEN "conflict"
  ELSE IF Claim(r).state = "pending" THEN "in_progress"
  ELSE "cached"

WithClaim(r, row) ==
  IF HasKey(r) THEN [idem EXCEPT ![Tenant(r)][call[r].key] = row] ELSE idem

Claimed(r) ==
  WithClaim(r, [state |-> "pending", body |-> call[r].body, by |-> NoKey,
                expires |-> now + DayLength])

Matching(r) == HasKey(r) /\ Claim(r).state = "pending" /\ Claim(r).body = call[r].body

complete(r) ==
  IF Matching(r)
  THEN WithClaim(r, [Claim(r) EXCEPT !.state = "stored", !.by = r]) ELSE idem

\* mutant: a failed request keeps its key
abandonNever(r) == idem

abandon(r) == IF Matching(r) THEN WithClaim(r, NoClaim) ELSE idem

\* The claim and the abandon of one segment: the expired row is gone for good.
ClaimedAndAbandoned(r) == WithClaim(r, NoClaim)

(***************************************************************************)
(* Tenant slots and upstream permits: counters whose release closures run  *)
(* at most once.                                                           *)
(***************************************************************************)
SlotFree(t) ==
  /\ active[t] < SlotLimit[t]
  /\ active[t] = 0 => Cardinality({u \in Tenants : active[u] > 0}) < MaxTenants

tryAcquire(r) ==
  /\ slots' = slots \cup {r}
  /\ active' = [active EXCEPT ![Tenant(r)] = @ + 1]

HeldBy(S, t) == {r \in S \cap slots : Tenant(r) = t}

releaseTenantSlot(S) ==
  /\ slots' = slots \ S
  /\ active' = [t \in Tenants |->
                  LET held == Cardinality(HeldBy(S, t))
                  IN  IF held <= active[t] THEN active[t] - held ELSE 0]

PermitFree == inUse < Concurrency

acquire(x) == permits' = permits \cup {x} /\ inUse' = inUse + 1

\* mutant: the closure does not remember that it ran
releaseEachTime(x) == permits' = permits \ {x} /\ inUse' = inUse - 1

release(x) ==
  /\ permits' = permits \ {x}
  /\ inUse' = IF x \in permits THEN inUse - 1 ELSE inUse

(***************************************************************************)
(* Admission: everything before the first await.                           *)
(***************************************************************************)
Answered(r, what) ==
  /\ stage' = [stage EXCEPT ![r] = "done"]
  /\ answer' = [answer EXCEPT ![r] = what]

Arriving(r) == stage[r] = "new" /\ phase = "up"

\* Idempotency-Key is for non-streaming requests.
RefuseKeyedStream(r) ==
  /\ Arriving(r)
  /\ HasKey(r) /\ call[r].stream
  /\ Answered(r, "refused")
  /\ UNCHANGED <<call, database, process, phase, now, bounds>>

\* The key is another request's: replay its stored answer, or 409.
NotOwner(r) ==
  /\ Arriving(r)
  /\ HasKey(r) /\ ~call[r].stream
  /\ claim(r) # "owner"
  /\ Answered(r, IF claim(r) = "cached" THEN "replay" ELSE "refused")
  /\ UNCHANGED <<call, database, process, phase, now, bounds>>

Owner(r) ==
  /\ Arriving(r)
  /\ ~(HasKey(r) /\ call[r].stream)
  /\ claim(r) = "owner"

OverBudget(r) ==
  /\ Owner(r)
  /\ ~BudgetFor(r)
  /\ idem' = ClaimedAndAbandoned(r)
  /\ Answered(r, "refused")
  /\ UNCHANGED <<call, usage, overshot, process, phase, now, bounds>>

\* No tenant slot, or no upstream permit: the reservation is released again.
Overloaded(r) ==
  /\ Owner(r)
  /\ BudgetFor(r)
  /\ ~(SlotFree(Tenant(r)) /\ PermitFree)
  /\ usage' = [usage EXCEPT ![r] = [state |-> "released", units |-> 0, at |-> now]]
  /\ idem' = ClaimedAndAbandoned(r)
  /\ Answered(r, "refused")
  /\ UNCHANGED <<call, overshot, process, phase, now, bounds>>

Admit(r) ==
  /\ Owner(r)
  /\ BudgetFor(r)
  /\ SlotFree(Tenant(r))
  /\ PermitFree
  /\ usage' = reserveBudget(r)
  /\ idem' = Claimed(r)
  /\ tryAcquire(r)
  /\ acquire(r)
  /\ stage' = [stage EXCEPT ![r] = "fetching"]
  /\ UNCHANGED <<call, answer, overshot, registered, phase, now, bounds>>

(***************************************************************************)
(* The answer of the upstream to a request without a stream.               *)
(***************************************************************************)
\* Nothing was used: give everything back and answer an error.
GiveUp(r) ==
  /\ usage' = releaseBudget(usage, {r})
  /\ idem' = abandon(r)
  /\ releaseTenantSlot({r})
  /\ release(r)
  /\ Answered(r, "failed")
  /\ UNCHANGED <<call, overshot, registered, phase, now, bounds>>

\* fetch rejects: network error, REQUEST_TIMEOUT_MS, or the client's close
\* aborted it.
FetchRejects(r) == stage[r] = "fetching" /\ GiveUp(r)

\* mutant: the body of the failed response is not cancelled
UpstreamRefusesStreamLeaks(r) ==
  /\ stage[r] = "fetching" /\ call[r].stream
  /\ usage' = releaseBudget(usage, {r})
  /\ releaseTenantSlot({r})
  /\ Answered(r, "failed")
  /\ UNCHANGED <<call, idem, overshot, permits, inUse, registered, phase, now, bounds>>

\* A streaming call is answered an error; its body is cancelled.
UpstreamRefusesStream(r) == stage[r] = "fetching" /\ call[r].stream /\ GiveUp(r)

HeadersArrive(r) ==
  /\ stage[r] = "fetching"
  /\ ~call[r].stream
  /\ stage' = [stage EXCEPT ![r] = "reading"]
  /\ UNCHANGED <<call, answer, database, process, phase, now, bounds>>

\* mutant: the error branch settles the estimate
BodyUnusableCharged(r) ==
  /\ stage[r] = "reading"
  /\ usage' = settleBudget(r, Estimate[call[r].body])
  /\ idem' = abandon(r)
  /\ releaseTenantSlot({r})
  /\ release(r)
  /\ Answered(r, "failed")
  /\ UNCHANGED <<call, overshot, registered, phase, now, bounds>>

\* The status is an error, or the body is not JSON, cut off or aborted.
BodyUnusable(r) == stage[r] = "reading" /\ GiveUp(r)

BodyArrives(r, actual) ==
  /\ stage[r] = "reading"
  /\ usage' = settleBudget(r, actual)
  /\ overshot' = IF Overshoots(r, actual) THEN overshot \cup {r} ELSE overshot
  /\ idem' = complete(r)
  /\ releaseTenantSlot({r})
  /\ release(r)
  /\ Answered(r, "ok")
  /\ UNCHANGED <<call, registered, phase, now, bounds>>

\* A write of the success path fails.  The catch runs releaseBudget, which
\* finds nothing to release once the settlement committed, and abandon; either
\* may fail in its turn, which skips what follows it.
BodyArrivesWriteFails(r, actual) ==
  /\ stage[r] = "reading"
  /\ Cardinality(faulty) < MaxFaults
  /\ \E rows \in {usage, settleBudget(r, actual)} :
       \/ usage' = rows /\ idem' = idem
       \/ usage' = releaseBudget(rows, {r}) /\ idem' \in {idem, abandon(r)}
  /\ \/ overshot' = overshot
     \/ /\ usage'[r].state = "settled" /\ Overshoots(r, actual)
        /\ overshot' = overshot \cup {r}
  /\ releaseTenantSlot({r})
  /\ release(r)
  /\ Answered(r, "failed")
  /\ faulty' = faulty \cup {r}
  /\ UNCHANGED <<call, registered, phase, now, crashes>>

(***************************************************************************)
(* The life of a stream.  streamFinalized is "not registered".             *)
(***************************************************************************)
\* mutant: finally releases the slot the stream still needs
StreamOpensSlotless(r) ==
  /\ stage[r] = "fetching"
  /\ call[r].stream
  /\ stage' = [stage EXCEPT ![r] = "streaming"]
  /\ registered' = registered \cup {r}
  /\ releaseTenantSlot({r})
  /\ UNCHANGED <<call, answer, database, permits, inUse, phase, now, bounds>>

StreamOpens(r) ==
  /\ stage[r] = "fetching"
  /\ call[r].stream
  /\ stage' = [stage EXCEPT ![r] = "streaming"]
  /\ registered' = registered \cup {r}
  /\ UNCHANGED <<call, answer, database, slots, active, permits, inUse, phase,
                 now, bounds>>

\* The upstream sent its last byte: the permit goes back while the client is
\* still being served from the buffers.
UpstreamDone(r) ==
  /\ stage[r] = "streaming"
  /\ release(r)
  /\ stage' = [stage EXCEPT ![r] = "draining"]
  /\ UNCHANGED <<call, answer, database, slots, active, registered, phase, now,
                 bounds>>

\* mutant: a stream that fails keeps its reservation
finalizeFailureReserved(S) ==
  /\ releaseTenantSlot(S \cap registered)
  /\ registered' = registered \ S
  /\ UNCHANGED usage

finalizeFailure(S) ==
  /\ usage' = releaseBudget(usage, S \cap registered)
  /\ releaseTenantSlot(S \cap registered)
  /\ registered' = registered \ S

\* An upstream that still sends is aborted: its permit comes back once the
\* abort reaches the body.
Closed(r) == IF stage[r] = "streaming" THEN "aborting" ELSE "done"

closeStreams(S) ==
  /\ finalizeFailure(S)
  /\ stage' = [r \in Requests |-> IF r \in S THEN Closed(r) ELSE stage[r]]
  /\ answer' = [r \in Requests |-> IF r \in S THEN "dropped" ELSE answer[r]]

Streaming(r) == stage[r] \in {"streaming", "draining"}

\* mutant: the idle timer is not armed while the client drains the buffers
CloseStreamUnarmed(r) ==
  /\ stage[r] = "streaming"
  /\ closeStreams({r})
  /\ UNCHANGED <<call, idem, overshot, permits, inUse, phase, now, bounds>>

\* Idle timeout, or the client closes the connection.
CloseStream(r) ==
  /\ Streaming(r)
  /\ closeStreams({r})
  /\ UNCHANGED <<call, idem, overshot, permits, inUse, phase, now, bounds>>

\* The error event of the stream: the upstream fails or REQUEST_TIMEOUT_MS ends.
StreamErrors(r) ==
  /\ stage[r] = "streaming"
  /\ finalizeFailure({r})
  /\ release(r)
  /\ Answered(r, "dropped")
  /\ UNCHANGED <<call, idem, overshot, phase, now, bounds>>

\* The abort of a closed stream releases the permit twice when a read was
\* pending: in the catch of pull, then in the finally of cancel.
PullRejects(r) ==
  /\ stage[r] = "aborting"
  /\ release(r)
  /\ stage' = [stage EXCEPT ![r] = "cancelling"]
  /\ UNCHANGED <<call, answer, database, slots, active, registered, phase, now,
                 bounds>>

\* The error event of the destroyed stream finds it finalized.
CancelSettles(r) ==
  /\ stage[r] \in Aborting
  /\ release(r)
  /\ finalizeFailure({r})
  /\ stage' = [stage EXCEPT ![r] = "done"]
  /\ UNCHANGED <<call, answer, idem, overshot, phase, now, bounds>>

\* finalizeSuccess
StreamEnds(r, actual) ==
  /\ stage[r] = "draining" /\ r \in registered
  /\ usage' = settleBudget(r, actual)
  /\ overshot' = IF Overshoots(r, actual) THEN overshot \cup {r} ELSE overshot
  /\ releaseTenantSlot({r})
  /\ registered' = registered \ {r}
  /\ Answered(r, "ok")
  /\ UNCHANGED <<call, idem, permits, inUse, phase, now, bounds>>

(***************************************************************************)
(* The life of the process.                                                *)
(***************************************************************************)
\* What becomes of the requests of a process that dies.
AfterDeath(r) ==
  IF Live(r) THEN "lost"
  ELSE IF stage[r] \in Aborting \cup {"hung"} THEN "done" ELSE stage[r]

ProcessDies ==
  /\ slots' = {} /\ active' = [t \in Tenants |-> 0]
  /\ permits' = {} /\ inUse' = 0
  /\ registered' = {}
  /\ phase' = "down"
  /\ crashes' = crashes + 1

\* A write of finalizeSuccess fails inside the end event: the listener throws
\* before the response is ended, and the uncaught exception starts a shutdown.
StreamEndsWriteFails(r, actual) ==
  /\ stage[r] = "draining" /\ r \in registered
  /\ phase = "up"
  /\ Cardinality(faulty) < MaxFaults
  /\ \E rows \in {usage, settleBudget(r, actual)} :
       usage' = releaseBudget(rows, registered \ {r})
  /\ releaseTenantSlot(registered)
  /\ registered' = {}
  /\ stage' = [x \in Requests |-> IF x = r THEN "hung"
                 ELSE IF x \in registered THEN Closed(x) ELSE stage[x]]
  /\ answer' = [x \in Requests |-> IF x \in registered THEN "dropped" ELSE answer[x]]
  /\ phase' = "closing"
  /\ faulty' = faulty \cup {r}
  /\ UNCHANGED <<call, idem, overshot, permits, inUse, now, crashes>>

\* The same when a shutdown is under way already: it exits on the spot.
StreamEndsWriteFailsClosing(r, actual) ==
  /\ stage[r] = "draining" /\ r \in registered
  /\ phase = "closing"
  /\ Cardinality(faulty) < MaxFaults /\ crashes < MaxCrashes
  /\ usage' \in {usage, settleBudget(r, actual)}
  /\ ProcessDies
  /\ stage' = [x \in Requests |-> IF x = r THEN "done" ELSE AfterDeath(x)]
  /\ answer' = [answer EXCEPT ![r] = "dropped"]
  /\ faulty' = faulty \cup {r}
  /\ UNCHANGED <<call, idem, overshot, now>>

\* The client of a stream whose end was never sent goes away: closeStream
\* finds the stream finalized.
HungClientLeaves(r) ==
  /\ stage[r] = "hung"
  /\ closeStreams({r})
  /\ UNCHANGED <<call, idem, overshot, permits, inUse, phase, now, bounds>>

\* SIGTERM or SIGINT: close the registered streams, then stop accepting.
Shutdown ==
  /\ phase = "up"
  /\ phase' = "closing"
  /\ closeStreams(registered)
  /\ UNCHANGED <<call, idem, overshot, permits, inUse, now, bounds>>

\* app.close() ends when no connection is left; then the database is closed.
Exit ==
  /\ phase = "closing"
  /\ \A r \in Requests : ~Live(r) /\ stage[r] # "hung"
  /\ permits \cap Probes = {}
  /\ crashes < MaxCrashes
  /\ ProcessDies
  /\ stage' = [r \in Requests |-> AfterDeath(r)]
  /\ UNCHANGED <<call, answer, database, now, faulty>>

\* A kill, or the 15 s deadline of the shutdown: process.exit(1).
Crash ==
  /\ phase # "down"
  /\ crashes < MaxCrashes
  /\ ProcessDies
  /\ stage' = [r \in Requests |-> AfterDeath(r)]
  /\ UNCHANGED <<call, answer, database, now, faulty>>

\* mutant: the cutoff day itself is deleted
maintainCutoffDay ==
  /\ idem' = [t \in Tenants |-> [k \in Keys |->
                IF Expired(idem[t][k]) THEN NoClaim ELSE idem[t][k]]]
  /\ usage' = [r \in Requests |->
                 IF /\ usage[r].state \in {"settled", "released"}
                    /\ Day(usage[r].at) <= Day(now) - Retention
                 THEN NoRow ELSE usage[r]]

maintain ==
  /\ idem' = [t \in Tenants |-> [k \in Keys |->
                IF Expired(idem[t][k]) THEN NoClaim ELSE idem[t][k]]]
  /\ usage' = [r \in Requests |->
                 IF /\ usage[r].state \in {"settled", "released"}
                    /\ Day(usage[r].at) < Day(now) - Retention
                 THEN NoRow ELSE usage[r]]

Restart ==
  /\ phase = "down"
  /\ phase' = "up"
  /\ maintain
  /\ UNCHANGED <<call, stage, answer, overshot, process, now, bounds>>

Maintenance ==
  /\ phase = "up"
  /\ maintain
  /\ <<usage, idem>>' # <<usage, idem>>
  /\ UNCHANGED <<call, stage, answer, overshot, process, phase, now, bounds>>

(***************************************************************************)
(* /health/ready takes a permit of the same semaphore for its probe.       *)
(***************************************************************************)
ProbeStarts(p) ==
  /\ phase = "up"
  /\ p \notin permits
  /\ PermitFree
  /\ acquire(p)
  /\ UNCHANGED <<call, stage, answer, database, slots, active, registered, phase,
                 now, bounds>>

ProbeEnds(p) ==
  /\ p \in permits
  /\ release(p)
  /\ UNCHANGED <<call, stage, answer, database, slots, active, registered, phase,
                 now, bounds>>

\* REQUEST_TIMEOUT_MS and STREAM_IDLE_TIMEOUT_MS are minutes: a request can
\* outlive midnight but not a second tick.
Tick ==
  /\ now < MaxTime
  /\ \A r \in Requests : Live(r) => usage[r].at = now
  /\ now' = now + 1
  /\ UNCHANGED <<call, stage, answer, database, process, phase, bounds>>

(***************************************************************************)
(* The specification.                                                      *)
(***************************************************************************)
Init ==
  /\ call \in [Requests -> Calls]
  /\ stage = [r \in Requests |-> "new"]
  /\ answer = [r \in Requests |-> "none"]
  /\ usage = [r \in Requests |-> NoRow]
  /\ idem = [t \in Tenants |-> [k \in Keys |-> NoClaim]]
  /\ slots = {} /\ active = [t \in Tenants |-> 0]
  /\ permits = {} /\ inUse = 0
  /\ registered = {}
  /\ phase = "up"
  /\ now = 0
  /\ overshot = {}
  /\ crashes = 0 /\ faulty = {}

Execute(r) ==
  \/ RefuseKeyedStream(r) \/ NotOwner(r) \/ OverBudget(r)
  \/ Overloaded(r) \/ Admit(r)

\* What an admitted request still does on its own.
Proceed(r) ==
  \/ FetchRejects(r) \/ UpstreamRefusesStream(r)
  \/ HeadersArrive(r) \/ BodyUnusable(r)
  \/ StreamOpens(r) \/ UpstreamDone(r) \/ StreamErrors(r)
  \/ CloseStream(r) \/ PullRejects(r) \/ CancelSettles(r)
  \/ \E actual \in Actuals : BodyArrives(r, actual) \/ StreamEnds(r, actual)

WriteFails(r) ==
  \E actual \in Actuals :
    \/ BodyArrivesWriteFails(r, actual) \/ StreamEndsWriteFails(r, actual)
    \/ StreamEndsWriteFailsClosing(r, actual)

Next ==
  \/ \E r \in Requests : Execute(r) \/ Proceed(r) \/ WriteFails(r) \/ HungClientLeaves(r)
  \/ \E p \in Probes : ProbeStarts(p) \/ ProbeEnds(p)
  \/ Shutdown \/ Exit \/ Crash \/ Restart \/ Maintenance \/ Tick

Spec == Init /\ [][Next]_vars

(***************************************************************************)
(* Fairness: each await of a request is bounded by a timer of the code -   *)
(* AbortSignal.timeout(REQUEST_TIMEOUT_MS) while the upstream is awaited,  *)
(* the idle timer while the client drains - and a probe by                 *)
(* READY_UPSTREAM_TIMEOUT_MS.  The upstream itself owes nothing.           *)
(***************************************************************************)
TimesOut(r) ==
  FetchRejects(r) \/ BodyUnusable(r) \/ StreamErrors(r) \/ CloseStream(r)
    \/ CancelSettles(r)

Fairness ==
  /\ \A r \in Requests : WF_vars(TimesOut(r))
  /\ \A p \in Probes : WF_vars(ProbeEnds(p))

FairSpec == Spec /\ Fairness

-----------------------------------------------------------------------------
(***************************************************************************)
(* Properties.                                                             *)
(***************************************************************************)
Row   == [state : RowStates, units : Nat, at : Nat]
IdemRow == [state : {"absent", "pending", "stored"}, body : Bodies \cup {NoKey},
            by : Requests \cup {NoKey}, expires : Nat]

\* Types of the variables.
TypeOK ==
  /\ call \in [Requests -> Calls]
  /\ stage \in [Requests -> Stages]
  /\ answer \in [Requests -> Answers]
  /\ usage \in [Requests -> Row]
  /\ idem \in [Tenants -> [Keys -> IdemRow]]
  /\ slots \subseteq Requests
  /\ active \in [Tenants -> Nat]
  /\ permits \subseteq Requests \cup Probes
  /\ inUse \in Nat
  /\ registered \subseteq Requests
  /\ phase \in {"up", "closing", "down"}
  /\ now \in Nat
  /\ overshot \subseteq Requests
  /\ crashes \in Nat
  /\ faulty \subseteq Requests

\* No path through execute leaks or doubly returns a tenant slot: the counter
\* of the registry is the number of the tenant's requests in flight, never
\* above its ceiling, whichever of success, error, idle timeout, disconnect,
\* shutdown or failed write ended the others.
SlotsBalance ==
  /\ slots = {r \in Requests : Live(r)}
  /\ \A t \in Tenants :
       /\ active[t] = Cardinality(HeldBy(slots, t))
       /\ active[t] <= SlotLimit[t]

\* The upstream semaphore counts exactly the fetches and bodies still open:
\* a request awaiting the upstream, a closed stream whose abort is under way,
\* or a probe.  The permit leak the comment of the failed-stream branch tells
\* of is a violation of this.
PermitsBalance ==
  /\ inUse = Cardinality(permits)
  /\ inUse <= Concurrency
  /\ \A r \in Requests :
       /\ stage[r] \in Awaiting => r \in permits
       /\ r \in permits => stage[r] \in Awaiting \cup {"aborting"}

\* Budget is held back only for somebody: a row is reserved exactly while its
\* request is in flight, unless the process died under it or the write that
\* should have resolved it failed.
ReservedHasOwner ==
  \A r \in Requests :
    /\ Live(r) => usage[r].state = "reserved"
    /\ usage[r].state = "reserved" => Live(r) \/ stage[r] = "lost" \/ r \in faulty

\* A client is charged if and only if it was given a complete answer.  The one
\* exception is a write that failed after the settlement had committed.
ChargedIffAnswered ==
  \A r \in Requests \ faulty :
    /\ usage[r].state = "settled" => answer[r] = "ok"
    /\ answer[r] = "ok" => usage[r].state \in {"settled", "absent"}

\* Two requests with one idempotency key of one tenant are never in flight
\* together, although the row that says so has no owner.
SingleFlight ==
  \A q, r \in Requests :
    (/\ q # r /\ Live(q) /\ Live(r)
     /\ Tenant(q) = Tenant(r) /\ HasKey(q)) => call[q].key # call[r].key

\* A matching request is turned away with 409 only for a reason: the claim it
\* meets belongs to a request in flight, or to one that the process or the
\* database abandoned.
PendingHasOwner ==
  \A t \in Tenants, k \in Keys :
    idem[t][k].state = "pending" =>
      \E r \in Requests :
        /\ Tenant(r) = t /\ call[r].key = k /\ call[r].body = idem[t][k].body
        /\ Live(r) \/ stage[r] = "lost" \/ r \in faulty

\* A stored answer that can be replayed was given to the request that paid
\* for it, with the same body, and maintenance keeps its charge on the books
\* as long as the answer.
ReplayWasPaid ==
  \A t \in Tenants, k \in Keys :
    LET row == idem[t][k]
    IN  row.state = "stored" =>
          /\ row.by \in Requests
          /\ Tenant(row.by) = t /\ call[row.by].body = row.body
          /\ answer[row.by] = "ok"
          /\ ~Expired(row) => usage[row.by].state = "settled"

\* Within the 24 h of a key, at most one of the requests that carry it with
\* one body is answered anew; the others replay it or are refused.
OncePerKey ==
  \A q, r \in Requests :
    (/\ q # r /\ HasKey(q) /\ Tenant(q) = Tenant(r)
     /\ call[q].key = call[r].key /\ call[q].body = call[r].body
     /\ usage[q].state = "settled" /\ usage[r].state = "settled"
     /\ answer[q] = "ok" /\ answer[r] = "ok")
      => \/ usage[q].at >= usage[r].at + DayLength
         \/ usage[r].at >= usage[q].at + DayLength

\* The budget the pipeline keeps - with its concurrent admissions, streams,
\* failures, crashes and maintenance - is the simple account of BudgetAccount:
\* admission is one atomic test and reservation, a row is resolved once and
\* never revised.
Account ==
  INSTANCE BudgetAccount WITH
    Rows   <- Requests,
    tenant <- [r \in Requests |-> Tenant(r)],
    cost   <- [r \in Requests |-> Estimate[call[r].body]],
    row    <- usage
ImplementsAccount == Account!Spec

\* Every admitted request ends, whatever the upstream and the client do.
RequestsEnd == \A r \in Requests : Live(r) ~> ~Live(r)

\* An exhausted semaphore recovers: the permits of failed, closed and aborted
\* calls all come back.
PermitsReturn == (inUse = Concurrency) ~> (inUse < Concurrency)
=============================================================================
