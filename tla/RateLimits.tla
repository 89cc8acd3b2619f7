----------------------------- MODULE RateLimits -----------------------------
(***************************************************************************)
(* Rate limiting: the TokenBucketLimiter of sources and credentials, and   *)
(* the TenantRateLimiterRegistry (policy/rate-limit.ts and                 *)
(* policy/tenant-limits.ts), in the order app.ts asks them.  Each decision *)
(* is made without an await, so a handler's is one step.                   *)
(*                                                                         *)
(* A tick is a fixed time; a request costs One and a tick refills Rate, in *)
(* the same unit, so that a bucket may hold a part of a request.  The      *)
(* clock does not step back.  The hints of Retry-After and the shell       *)
(* limiter, a third instance of the same class, are left out.              *)
(***************************************************************************)
EXTENDS Integers, Sequences, FiniteSets, SequencesExt

CONSTANTS
  Sources,       \* client addresses
  Credentials,   \* API keys
  Owner,         \* Owner[c]: the tenant of credential c
  Tenants,
  One,           \* the cost of a request
  Rate,          \* RATE_LIMIT_RPM, per tick
  Burst,         \* RATE_LIMIT_BURST
  Minute,        \* a minute, in ticks; idleEvictionMs is two
  MaxEntries,    \* RATE_LIMIT_MAX_ENTRIES
  MaxTenants,    \* TENANT_LIMIT_MAX_ENTRIES
  Rates,         \* values of tenant_limits.rate_limit_rpm, per tick
  MaxTime        \* bound: the clock

\* loadConfig refuses a burst above the requests of a minute: a bucket that is
\* idle for two minutes is full.
ASSUME LimitsAssumption ==
  /\ Owner \in [Credentials -> Tenants]
  /\ One \in Nat \ {0} /\ Rate \in Nat \ {0} /\ Burst \in Nat /\ One <= Burst
  /\ Minute \in Nat /\ Burst <= Rate * Minute
  /\ MaxEntries \in Nat \ {0} /\ MaxTenants \in Nat \ {0}
  /\ Rates \subseteq Nat \ {0} /\ Rate \in Rates /\ MaxTime \in Nat

Limiters == {"source", "credential"}
IdleEviction == 2 * Minute

VARIABLES
  bucket,   \* bucket[l]: a function from the callers limiter l knows to their buckets
  registry, \* the tenants' limiters, least recently used first
  rpm,      \* rpm[t]: the stored limit of tenant t, or RATE_LIMIT_RPM without a row
  seen,     \* history: every tenant that was ever asked about, last one last
  now

limitVars == <<bucket, registry, rpm, seen, now>>

Factor(l)  == IF l = "source" THEN 2 ELSE 1
CallersOf(l) == IF l = "source" THEN Sources ELSE Credentials
Lesser(a, b) == IF a <= b THEN a ELSE b
Greater(a, b) == IF a >= b THEN a ELSE b

\* What bucket b holds now.
Refilled(b, rate, burst) == Lesser(burst, b.tokens + (now - b.at) * rate)

(***************************************************************************)
(* TokenBucketLimiter.                                                     *)
(***************************************************************************)
\* mutant: the least recently used buckets make room
evictOldest(buckets) ==
  [c \in {d \in DOMAIN buckets : \E e \in DOMAIN buckets : buckets[e].at < buckets[d].at}
     |-> buckets[c]]

evictIdle(buckets) ==
  [c \in {d \in DOMAIN buckets : now - buckets[d].at <= IdleEviction} |-> buckets[c]]

Put(buckets, c, b) == [d \in DOMAIN buckets \cup {c} |-> IF d = c THEN b ELSE buckets[d]]

\* The bucket a request of c finds: refilled, or a full one in a free entry.
\* Without one the request is refused and only the eviction remains.
found(l, c) ==
  IF c \in DOMAIN bucket[l] THEN Refilled(bucket[l][c], Rate * Factor(l), Burst * Factor(l))
  ELSE Burst * Factor(l)

kept(l, c) == IF c \in DOMAIN bucket[l] THEN bucket[l] ELSE evictIdle(bucket[l])

Room(l, c) == c \in DOMAIN bucket[l] \/ Cardinality(DOMAIN kept(l, c)) < MaxEntries

Allows(l, c) == Room(l, c) /\ found(l, c) >= One

consume(l, c) ==
  IF ~Room(l, c) THEN kept(l, c)
  ELSE Put(kept(l, c), c,
           [tokens |-> IF found(l, c) >= One THEN found(l, c) - One ELSE found(l, c), at |-> now])

(***************************************************************************)
(* TenantRateLimiterRegistry.                                              *)
(***************************************************************************)
Entries(t) == {i \in DOMAIN registry : registry[i].tenant = t}

TenantBurst(rate) == Greater(One, Lesser(Burst, rate * Minute))

\* An entry made for another limit is thrown away.
Current(t) == {i \in Entries(t) : registry[i].rate = rpm[t]}

\* What a Map keeps when the key at the index in I, if any, is deleted.
Without(entries, I) ==
  IF I = {} THEN entries ELSE RemoveAt(entries, CHOOSE i \in I : TRUE)

Others(t) == Without(registry, Entries(t))

\* mutant: room is made only once the registry is over its bound
TrimmedLate(entries) ==
  SubSeq(entries, 1 + Greater(0, Len(entries) - MaxTenants), Len(entries))

\* The least recently used entries make room for a new one.
Trimmed(entries) ==
  SubSeq(entries, 1 + Greater(0, Len(entries) - MaxTenants + 1), Len(entries))

tenantFound(t) ==
  IF Current(t) = {} THEN TenantBurst(rpm[t])
  ELSE Refilled(registry[CHOOSE i \in Current(t) : TRUE], rpm[t], TenantBurst(rpm[t]))

TenantAllows(t) == tenantFound(t) >= One

Entry(t) ==
  [tenant |-> t, rate |-> rpm[t], at |-> now,
   tokens |-> IF TenantAllows(t) THEN tenantFound(t) - One ELSE tenantFound(t)]

\* mutant: an entry that is used keeps its place
consumeTenantInPlace(t) ==
  IF Current(t) # {} THEN [registry EXCEPT ![CHOOSE i \in Current(t) : TRUE] = Entry(t)]
  ELSE Append(Trimmed(Others(t)), Entry(t))

consumeTenant(t) ==
  IF Current(t) # {} THEN Append(Others(t), Entry(t))
  ELSE Append(Trimmed(Others(t)), Entry(t))

(***************************************************************************)
(* Requests.                                                               *)
(***************************************************************************)
\* The onRequest hook, before anything is known of the caller.
Arrive(s) ==
  /\ bucket' = [bucket EXCEPT !["source"] = consume("source", s)]
  /\ UNCHANGED <<registry, rpm, seen, now>>

\* authenticate, with a key that is valid and has the scope: the tenant is
\* asked only when the credential may pass, and a request the tenant refuses
\* has paid the credential's bucket.
Authenticate(c) ==
  /\ bucket' = [bucket EXCEPT !["credential"] = consume("credential", c)]
  /\ IF Allows("credential", c)
     THEN /\ registry' = consumeTenant(Owner[c])
          /\ seen' = Append(Without(seen, {i \in DOMAIN seen : seen[i] = Owner[c]}), Owner[c])
     ELSE UNCHANGED <<registry, seen>>
  /\ UNCHANGED <<rpm, now>>

\* limits:set, POST admin/accounts/limits, or a plan's limits.
SetLimits(t, rate) ==
  /\ rpm[t] # rate
  /\ rpm' = [rpm EXCEPT ![t] = rate]
  /\ UNCHANGED <<bucket, registry, seen, now>>

Tick ==
  /\ now < MaxTime
  /\ now' = now + 1
  /\ UNCHANGED <<bucket, registry, rpm, seen>>

Init ==
  /\ bucket = [l \in Limiters |-> [c \in {} |-> 0]]
  /\ registry = <<>>
  /\ rpm = [t \in Tenants |-> Rate]
  /\ seen = <<>>
  /\ now = 0

Next ==
  \/ \E s \in Sources : Arrive(s)
  \/ \E c \in Credentials : Authenticate(c)
  \/ \E t \in Tenants, rate \in Rates : SetLimits(t, rate)
  \/ Tick

Spec == Init /\ [][Next]_limitVars

-----------------------------------------------------------------------------
(***************************************************************************)
(* Properties.                                                             *)
(***************************************************************************)
\* Types; no bucket is in debt or above its burst, no limiter above its
\* entries, and no tenant has two.
LimitsTypeOK ==
  /\ \A l \in Limiters :
       /\ DOMAIN bucket[l] \subseteq CallersOf(l) /\ Cardinality(DOMAIN bucket[l]) <= MaxEntries
       /\ \A c \in DOMAIN bucket[l] :
            bucket[l][c].tokens \in 0 .. Burst * Factor(l) /\ bucket[l][c].at \in 0 .. now
  /\ Len(registry) <= MaxTenants /\ \A t \in Tenants : Cardinality(Entries(t)) <= 1
  /\ \A i \in DOMAIN registry :
       /\ registry[i].tokens \in 0 .. TenantBurst(registry[i].rate)
       /\ registry[i].at \in 0 .. now
  /\ rpm \in [Tenants -> Rates]

\* What a caller could spend now: an evicted bucket counts as a full one.
Spendable == [c \in Credentials |-> found("credential", c)]

\* Eviction and a full registry are invisible: the credential limiter gives no
\* caller more than a bucket that is never forgotten would.
Promise == INSTANCE TokenBuckets WITH Callers <- Credentials, level <- Spendable

ImplementsTokenBuckets == Promise!Spec

\* Whoever else comes, a tenant among the MaxTenants most recently asked about
\* keeps its bucket until its limit changes: it never holds more than before,
\* refilled.
Recent == {seen[i] : i \in {j \in DOMAIN seen : j > Len(seen) - MaxTenants}}

TenantBucketKept ==
  [][\A t \in Tenants :
       t \in Recent /\ t \in Recent' /\ Current(t) # {} /\ rpm'[t] = rpm[t] =>
         /\ Current(t)' # {}
         /\ tenantFound(t)' <= tenantFound(t) + (now' - now) * rpm[t]
    ]_limitVars
=============================================================================
