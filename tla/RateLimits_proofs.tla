------------------------- MODULE RateLimits_proofs -------------------------
(***************************************************************************)
(* For any number of callers, entries and tenants, any rates and burst     *)
(* that loadConfig accepts and any length of time:                         *)
(*   - every bucket is between nothing and a burst, and the limiters and   *)
(*     the registry are within their bounds (LimitsTyped);                 *)
(*   - the credential limiter keeps what TokenBuckets promises: its        *)
(*     eviction is invisible (CredentialLimiterKeepsPromise);              *)
(*   - a tenant among the last MaxTenants asked about keeps its bucket     *)
(*     (TenantBucketStays), because the registry is the end of the history *)
(*     of who was asked about, each tenant once (RegistryInvariant).       *)
(***************************************************************************)
EXTENDS RateLimits, SequenceTheorems, FiniteSetTheorems, TLAPS

(***************************************************************************)
(* The limiters of sources and credentials: no bucket is in debt or above  *)
(* its burst or of the future, and no limiter is above its entries.        *)
(***************************************************************************)
MostOf(l) == Burst * Factor(l)

BucketOf(l, b) == b.tokens \in 0 .. MostOf(l) /\ b.at \in 0 .. now

LimitersInv ==
  /\ DOMAIN bucket = Limiters /\ now \in Nat
  /\ \A l \in Limiters :
       /\ IsFiniteSet(DOMAIN bucket[l]) /\ DOMAIN bucket[l] \subseteq CallersOf(l)
       /\ Cardinality(DOMAIN bucket[l]) <= MaxEntries
       /\ \A c \in DOMAIN bucket[l] : BucketOf(l, bucket[l][c])

\* What a limiter's factor makes of the burst and the rate.
LEMMA FactorType ==
  ASSUME NEW l
  PROVE  Factor(l) \in Nat /\ MostOf(l) \in Nat /\ Rate * Factor(l) \in Nat
BY LimitsAssumption DEF Factor, MostOf

\* A request finds from nothing to a burst.
LEMMA FoundType ==
  ASSUME LimitersInv, NEW l \in Limiters, NEW c
  PROVE  found(l, c) \in 0 .. MostOf(l)
<1>1. MostOf(l) \in Nat /\ Rate * Factor(l) \in Nat
  BY FactorType
<1>2. CASE c \notin DOMAIN bucket[l]
  BY <1>1, <1>2 DEF found, MostOf
<1>3. CASE c \in DOMAIN bucket[l]
  <2> DEFINE b == bucket[l][c]
             past == now - b.at
             rate == Rate * Factor(l)
             gain == past * rate
  <2>1. b.tokens \in 0 .. MostOf(l) /\ b.at \in 0 .. now /\ now \in Nat
    BY <1>3 DEF LimitersInv, BucketOf
  <2>2. past \in Nat
    BY <2>1
  <2>3. gain \in Nat
    <3> HIDE DEF past, rate
    <3>1. rate \in Nat
      BY <1>1 DEF rate
    <3> QED
      BY <2>2, <3>1
  <2>4. found(l, c) = IF MostOf(l) <= b.tokens + gain THEN MostOf(l) ELSE b.tokens + gain
    BY <1>3 DEF found, Refilled, Lesser, MostOf
  <2> HIDE DEF b, gain
  <2> QED
    BY <1>1, <2>1, <2>3, <2>4
<1> QED
  BY <1>2, <1>3

\* A request of c leaves the limiter within its entries and every bucket
\* between nothing and a burst.
LEMMA ConsumeKeeps ==
  ASSUME LimitersInv, NEW l \in Limiters, NEW c \in CallersOf(l)
  PROVE  LET next == consume(l, c)
         IN  /\ IsFiniteSet(DOMAIN next) /\ DOMAIN next \subseteq CallersOf(l)
             /\ Cardinality(DOMAIN next) <= MaxEntries
             /\ \A d \in DOMAIN next : BucketOf(l, next[d])
<1> DEFINE left == kept(l, c)
           f == found(l, c)
           new == [tokens |-> IF f >= One THEN f - One ELSE f, at |-> now]
           next == consume(l, c)
           old == bucket[l]
<1>1. /\ IsFiniteSet(DOMAIN old) /\ DOMAIN old \subseteq CallersOf(l)
      /\ Cardinality(DOMAIN old) <= MaxEntries
      /\ \A d \in DOMAIN old : BucketOf(l, old[d])
  BY DEF LimitersInv
<1>2. DOMAIN left \subseteq DOMAIN old /\ \A d \in DOMAIN left : left[d] = old[d]
  BY DEF kept, evictIdle
<1>3. (c \in DOMAIN old => DOMAIN left = DOMAIN old)
  BY DEF kept
<1>4. BucketOf(l, new)
  <2>1. f \in 0 .. MostOf(l) /\ MostOf(l) \in Nat /\ now \in Nat /\ One \in Nat
    BY FoundType, FactorType, LimitsAssumption DEF LimitersInv
  <2> HIDE DEF f
  <2> QED
    BY <2>1 DEF BucketOf
<1>5. next = IF ~Room(l, c) THEN left ELSE Put(left, c, new)
  BY DEF consume
<1>6. Room(l, c) <=> c \in DOMAIN old \/ Cardinality(DOMAIN left) < MaxEntries
  BY DEF Room
<1> HIDE DEF left, new, next, old
<1>7. IsFiniteSet(DOMAIN left) /\ Cardinality(DOMAIN left) <= Cardinality(DOMAIN old)
  BY <1>1, <1>2, FS_Subset
<1>8. Cardinality(DOMAIN left) \in Nat /\ Cardinality(DOMAIN old) \in Nat /\ MaxEntries \in Nat
  BY <1>1, <1>7, FS_CardinalityType, LimitsAssumption
<1>9. CASE ~Room(l, c)
  <2>1. next = left
    BY <1>5, <1>9
  <2>2. Cardinality(DOMAIN left) <= MaxEntries
    BY <1>1, <1>7, <1>8
  <2> QED
    BY <1>1, <1>2, <1>7, <2>1, <2>2 DEF next
<1>10. CASE Room(l, c)
  <2>1. next = [d \in DOMAIN left \cup {c} |-> IF d = c THEN new ELSE left[d]]
    BY <1>5, <1>10 DEF Put
  <2>2. DOMAIN next = DOMAIN left \cup {c}
    BY <2>1
  <2>3. \A d \in DOMAIN next : BucketOf(l, next[d])
    BY <1>1, <1>2, <1>4, <2>1
  <2>4. IsFiniteSet(DOMAIN left \cup {c})
    BY <1>7, FS_AddElement
  <2>5. Cardinality(DOMAIN left \cup {c}) <= MaxEntries
    <3>1. CASE c \in DOMAIN left
      <4>1. DOMAIN left \cup {c} = DOMAIN left
        BY <3>1
      <4> QED
        BY <1>1, <1>7, <1>8, <4>1
    <3>2. CASE c \notin DOMAIN left
      <4>1. Cardinality(DOMAIN left \cup {c}) = Cardinality(DOMAIN left) + 1
        BY <1>7, <3>2, FS_AddElement
      <4>2. Cardinality(DOMAIN left) < MaxEntries
        BY <1>3, <1>6, <1>10, <3>2
      <4> QED
        BY <1>8, <4>1, <4>2
    <3> QED
      BY <3>1, <3>2
  <2> QED
    BY <1>1, <1>2, <2>2, <2>3, <2>4, <2>5 DEF next
<1> QED
  BY <1>9, <1>10

\* Every step keeps the limiters' invariant.
LEMMA LimitersStep ==
  ASSUME LimitersInv, [Next]_limitVars
  PROVE  LimitersInv'
<1>1. ASSUME UNCHANGED <<bucket, now>> PROVE LimitersInv'
  BY <1>1 DEF LimitersInv, BucketOf
<1>2. ASSUME NEW l \in Limiters, NEW c \in CallersOf(l), now' = now,
             bucket' = [bucket EXCEPT ![l] = consume(l, c)]
      PROVE  LimitersInv'
  <2> DEFINE next == consume(l, c)
  <2>1. /\ IsFiniteSet(DOMAIN next) /\ DOMAIN next \subseteq CallersOf(l)
        /\ Cardinality(DOMAIN next) <= MaxEntries
        /\ \A d \in DOMAIN next : BucketOf(l, next[d])
    BY ConsumeKeeps
  <2> HIDE DEF next
  <2>2. DOMAIN bucket' = Limiters /\ bucket'[l] = next
        /\ \A k \in Limiters \ {l} : bucket'[k] = bucket[k]
    BY <1>2 DEF LimitersInv, next
  <2>3. ASSUME NEW k \in Limiters
        PROVE  /\ IsFiniteSet(DOMAIN bucket'[k]) /\ DOMAIN bucket'[k] \subseteq CallersOf(k)
               /\ Cardinality(DOMAIN bucket'[k]) <= MaxEntries
               /\ \A d \in DOMAIN bucket'[k] : BucketOf(k, bucket'[k][d])
    <3>1. CASE k = l
      BY <2>1, <2>2, <3>1
    <3>2. CASE k # l
      BY <2>2, <3>2 DEF LimitersInv
    <3> QED
      BY <3>1, <3>2
  <2> QED
    BY <1>2, <2>2, <2>3 DEF LimitersInv, BucketOf
<1>3. ASSUME NEW s \in Sources, Arrive(s) PROVE LimitersInv'
  BY <1>2, <1>3 DEF Arrive, Limiters, CallersOf
<1>4. ASSUME NEW c \in Credentials, Authenticate(c) PROVE LimitersInv'
  BY <1>2, <1>4 DEF Authenticate, Limiters, CallersOf
<1>5. ASSUME Tick PROVE LimitersInv'
  <2>1. bucket' = bucket /\ now' = now + 1
    BY <1>5 DEF Tick
  <2> QED
    BY <2>1, LimitsAssumption DEF LimitersInv, BucketOf
<1> QED
  BY <1>1, <1>3, <1>4, <1>5 DEF Next, SetLimits, limitVars

\* Every bucket stays within its burst, every limiter within its entries.
THEOREM LimitersInvariant == Spec => []LimitersInv
<1>1. Init => LimitersInv
  <2> SUFFICES ASSUME Init PROVE LimitersInv
    OBVIOUS
  <2>1. DOMAIN bucket = Limiters /\ now \in Nat /\ \A l \in Limiters : DOMAIN bucket[l] = {}
    BY DEF Init
  <2>2. IsFiniteSet({}) /\ Cardinality({}) = 0 /\ MaxEntries \in Nat
    BY FS_EmptySet, LimitsAssumption
  <2> QED
    BY <2>1, <2>2 DEF LimitersInv
<1> QED
  BY <1>1, LimitersStep, PTL DEF Spec

(***************************************************************************)
(* The refinement of TokenBuckets by the credential limiter.               *)
(***************************************************************************)
Cred == bucket["credential"]

\* The buckets of credentials hold from nothing to a burst, and no bucket is
\* of the future.
BucketOK(b) == b.tokens \in 0 .. Burst /\ b.at \in 0 .. now

BucketsInv ==
  /\ DOMAIN bucket = Limiters /\ now \in Nat
  /\ \A c \in DOMAIN Cred : BucketOK(Cred[c])

\* A bucket that is idle for longer than the eviction's limit is full.
LEMMA IdleIsFull ==
  ASSUME NEW tokens \in Nat, NEW elapsed \in Nat, elapsed > IdleEviction
  PROVE  tokens + elapsed * Rate >= Burst
<1>1. elapsed >= Minute
  BY LimitsAssumption DEF IdleEviction
<1>2. elapsed * Rate >= Minute * Rate
  BY <1>1, LimitsAssumption
<1>3. Minute * Rate = Rate * Minute
  BY LimitsAssumption
<1> QED
  BY <1>2, <1>3, LimitsAssumption

\* What is refilled stays between nothing and a burst.
LEMMA RefilledRange ==
  ASSUME now \in Nat, NEW b, BucketOK(b)
  PROVE  /\ Refilled(b, Rate, Burst) \in 0 .. Burst
         /\ b.at = now => Refilled(b, Rate, Burst) = b.tokens
<1> DEFINE gain == (now - b.at) * Rate
<1>1. now - b.at \in Nat /\ b.tokens \in 0 .. Burst /\ Burst \in Nat /\ Rate \in Nat
  BY LimitsAssumption DEF BucketOK
<1>2. gain \in Nat
  BY <1>1
<1>3. b.at = now => gain = 0
  BY <1>1
<1>4. Refilled(b, Rate, Burst) = IF Burst <= b.tokens + gain THEN Burst ELSE b.tokens + gain
  BY DEF Refilled, Lesser
<1> HIDE DEF gain
<1> QED
  BY <1>1, <1>2, <1>3, <1>4

\* The factor of credentials is one.
LEMMA CredFactor == Burst * Factor("credential") = Burst /\ Rate * Factor("credential") = Rate
BY LimitsAssumption DEF Factor

\* What a credential finds, without the factor.
LEMMA FoundIs ==
  ASSUME NEW c
  PROVE  found("credential", c) = IF c \in DOMAIN Cred THEN Refilled(Cred[c], Rate, Burst) ELSE Burst
BY CredFactor DEF found, Cred

\* A credential finds from nothing to a burst.
LEMMA FoundRange ==
  ASSUME BucketsInv, NEW c
  PROVE  found("credential", c) \in 0 .. Burst
BY FoundIs, RefilledRange, LimitsAssumption DEF BucketsInv

\* What the limiters' invariant says of credentials.
LEMMA BucketsFollow == LimitersInv => BucketsInv
BY CredFactor DEF LimitersInv, BucketOf, MostOf, BucketsInv, BucketOK, Cred, Limiters

\* What is evicted was full.
LEMMA EvictionInvisible ==
  ASSUME BucketsInv, NEW c \in DOMAIN Cred, now - Cred[c].at > IdleEviction
  PROVE  found("credential", c) = Burst
<1> DEFINE elapsed == now - Cred[c].at
<1>1. elapsed \in Nat /\ Cred[c].tokens \in Nat
  BY DEF BucketsInv, BucketOK
<1>2. Cred[c].tokens + elapsed * Rate >= Burst
  BY <1>1, IdleIsFull
<1>3. found("credential", c) = Lesser(Burst, Cred[c].tokens + elapsed * Rate)
  BY FoundIs DEF Refilled
<1> DEFINE sum == Cred[c].tokens + elapsed * Rate
<1>4. sum \in Int /\ Burst \in Int /\ sum >= Burst
  BY <1>1, <1>2, LimitsAssumption
<1> HIDE DEF sum
<1> QED
  BY <1>3, <1>4 DEF Lesser, sum

\* A request takes One from the caller's own bucket, and only if it is allowed;
\* what it evicts or finds no room for leaves every caller what it had.
LEMMA AuthenticateTakes ==
  ASSUME BucketsInv, NEW k \in Credentials, Authenticate(k), NEW d
  PROVE  found("credential", d)' =
           IF d = k /\ Allows("credential", k) THEN found("credential", d) - One
           ELSE found("credential", d)
<1> DEFINE left == kept("credential", k)
           f == found("credential", k)
           new == [tokens |-> IF f >= One THEN f - One ELSE f, at |-> now]
<1>1. Cred' = (IF ~Room("credential", k) THEN left ELSE Put(left, k, new)) /\ now' = now
  BY DEF Authenticate, BucketsInv, Limiters, consume, Cred
<1>2. found("credential", d)' =
        IF d \in DOMAIN Cred' THEN Lesser(Burst, Cred'[d].tokens + (now' - Cred'[d].at) * Rate) ELSE Burst
  BY CredFactor DEF found, Cred, Refilled
<1>3. found("credential", d) =
        IF d \in DOMAIN Cred THEN Lesser(Burst, Cred[d].tokens + (now - Cred[d].at) * Rate) ELSE Burst
  BY FoundIs DEF Refilled
<1>4. ASSUME d \in DOMAIN left, Cred'[d] = left[d], d \in DOMAIN Cred'
      PROVE  found("credential", d)' = found("credential", d)
  <2>1. d \in DOMAIN Cred /\ left[d] = Cred[d]
    BY <1>4 DEF kept, evictIdle, Cred
  <2> QED
    BY <1>1, <1>2, <1>3, <1>4, <2>1
<1>5. ASSUME d \notin DOMAIN left, d \notin DOMAIN Cred'
      PROVE  found("credential", d)' = found("credential", d)
  <2>1. found("credential", d)' = Burst
    BY <1>2, <1>5
  <2>2. CASE d \notin DOMAIN Cred
    BY <1>3, <2>1, <2>2
  <2>3. CASE d \in DOMAIN Cred
    <3>1. ~(now - Cred[d].at <= IdleEviction)
      BY <1>5, <2>3 DEF kept, evictIdle, Cred
    <3>2. now - Cred[d].at > IdleEviction
      BY <2>3, <3>1, LimitsAssumption DEF BucketsInv, BucketOK, IdleEviction
    <3> QED
      BY <2>1, <2>3, <3>2, EvictionInvisible
  <2> QED
    BY <2>2, <2>3
<1>6. CASE ~Room("credential", k)
  <2>1. Cred' = left /\ ~Allows("credential", k)
    BY <1>1, <1>6 DEF Allows
  <2> HIDE DEF left
  <2> QED
    BY <1>4, <1>5, <2>1
<1>7. CASE Room("credential", k) /\ d # k
  <2>1. Cred' = Put(left, k, new)
    BY <1>1, <1>7
  <2>2. (d \in DOMAIN Cred' <=> d \in DOMAIN left) /\ (d \in DOMAIN left => Cred'[d] = left[d])
    BY <1>7, <2>1 DEF Put
  <2> HIDE DEF left
  <2> QED
    BY <1>4, <1>5, <1>7, <2>2
<1>8. CASE Room("credential", k) /\ d = k
  <2>1. d \in DOMAIN Cred' /\ Cred'[d] = new
    BY <1>1, <1>8 DEF Put
  <2>2. f \in 0 .. Burst /\ new.tokens \in 0 .. Burst /\ new.at = now /\ now \in Nat
    BY FoundRange, LimitsAssumption DEF BucketsInv
  <2>3. found("credential", d)' = Lesser(Burst, new.tokens + (now - now) * Rate)
    BY <1>1, <1>2, <2>1, <2>2
  <2>4. (now - now) * Rate = 0
    BY <2>2, LimitsAssumption
  <2>5. found("credential", d)' = new.tokens
    <3> HIDE DEF new
    <3> QED
      BY <2>2, <2>3, <2>4, LimitsAssumption DEF Lesser
  <2> QED
    BY <1>8, <2>5 DEF Allows
<1> QED
  BY <1>6, <1>7, <1>8

\* A tick refills every bucket, an evicted one too.
LEMMA TickRefills ==
  ASSUME BucketsInv, Tick, NEW d
  PROVE  found("credential", d)' = Lesser(Burst, found("credential", d) + Rate)
<1>1. Cred' = Cred /\ now' = now + 1
  BY DEF Tick, Cred
<1>2. found("credential", d)' =
        IF d \in DOMAIN Cred THEN Lesser(Burst, Cred[d].tokens + ((now + 1) - Cred[d].at) * Rate) ELSE Burst
  <2>1. found("credential", d)' =
          IF d \in DOMAIN Cred' THEN Lesser(Burst, Cred'[d].tokens + (now' - Cred'[d].at) * Rate) ELSE Burst
    BY CredFactor DEF found, Cred, Refilled
  <2>2. now' - Cred[d].at = (now + 1) - Cred[d].at
    BY <1>1
  <2>3. Cred'[d].tokens = Cred[d].tokens /\ Cred'[d].at = Cred[d].at /\ DOMAIN Cred' = DOMAIN Cred
    BY <1>1
  <2> QED
    BY <2>1, <2>2, <2>3, Zenon
<1>3. found("credential", d) =
        IF d \in DOMAIN Cred THEN Lesser(Burst, Cred[d].tokens + (now - Cred[d].at) * Rate) ELSE Burst
  BY FoundIs DEF Refilled
<1>4. CASE d \in DOMAIN Cred
  <2> DEFINE tokens == Cred[d].tokens
             gain == (now - Cred[d].at) * Rate
             next == ((now + 1) - Cred[d].at) * Rate
  <2>1. tokens \in Nat /\ now - Cred[d].at \in Nat /\ Cred[d].at \in Int /\ Rate \in Nat /\ Burst \in Nat
    BY <1>4, LimitsAssumption DEF BucketsInv, BucketOK
  <2>2. next = gain + Rate /\ gain \in Nat
    <3> DEFINE x == now - Cred[d].at
    <3>1. x \in Nat /\ now \in Nat
      BY <2>1 DEF BucketsInv
    <3>2. (now + 1) - Cred[d].at = x + 1
      BY <2>1, <3>1
    <3>3. gain = x * Rate /\ next = (x + 1) * Rate
      BY <3>2
    <3> HIDE DEF x, gain, next
    <3> QED
      BY <2>1, <3>1, <3>3
  <2>3. found("credential", d)' = Lesser(Burst, tokens + next) /\ found("credential", d) = Lesser(Burst, tokens + gain)
    BY <1>2, <1>3, <1>4
  <2> HIDE DEF tokens, gain, next
  <2> QED
    BY <2>1, <2>2, <2>3 DEF Lesser
<1>5. CASE d \notin DOMAIN Cred
  BY <1>2, <1>3, <1>5, LimitsAssumption DEF Lesser
<1> QED
  BY <1>4, <1>5

\* The credential limiter implements TokenBuckets: no caller gets more than a
\* bucket that is never forgotten would give it, whoever else comes.
THEOREM CredentialLimiterKeepsPromise == Spec => ImplementsTokenBuckets
<1>1. Init => Promise!Init
  <2> SUFFICES ASSUME Init PROVE Promise!Init
    OBVIOUS
  <2>1. DOMAIN Cred = {}
    BY DEF Init, Cred, Limiters
  <2>2. \A c : found("credential", c) = Burst
    BY <2>1, FoundIs
  <2> QED
    BY <2>2 DEF Promise!Init, Spendable
<1>2. BucketsInv /\ [Next]_limitVars => [Promise!Next]_Spendable
  <2> SUFFICES ASSUME BucketsInv, [Next]_limitVars PROVE Promise!Next \/ Spendable' = Spendable
    OBVIOUS
  <2>1. ASSUME Cred' = Cred, now' = now PROVE Spendable' = Spendable
    BY <2>1, CredFactor DEF Spendable, found, Cred, Refilled
  <2>2. ASSUME NEW s \in Sources, Arrive(s) PROVE Spendable' = Spendable
    <3>1. Cred' = Cred /\ now' = now
      BY <2>2 DEF Arrive, Cred, BucketsInv, Limiters
    <3> QED
      BY <2>1, <3>1
  <2>3. ASSUME NEW k \in Credentials, Authenticate(k) PROVE Promise!Next \/ Spendable' = Spendable
    <3>1. \A d \in Credentials :
            found("credential", d)' = IF d = k /\ Allows("credential", k)
                                      THEN found("credential", d) - One ELSE found("credential", d)
      BY <2>3, AuthenticateTakes
    <3>2. CASE Allows("credential", k)
      <4>1. Spendable[k] >= One
        BY <3>2 DEF Spendable, Allows
      <4>2. Spendable' = [Spendable EXCEPT ![k] = @ - One]
        BY <3>1, <3>2 DEF Spendable
      <4> QED
        BY <4>1, <4>2 DEF Promise!Next, Promise!Take
    <3>3. CASE ~Allows("credential", k)
      BY <3>1, <3>3 DEF Spendable
    <3> QED
      BY <3>2, <3>3
  <2>4. ASSUME Tick PROVE Promise!Next
    <3>1. \A d \in Credentials : found("credential", d)' = Lesser(Burst, found("credential", d) + Rate)
      BY <2>4, TickRefills
    <3> QED
      BY <3>1 DEF Promise!Next, Promise!Refill, Promise!Least, Spendable, Lesser
  <2>5. ASSUME UNCHANGED <<bucket, now>> PROVE Spendable' = Spendable
    BY <2>1, <2>5 DEF Cred
  <2> QED
    BY <2>2, <2>3, <2>4, <2>5 DEF Next, SetLimits, limitVars
<1> QED
  BY <1>1, <1>2, BucketsFollow, LimitersInvariant, PTL DEF ImplementsTokenBuckets, Promise!Spec, Spec

(***************************************************************************)
(* Sequences with one element deleted, and cut to their end.               *)
(***************************************************************************)
\* Deleting at one index.
LEMMA DeletedAt ==
  ASSUME NEW S, NEW s \in Seq(S), NEW i \in 1 .. Len(s)
  PROVE  /\ RemoveAt(s, i) \in Seq(S) /\ Len(RemoveAt(s, i)) = Len(s) - 1
         /\ \A j \in 1 .. Len(s) - 1 : RemoveAt(s, i)[j] = IF j < i THEN s[j] ELSE s[j + 1]
<1> DEFINE u == SubSeq(s, 1, i - 1)
           v == SubSeq(s, i + 1, Len(s))
<1>1. Len(s) \in Nat /\ i \in Nat /\ \A j \in 1 .. Len(s) : s[j] \in S
  OBVIOUS
<1>2. /\ u \in Seq(S) /\ Len(u) = i - 1
      /\ \A j \in 1 .. i - 1 : u[j] = s[j]
  <2>1. \A j \in 1 .. i - 1 : s[j] \in S
    BY <1>1
  <2>2. /\ u \in Seq(S) /\ Len(u) = IF 1 <= i - 1 THEN (i - 1) - 1 + 1 ELSE 0
        /\ \A j \in 1 .. (i - 1) - 1 + 1 : u[j] = s[1 + j - 1]
    BY <1>1, <2>1, SubSeqProperties
  <2> HIDE DEF u
  <2> QED
    BY <1>1, <2>2
<1>3. /\ v \in Seq(S) /\ Len(v) = Len(s) - i
      /\ \A j \in 1 .. Len(s) - i : v[j] = s[i + j]
  <2>1. \A j \in i + 1 .. Len(s) : s[j] \in S
    BY <1>1
  <2>2. /\ v \in Seq(S) /\ Len(v) = IF i + 1 <= Len(s) THEN Len(s) - (i + 1) + 1 ELSE 0
        /\ \A j \in 1 .. Len(s) - (i + 1) + 1 : v[j] = s[(i + 1) + j - 1]
    BY <1>1, <2>1, SubSeqProperties
  <2> HIDE DEF v
  <2> QED
    BY <1>1, <2>2
<1> HIDE DEF u, v
<1>4. /\ u \o v \in Seq(S) /\ Len(u \o v) = Len(u) + Len(v)
      /\ \A j \in 1 .. Len(u) + Len(v) : (u \o v)[j] = IF j <= Len(u) THEN u[j] ELSE v[j - Len(u)]
  BY <1>2, <1>3, ConcatProperties
<1>5. RemoveAt(s, i) = u \o v
  BY DEF RemoveAt, u, v
<1>6. Len(u \o v) = Len(s) - 1
  BY <1>1, <1>2, <1>3, <1>4
<1>7. ASSUME NEW j \in 1 .. Len(s) - 1
      PROVE  (u \o v)[j] = IF j < i THEN s[j] ELSE s[j + 1]
  <2>1. (u \o v)[j] = IF j <= i - 1 THEN u[j] ELSE v[j - (i - 1)]
    BY <1>1, <1>2, <1>3, <1>4
  <2>2. CASE j < i
    BY <1>1, <1>2, <2>1, <2>2
  <2>3. CASE ~(j < i)
    <3>1. j - (i - 1) \in 1 .. Len(s) - i /\ i + (j - (i - 1)) = j + 1
      BY <1>1, <2>3
    <3>2. (u \o v)[j] = v[j - (i - 1)]
      BY <1>1, <2>1, <2>3
    <3> QED
      BY <1>3, <2>3, <3>1, <3>2
  <2> QED
    BY <2>2, <2>3
<1> QED
  BY <1>4, <1>5, <1>6, <1>7

\* Deleting nothing changes nothing.
LEMMA WithoutNone ==
  ASSUME NEW s
  PROVE  Without(s, {}) = s
BY DEF Without

\* Deleting the only index is deleting at that index.
LEMMA WithoutOne ==
  ASSUME NEW S, NEW s \in Seq(S), NEW i \in 1 .. Len(s)
  PROVE  /\ Without(s, {i}) \in Seq(S) /\ Len(Without(s, {i})) = Len(s) - 1
         /\ \A j \in 1 .. Len(s) - 1 : Without(s, {i})[j] = IF j < i THEN s[j] ELSE s[j + 1]
<1>1. (CHOOSE j \in {i} : TRUE) = i
  OBVIOUS
<1>2. Without(s, {i}) = RemoveAt(s, i)
  BY <1>1 DEF Without
<1> QED
  BY <1>2, DeletedAt

\* What is trimmed is the front.
LEMMA TrimmedIs ==
  ASSUME NEW S, NEW s \in Seq(S), Len(s) <= MaxTenants
  PROVE  LET t == Trimmed(s)
         IN  /\ t \in Seq(S) /\ Len(t) = Lesser(Len(s), MaxTenants - 1)
             /\ \A j \in 1 .. Len(t) : t[j] = s[j + (Len(s) - Len(t))]
<1> DEFINE cut == Greater(0, Len(s) - MaxTenants + 1)
           t == Trimmed(s)
<1>1. Len(s) \in Nat /\ MaxTenants \in Nat \ {0} /\ \A j \in 1 .. Len(s) : s[j] \in S
  BY LimitsAssumption
<1>2. cut \in Nat /\ cut <= Len(s) /\ Len(s) - cut = Lesser(Len(s), MaxTenants - 1)
  BY <1>1 DEF Greater, Lesser
<1>3. t = SubSeq(s, 1 + cut, Len(s))
  BY DEF Trimmed
<1> HIDE DEF cut, t
<1>4. \A j \in 1 + cut .. Len(s) : s[j] \in S
  BY <1>1, <1>2
<1>5. /\ t \in Seq(S) /\ Len(t) = IF 1 + cut <= Len(s) THEN Len(s) - (1 + cut) + 1 ELSE 0
      /\ \A j \in 1 .. Len(s) - (1 + cut) + 1 : t[j] = s[(1 + cut) + j - 1]
  BY <1>1, <1>2, <1>3, <1>4, SubSeqProperties
<1>6. Len(t) = Len(s) - cut
  BY <1>1, <1>2, <1>5
<1>7. ASSUME NEW j \in 1 .. Len(t) PROVE t[j] = s[j + (Len(s) - Len(t))]
  <2>1. j \in 1 .. Len(s) - (1 + cut) + 1 /\ (1 + cut) + j - 1 = j + (Len(s) - Len(t))
    BY <1>1, <1>2, <1>6
  <2> QED
    BY <1>5, <2>1
<1> QED
  BY <1>2, <1>5, <1>6, <1>7 DEF t

(***************************************************************************)
(* The registry of tenants: the end of the history of who was asked about. *)
(***************************************************************************)
TenantEntries == [tenant : Tenants, rate : Rates, at : Nat, tokens : Nat]

\* The registry holds the tenants last asked about, in that order.
Follows(entries, asked) ==
  /\ Len(entries) = Lesser(Len(asked), MaxTenants)
  /\ \A i \in 1 .. Len(entries) : entries[i].tenant = asked[i + (Len(asked) - Len(entries))]

Distinct(asked) == \A i, j \in 1 .. Len(asked) : asked[i] = asked[j] => i = j

\* An entry that could stand in the registry now.
EntryOK(e) ==
  e \in TenantEntries /\ e.tokens <= TenantBurst(e.rate) /\ e.at <= now

RegistryInv ==
  /\ rpm \in [Tenants -> Rates] /\ now \in Nat
  /\ registry \in Seq(TenantEntries) /\ seen \in Seq(Tenants)
  /\ \A i \in 1 .. Len(registry) : EntryOK(registry[i])
  /\ Distinct(seen) /\ Follows(registry, seen)

Asked(t) == {i \in DOMAIN seen : seen[i] = t}

\* A tenant's burst holds one request at least.
LEMMA BurstType ==
  ASSUME NEW rate \in Rates
  PROVE  TenantBurst(rate) \in Nat /\ One <= TenantBurst(rate)
<1>1. rate \in Nat /\ Minute \in Nat /\ One \in Nat /\ Burst \in Nat
  BY LimitsAssumption
<1>2. rate * Minute \in Nat
  BY <1>1
<1> DEFINE most == rate * Minute
<1> HIDE DEF most
<1> QED
  BY <1>1, <1>2 DEF TenantBurst, Greater, Lesser, most

\* What a tenant's bucket holds after some time.
LEMMA RefilledType ==
  ASSUME RegistryInv, NEW e, EntryOK(e)
  PROVE  LET n == Refilled(e, e.rate, TenantBurst(e.rate))
         IN  n \in Nat /\ n <= TenantBurst(e.rate) /\ (e.at = now => n = e.tokens)
<1> DEFINE gain == (now - e.at) * e.rate
           most == TenantBurst(e.rate)
<1>1. e.rate \in Nat /\ e.tokens \in Nat /\ now - e.at \in Nat /\ e.rate \in Rates
      /\ e.tokens <= most
  <2>1. e.rate \in Rates /\ e.tokens \in Nat /\ e.at \in Nat /\ e.at <= now /\ e.tokens <= most
    BY DEF EntryOK, TenantEntries
  <2>2. now \in Nat /\ Rates \subseteq Nat
    BY LimitsAssumption DEF RegistryInv
  <2>3. e.rate \in Nat
    BY <2>1, <2>2
  <2>4. now - e.at \in Nat
    BY <2>1, <2>2
  <2> QED
    BY <2>1, <2>3, <2>4
<1>2. most \in Nat
  BY <1>1, BurstType
<1>3. gain \in Nat /\ (e.at = now => gain = 0)
  <2> DEFINE past == now - e.at
  <2>1. past \in Nat /\ (e.at = now => past = 0)
    BY <1>1 DEF RegistryInv
  <2> HIDE DEF past
  <2>2. past * e.rate \in Nat /\ (past = 0 => past * e.rate = 0)
    BY <1>1, <2>1
  <2> QED
    BY <2>1, <2>2 DEF past
<1>4. Refilled(e, e.rate, most) = IF most <= e.tokens + gain THEN most ELSE e.tokens + gain
  BY DEF Refilled, Lesser
<1> HIDE DEF gain, most
<1>5. /\ Refilled(e, e.rate, most) \in Nat /\ Refilled(e, e.rate, most) <= most
      /\ e.at = now => Refilled(e, e.rate, most) = e.tokens
  BY <1>1, <1>2, <1>3, <1>4
<1> QED
  BY <1>5 DEF most

\* A tenant stands in the registry once.
LEMMA OneEntry ==
  ASSUME RegistryInv, NEW t
  PROVE  /\ \A i, j \in Entries(t) : i = j
         /\ Entries(t) \subseteq 1 .. Len(registry)
         /\ \A i \in Entries(t) : i + (Len(seen) - Len(registry)) \in Asked(t)
         /\ \A i, j \in Asked(t) : i = j
<1>1. /\ Len(registry) \in Nat /\ Len(seen) \in Nat /\ MaxTenants \in Nat
      /\ DOMAIN registry = 1 .. Len(registry) /\ DOMAIN seen = 1 .. Len(seen)
      /\ Len(registry) <= Len(seen)
      /\ \A i \in 1 .. Len(registry) :
           registry[i].tenant = seen[i + (Len(seen) - Len(registry))]
  <2>1. registry \in Seq(TenantEntries) /\ seen \in Seq(Tenants) /\ MaxTenants \in Nat
    BY LimitsAssumption DEF RegistryInv
  <2>2. /\ Len(registry) \in Nat /\ Len(seen) \in Nat
        /\ DOMAIN registry = 1 .. Len(registry) /\ DOMAIN seen = 1 .. Len(seen)
    BY <2>1
  <2>3. Len(registry) = Lesser(Len(seen), MaxTenants)
    BY DEF RegistryInv, Follows
  <2>4. Len(registry) <= Len(seen)
    BY <2>1, <2>2, <2>3 DEF Lesser
  <2>5. \A i \in 1 .. Len(registry) :
           registry[i].tenant = seen[i + (Len(seen) - Len(registry))]
    BY DEF RegistryInv, Follows
  <2> QED
    BY <2>1, <2>2, <2>4, <2>5
<1>2. \A i \in 1 .. Len(registry) : i + (Len(seen) - Len(registry)) \in 1 .. Len(seen)
  BY <1>1
<1>3. \A i \in Entries(t) : i \in 1 .. Len(registry) /\ registry[i].tenant = t
  BY <1>1 DEF Entries
<1>4. \A i \in Entries(t) : i + (Len(seen) - Len(registry)) \in Asked(t)
  BY <1>1, <1>2, <1>3 DEF Asked
<1>5. \A i, j \in Asked(t) : i = j
  BY <1>1 DEF Asked, RegistryInv, Distinct
<1>6. ASSUME NEW i \in Entries(t), NEW j \in Entries(t) PROVE i = j
  <2>1. i + (Len(seen) - Len(registry)) = j + (Len(seen) - Len(registry))
    BY <1>4, <1>5
  <2> QED
    BY <1>1, <1>3, <2>1
<1> QED
  BY <1>3, <1>4, <1>5, <1>6

\* Deleting the tenant from both keeps the order.
LEMMA OthersFollow ==
  ASSUME RegistryInv, NEW t \in Tenants
  PROVE  LET O == Others(t)
             W == Without(seen, Asked(t))
         IN  /\ O \in Seq(TenantEntries) /\ W \in Seq(Tenants)
             /\ Len(O) \in Nat /\ Len(W) \in Nat /\ Len(O) <= Len(W) /\ Len(O) <= MaxTenants
             /\ Lesser(Len(O), MaxTenants - 1) = Lesser(Len(W), MaxTenants - 1)
             /\ Entries(t) # {} => Len(O) <= MaxTenants - 1
             /\ \A j \in 1 .. Len(O) : /\ O[j].tenant = W[j + (Len(W) - Len(O))]
                                       /\ O[j].tenant # t
                                       /\ \E i \in 1 .. Len(registry) : O[j] = registry[i]
             /\ Distinct(W) /\ \A j \in 1 .. Len(W) : W[j] # t
<1> DEFINE O == Others(t)
           W == Without(seen, Asked(t))
           m == Len(registry)
           n == Len(seen)
<1>1. /\ m \in Nat /\ n \in Nat /\ MaxTenants \in Nat \ {0} /\ m = Lesser(n, MaxTenants)
      /\ registry \in Seq(TenantEntries) /\ seen \in Seq(Tenants)
      /\ DOMAIN registry = 1 .. m /\ DOMAIN seen = 1 .. n
      /\ \A i \in 1 .. m : registry[i].tenant = seen[i + (n - m)]
      /\ \A i, j \in 1 .. n : seen[i] = seen[j] => i = j
  BY LimitsAssumption DEF RegistryInv, Follows, Distinct
<1> HIDE DEF m, n
<1>2. m <= n /\ m <= MaxTenants /\ (m < MaxTenants => m = n)
  BY <1>1 DEF Lesser
<1>9. m \in Nat /\ n \in Nat /\ m <= n
  BY <1>1, <1>2
<1>3. /\ \A i, j \in Entries(t) : i = j
      /\ Entries(t) \subseteq 1 .. m
      /\ \A i \in Entries(t) : i + (n - m) \in Asked(t)
      /\ \A i, j \in Asked(t) : i = j
  BY OneEntry DEF m, n
<1>4. /\ \A i \in 1 .. m : i \notin Entries(t) => registry[i].tenant # t
      /\ \A i \in 1 .. n : i \notin Asked(t) => seen[i] # t
      /\ Asked(t) \subseteq 1 .. n
  BY <1>1 DEF Entries, Asked
<1>5. CASE Asked(t) = {}
  <2>1. Entries(t) = {}
    BY <1>3, <1>5
  <2>2. O = registry /\ W = seen
    BY <1>5, <2>1, WithoutNone DEF Others
  <2> HIDE DEF O, W
  <2>3. Len(O) = m /\ Len(W) = n
    BY <2>2 DEF m, n
  <2>4. Lesser(m, MaxTenants - 1) = Lesser(n, MaxTenants - 1)
    BY <1>1, <1>2 DEF Lesser
  <2>5. \A j \in 1 .. m : O[j].tenant = W[j + (n - m)] /\ O[j].tenant # t
    BY <1>1, <1>4, <2>1, <2>2
  <2>6. Distinct(W) /\ \A j \in 1 .. n : W[j] # t
    BY <1>1, <1>4, <1>5, <2>2, <2>3 DEF Distinct
  <2> QED
    BY <1>1, <1>2, <2>1, <2>2, <2>3, <2>4, <2>5, <2>6 DEF O, W, m
<1>6. ASSUME NEW k \in Asked(t) PROVE
             /\ W \in Seq(Tenants) /\ Len(W) = n - 1
             /\ \A j \in 1 .. n - 1 : W[j] = IF j < k THEN seen[j] ELSE seen[j + 1]
             /\ Distinct(W) /\ \A j \in 1 .. Len(W) : W[j] # t
  <2>1. Asked(t) = {k} /\ k \in 1 .. n
    BY <1>3, <1>4, <1>6
  <2>2. /\ W \in Seq(Tenants) /\ Len(W) = n - 1
        /\ \A j \in 1 .. n - 1 : W[j] = IF j < k THEN seen[j] ELSE seen[j + 1]
    <3>1. k \in 1 .. Len(seen)
      BY <2>1 DEF n
    <3>2. /\ Without(seen, {k}) \in Seq(Tenants) /\ Len(Without(seen, {k})) = Len(seen) - 1
          /\ \A j \in 1 .. Len(seen) - 1 :
               Without(seen, {k})[j] = IF j < k THEN seen[j] ELSE seen[j + 1]
      <4>1. seen \in Seq(Tenants)
        BY <1>1
      <4> QED
        BY <3>1, <4>1, WithoutOne
    <3> QED
      BY <2>1, <3>2 DEF n
  <2> HIDE DEF W
  <2>3. ASSUME NEW j \in 1 .. n - 1 PROVE W[j] # t
    <3>1. j \in 1 .. n /\ j + 1 \in 1 .. n /\ (j < k => j # k) /\ (~(j < k) => j + 1 # k)
      BY <1>1, <2>1
    <3>2. \A i \in 1 .. n : i # k => seen[i] # t
      BY <1>4, <2>1
    <3> QED
      BY <2>2, <3>1, <3>2
  <2>4. ASSUME NEW i \in 1 .. n - 1, NEW j \in 1 .. n - 1, W[i] = W[j] PROVE i = j
    <3> DEFINE at(x) == IF x < k THEN x ELSE x + 1
    <3>1. at(i) \in 1 .. n /\ at(j) \in 1 .. n /\ W[i] = seen[at(i)] /\ W[j] = seen[at(j)]
      BY <1>1, <2>1, <2>2
    <3>2. at(i) = at(j)
      BY <1>1, <2>4, <3>1
    <3> QED
      BY <1>1, <2>1, <3>2
  <2> QED
    BY <2>2, <2>3, <2>4 DEF Distinct
<1>7. CASE Asked(t) # {} /\ Entries(t) = {}
  <2>1. PICK k \in Asked(t) : TRUE
    BY <1>7
  <2>2. O = registry /\ k \in 1 .. n
    BY <1>4, <1>7, WithoutNone DEF Others
  <2>3. k <= n - m
    <3>1. ASSUME k > n - m PROVE FALSE
      <4>1. k - (n - m) \in 1 .. m /\ (k - (n - m)) + (n - m) = k
        <5>1. k \in 1 .. n
          BY <2>2
        <5> QED
          BY <1>9, <3>1, <5>1
      <4>2. registry[k - (n - m)].tenant = seen[k]
        BY <1>1, <4>1
      <4>3. seen[k] = t
        BY <2>1 DEF Asked
      <4> QED
        BY <1>4, <1>7, <4>1, <4>2, <4>3
    <3> QED
      BY <1>1, <2>2, <3>1
  <2>4. m = MaxTenants /\ m <= n - 1
    BY <1>1, <1>2, <2>2, <2>3
  <2>5. /\ W \in Seq(Tenants) /\ Len(W) = n - 1
        /\ \A j \in 1 .. n - 1 : W[j] = IF j < k THEN seen[j] ELSE seen[j + 1]
        /\ Distinct(W) /\ \A j \in 1 .. Len(W) : W[j] # t
    BY <1>6
  <2> HIDE DEF O, W
  <2>6. \A j \in 1 .. m : O[j].tenant = W[j + ((n - 1) - m)]
    <3> SUFFICES ASSUME NEW j \in 1 .. m PROVE O[j].tenant = W[j + ((n - 1) - m)]
      OBVIOUS
    <3>1. j + ((n - 1) - m) \in 1 .. n - 1 /\ ~(j + ((n - 1) - m) < k)
          /\ (j + ((n - 1) - m)) + 1 = j + (n - m)
      <4>1. k \in 1 .. n /\ m <= n - 1
        BY <2>2, <2>4
      <4> QED
        BY <1>9, <2>3, <4>1
    <3> DEFINE x == j + ((n - 1) - m)
    <3>2. O[j].tenant = seen[j + (n - m)]
      BY <1>1, <2>2
    <3>3. W[x] = IF x < k THEN seen[x] ELSE seen[x + 1]
      BY <2>5, <3>1
    <3> QED
      BY <3>1, <3>2, <3>3
  <2>7. Lesser(m, MaxTenants - 1) = Lesser(n - 1, MaxTenants - 1)
    BY <1>1, <2>4 DEF Lesser
  <2>8. Len(O) = m /\ O \in Seq(TenantEntries)
    BY <1>1, <2>2 DEF m
  <2>9. \A j \in 1 .. m : O[j].tenant # t /\ \E i \in 1 .. m : O[j] = registry[i]
    BY <1>4, <1>7, <2>2
  <2>10. m \in Nat /\ n - 1 \in Nat
    BY <1>1, <2>2
  <2> QED
    BY <1>7, <2>4, <2>5, <2>6, <2>7, <2>8, <2>9, <2>10 DEF O, W, m
<1>8. CASE Entries(t) # {}
  <2>1. PICK i \in Entries(t) : TRUE
    BY <1>8
  <2> DEFINE d == n - m
  <2>2. Entries(t) = {i} /\ i \in 1 .. m /\ i + d \in Asked(t)
    BY <1>3, <2>1
  <2>3. /\ W \in Seq(Tenants) /\ Len(W) = n - 1
        /\ \A j \in 1 .. n - 1 : W[j] = IF j < i + d THEN seen[j] ELSE seen[j + 1]
        /\ Distinct(W) /\ \A j \in 1 .. Len(W) : W[j] # t
    BY <1>6, <2>2
  <2>4. /\ O \in Seq(TenantEntries) /\ Len(O) = m - 1
        /\ \A j \in 1 .. m - 1 : O[j] = IF j < i THEN registry[j] ELSE registry[j + 1]
    <3>1. O = Without(registry, {i})
      BY <2>2 DEF Others
    <3> HIDE DEF O
    <3> QED
      <4>1. i \in 1 .. Len(registry)
        BY <2>2 DEF m
      <4>2. /\ Without(registry, {i}) \in Seq(TenantEntries)
            /\ Len(Without(registry, {i})) = Len(registry) - 1
            /\ \A j \in 1 .. Len(registry) - 1 :
                 Without(registry, {i})[j] = IF j < i THEN registry[j] ELSE registry[j + 1]
        <5>1. registry \in Seq(TenantEntries)
          BY <1>1
        <5> QED
          BY <4>1, <5>1, WithoutOne
      <4> QED
        BY <3>1, <4>2 DEF m
  <2> HIDE DEF O, W
  <2>5. d \in Nat /\ i \in Nat
    BY <1>1, <1>2, <2>2
  <2>6. ASSUME NEW j \in 1 .. m - 1
        PROVE  /\ O[j].tenant = W[j + ((n - 1) - (m - 1))]
               /\ O[j].tenant # t /\ \E k \in 1 .. m : O[j] = registry[k]
    <3>1. j + ((n - 1) - (m - 1)) = j + d /\ j + d \in 1 .. n - 1 /\ j \in 1 .. m /\ j + 1 \in 1 .. m
          /\ (j + 1) + d = (j + d) + 1
      BY <1>9
    <3>2. CASE j < i
      <4>1. O[j] = registry[j] /\ j \notin Entries(t) /\ j + d < i + d
        BY <2>2, <2>4, <2>5, <3>1, <3>2
      <4>2. W[j + d] = seen[j + d] /\ registry[j].tenant = seen[j + d]
        BY <1>1, <2>3, <3>1, <4>1
      <4> QED
        BY <1>4, <3>1, <4>1, <4>2
    <3>3. CASE ~(j < i)
      <4>1. O[j] = registry[j + 1] /\ j + 1 \notin Entries(t) /\ ~(j + d < i + d)
        BY <2>2, <2>4, <2>5, <3>1, <3>3
      <4>2. W[j + d] = seen[(j + 1) + d] /\ registry[j + 1].tenant = seen[(j + 1) + d]
        BY <1>1, <2>3, <3>1, <4>1
      <4> QED
        BY <1>4, <3>1, <4>1, <4>2
    <3> QED
      BY <3>2, <3>3
  <2>7. /\ m - 1 \in Nat /\ n - 1 \in Nat /\ m - 1 <= n - 1 /\ m - 1 <= MaxTenants - 1
        /\ Lesser(m - 1, MaxTenants - 1) = Lesser(n - 1, MaxTenants - 1)
    BY <1>1, <1>2, <2>2 DEF Lesser
  <2>8. m - 1 <= MaxTenants
    BY <1>1, <2>7
  <2> QED
    BY <2>3, <2>4, <2>6, <2>7, <2>8 DEF O, W, m
<1> QED
  BY <1>5, <1>7, <1>8

\* What a tenant asked about finds is within its burst.
LEMMA TenantFoundType ==
  ASSUME RegistryInv, NEW t \in Tenants
  PROVE  tenantFound(t) \in Nat /\ tenantFound(t) <= TenantBurst(rpm[t])
<1>1. rpm[t] \in Rates
  BY DEF RegistryInv
<1>2. TenantBurst(rpm[t]) \in Nat
  BY <1>1, BurstType
<1>3. CASE Current(t) = {}
  BY <1>2, <1>3 DEF tenantFound
<1>4. CASE Current(t) # {}
  <2> DEFINE i == CHOOSE i \in Current(t) : TRUE
             e == registry[i]
  <2>1. i \in Entries(t) /\ e.rate = rpm[t]
    BY <1>4 DEF Current
  <2>2. i \in 1 .. Len(registry)
    BY <2>1, OneEntry
  <2>3. EntryOK(e)
    BY <2>2 DEF RegistryInv
  <2>4. tenantFound(t) = Refilled(e, rpm[t], TenantBurst(rpm[t]))
    BY <1>4 DEF tenantFound
  <2> HIDE DEF i, e
  <2>5. LET n == Refilled(e, e.rate, TenantBurst(e.rate))
        IN  n \in Nat /\ n <= TenantBurst(e.rate)
    BY <2>3, RefilledType
  <2> QED
    BY <2>1, <2>4, <2>5
<1> QED
  BY <1>3, <1>4

\* The new entry of a tenant holds no more than what was found.
LEMMA EntryIsOK ==
  ASSUME RegistryInv, NEW t \in Tenants
  PROVE  EntryOK(Entry(t)) /\ Entry(t).tokens <= tenantFound(t)
<1> DEFINE f == tenantFound(t)
           most == TenantBurst(rpm[t])
<1>1. f \in Nat /\ f <= most
  BY TenantFoundType
<1>2. rpm[t] \in Rates /\ now \in Nat /\ One \in Nat
  BY LimitsAssumption DEF RegistryInv
<1>3. most \in Nat
  BY <1>2, BurstType
<1>4. Entry(t) = [tenant |-> t, rate |-> rpm[t], at |-> now,
                  tokens |-> IF f >= One THEN f - One ELSE f]
  BY DEF Entry, TenantAllows
<1>5. /\ Entry(t) \in TenantEntries /\ Entry(t).rate = rpm[t] /\ Entry(t).at = now
      /\ Entry(t).tokens <= f
  <2> HIDE DEF f
  <2> QED
    BY <1>1, <1>2, <1>4 DEF TenantEntries
<1>6. Entry(t).tokens \in Nat
  BY <1>5 DEF TenantEntries
<1>7. Entry(t).tokens <= most
  <2> HIDE DEF f, most
  <2> QED
    BY <1>1, <1>3, <1>5, <1>6
<1> QED
  BY <1>2, <1>5, <1>7 DEF EntryOK

\* What is kept when the tenant t is asked about, before its entry is put last.
LEMMA BeforeEntry ==
  ASSUME RegistryInv, NEW t \in Tenants
  PROVE  \E K \in Seq(TenantEntries) :
           /\ consumeTenant(t) = Append(K, Entry(t))
           /\ \A j \in 1 .. Len(K) : K[j].tenant # t /\ \E i \in 1 .. Len(registry) : K[j] = registry[i]
           /\ LET W == Without(seen, Asked(t))
              IN  /\ Len(K) = Lesser(Len(W), MaxTenants - 1)
                  /\ \A j \in 1 .. Len(K) : K[j].tenant = W[j + (Len(W) - Len(K))]
<1> DEFINE O == Others(t)
           W == Without(seen, Asked(t))
           K == IF Current(t) # {} THEN O ELSE Trimmed(O)
<1>1. /\ O \in Seq(TenantEntries) /\ W \in Seq(Tenants)
      /\ Len(O) \in Nat /\ Len(W) \in Nat /\ Len(O) <= Len(W) /\ Len(O) <= MaxTenants
      /\ Lesser(Len(O), MaxTenants - 1) = Lesser(Len(W), MaxTenants - 1)
      /\ Entries(t) # {} => Len(O) <= MaxTenants - 1
      /\ \A j \in 1 .. Len(O) : /\ O[j].tenant = W[j + (Len(W) - Len(O))]
                                /\ O[j].tenant # t
                                /\ \E i \in 1 .. Len(registry) : O[j] = registry[i]
  BY OthersFollow
<1>2. consumeTenant(t) = Append(K, Entry(t))
  BY DEF consumeTenant
<1>3. MaxTenants \in Nat \ {0}
  BY LimitsAssumption
<1> HIDE DEF O, W
<1>4. /\ K \in Seq(TenantEntries) /\ Len(K) = Lesser(Len(O), MaxTenants - 1)
      /\ \A j \in 1 .. Len(K) : K[j] = O[j + (Len(O) - Len(K))]
  <2>1. CASE Current(t) # {}
    <3>1. K = O /\ Entries(t) # {}
      BY <2>1 DEF Current
    <3>2. Len(O) = Lesser(Len(O), MaxTenants - 1)
      BY <1>1, <1>3, <3>1 DEF Lesser
    <3>3. \A j \in 1 .. Len(O) : j + (Len(O) - Len(O)) = j
      BY <1>1
    <3> HIDE DEF K
    <3> QED
      BY <1>1, <3>1, <3>2, <3>3
  <2>2. CASE Current(t) = {}
    <3>1. K = Trimmed(O)
      BY <2>2
    <3> HIDE DEF K
    <3>2. LET s == Trimmed(O)
          IN  /\ s \in Seq(TenantEntries) /\ Len(s) = Lesser(Len(O), MaxTenants - 1)
              /\ \A j \in 1 .. Len(s) : s[j] = O[j + (Len(O) - Len(s))]
      BY <1>1, TrimmedIs
    <3> QED
      BY <3>1, <3>2
  <2> QED
    BY <2>1, <2>2
<1> HIDE DEF K
<1>5. Len(K) \in Nat /\ Len(K) <= Len(O)
  BY <1>1, <1>3, <1>4 DEF Lesser
<1>6. ASSUME NEW j \in 1 .. Len(K)
      PROVE  /\ K[j].tenant # t /\ \E i \in 1 .. Len(registry) : K[j] = registry[i]
             /\ K[j].tenant = W[j + (Len(W) - Len(K))]
  <2>1. /\ j + (Len(O) - Len(K)) \in 1 .. Len(O)
        /\ (j + (Len(O) - Len(K))) + (Len(W) - Len(O)) = j + (Len(W) - Len(K))
    BY <1>1, <1>5
  <2> QED
    BY <1>1, <1>4, <2>1
<1> QED
  BY <1>1, <1>2, <1>4, <1>6 DEF W

\* Asking about a tenant puts it last in both.
LEMMA AskingKeeps ==
  ASSUME RegistryInv, NEW t \in Tenants, registry' = consumeTenant(t),
         seen' = Append(Without(seen, Asked(t)), t), UNCHANGED <<rpm, now>>
  PROVE  RegistryInv'
<1> DEFINE W == Without(seen, Asked(t))
           e == Entry(t)
<1>1. PICK K \in Seq(TenantEntries) :
           /\ consumeTenant(t) = Append(K, e)
           /\ \A j \in 1 .. Len(K) : K[j].tenant # t /\ \E i \in 1 .. Len(registry) : K[j] = registry[i]
           /\ Len(K) = Lesser(Len(W), MaxTenants - 1)
           /\ \A j \in 1 .. Len(K) : K[j].tenant = W[j + (Len(W) - Len(K))]
  BY BeforeEntry
<1>2. /\ W \in Seq(Tenants) /\ Len(W) \in Nat /\ Distinct(W) /\ \A j \in 1 .. Len(W) : W[j] # t
  BY OthersFollow
<1>3. EntryOK(e) /\ e \in TenantEntries /\ e.tenant = t
  BY EntryIsOK DEF EntryOK, Entry
<1> HIDE DEF W, e
<1>4. Len(K) \in Nat /\ MaxTenants \in Nat \ {0} /\ Len(K) <= Len(W) /\ Len(K) <= MaxTenants - 1
  BY <1>1, <1>2, LimitsAssumption DEF Lesser
<1>5. /\ registry' \in Seq(TenantEntries) /\ Len(registry') = Len(K) + 1
      /\ \A j \in 1 .. Len(K) : registry'[j] = K[j]
      /\ registry'[Len(K) + 1] = e
  <2>1. registry' = Append(K, e)
    BY <1>1
  <2> QED
    BY <1>3, <2>1, AppendProperties
<1>6. /\ seen' \in Seq(Tenants) /\ Len(seen') = Len(W) + 1
      /\ \A j \in 1 .. Len(W) : seen'[j] = W[j]
      /\ seen'[Len(W) + 1] = t
  <2>1. seen' = Append(W, t)
    BY DEF W
  <2> QED
    BY <1>2, <2>1, AppendProperties
<1>7. Distinct(seen')
  <2> SUFFICES ASSUME NEW i \in 1 .. Len(W) + 1, NEW j \in 1 .. Len(W) + 1, seen'[i] = seen'[j]
               PROVE  i = j
    BY <1>6 DEF Distinct
  <2>1. CASE i \in 1 .. Len(W) /\ j \in 1 .. Len(W)
    BY <1>2, <1>6, <2>1 DEF Distinct
  <2>2. CASE i = Len(W) + 1 \/ j = Len(W) + 1
    BY <1>2, <1>6, <2>2
  <2> QED
    BY <1>2, <2>1, <2>2
<1>8. Follows(registry', seen')
  <2>1. Len(K) + 1 = Lesser(Len(W) + 1, MaxTenants)
    BY <1>1, <1>2, <1>4 DEF Lesser
  <2>2. ASSUME NEW i \in 1 .. Len(K) + 1
        PROVE  registry'[i].tenant = seen'[i + ((Len(W) + 1) - (Len(K) + 1))]
    <3>1. CASE i \in 1 .. Len(K)
      <4>1. i + ((Len(W) + 1) - (Len(K) + 1)) = i + (Len(W) - Len(K))
            /\ i + (Len(W) - Len(K)) \in 1 .. Len(W)
        BY <1>2, <1>4, <3>1
      <4> QED
        BY <1>1, <1>5, <1>6, <3>1, <4>1
    <3>2. CASE i = Len(K) + 1
      <4>1. i + ((Len(W) + 1) - (Len(K) + 1)) = Len(W) + 1
        BY <1>2, <1>4, <3>2
      <4> QED
        BY <1>3, <1>5, <1>6, <3>2, <4>1
    <3>3. i \in 1 .. Len(K) \/ i = Len(K) + 1
      BY <1>4
    <3> QED
      BY <3>1, <3>2, <3>3
  <2>3. /\ Len(registry') = Len(K) + 1 /\ Len(seen') = Len(W) + 1
    BY <1>5, <1>6
  <2> QED
    BY <2>1, <2>2, <2>3 DEF Follows
<1>9. ASSUME NEW i \in 1 .. Len(registry') PROVE EntryOK(registry'[i])
  <2>1. CASE i \in 1 .. Len(K)
    BY <1>1, <1>5, <2>1 DEF RegistryInv
  <2>2. CASE i = Len(K) + 1
    BY <1>3, <1>5, <2>2
  <2> QED
    BY <1>4, <1>5, <2>1, <2>2
<1> QED
  BY <1>5, <1>6, <1>7, <1>8, <1>9 DEF RegistryInv, EntryOK, TenantEntries

\* The registry stays the last asked, in their order, in every step.
LEMMA RegistryStep ==
  ASSUME RegistryInv, [Next]_limitVars
  PROVE  RegistryInv'
<1>1. ASSUME UNCHANGED <<registry, seen, now>>, rpm' \in [Tenants -> Rates] PROVE RegistryInv'
  BY <1>1 DEF RegistryInv, EntryOK
<1>2. ASSUME NEW s \in Sources, Arrive(s) PROVE RegistryInv'
  BY <1>1, <1>2 DEF Arrive, RegistryInv
<1>3. ASSUME NEW c \in Credentials, Authenticate(c) PROVE RegistryInv'
  <2>1. CASE Allows("credential", c)
    <3>1. /\ registry' = consumeTenant(Owner[c])
          /\ seen' = Append(Without(seen, Asked(Owner[c])), Owner[c])
          /\ UNCHANGED <<rpm, now>>
      BY <1>3, <2>1 DEF Authenticate, Asked
    <3>2. Owner[c] \in Tenants
      BY LimitsAssumption
    <3> QED
      BY <3>1, <3>2, AskingKeeps
  <2>2. CASE ~Allows("credential", c)
    BY <1>1, <1>3, <2>2 DEF Authenticate, RegistryInv
  <2> QED
    BY <2>1, <2>2
<1>4. ASSUME NEW t \in Tenants, NEW rate \in Rates, SetLimits(t, rate) PROVE RegistryInv'
  <2>1. rpm' \in [Tenants -> Rates]
    BY <1>4 DEF SetLimits, RegistryInv
  <2> QED
    BY <1>1, <1>4, <2>1 DEF SetLimits
<1>5. ASSUME Tick PROVE RegistryInv'
  <2>1. now' = now + 1 /\ UNCHANGED <<registry, rpm, seen>>
    BY <1>5 DEF Tick
  <2>2. ASSUME NEW i \in 1 .. Len(registry) PROVE EntryOK(registry[i])'
    <3>1. EntryOK(registry[i]) /\ now \in Nat
      BY DEF RegistryInv
    <3>2. registry[i].at \in Nat
      BY <3>1 DEF EntryOK, TenantEntries
    <3> QED
      BY <2>1, <3>1, <3>2 DEF EntryOK
  <2> QED
    BY <2>1, <2>2 DEF RegistryInv
<1>6. CASE UNCHANGED limitVars
  BY <1>1, <1>6 DEF limitVars, RegistryInv
<1> QED
  BY <1>2, <1>3, <1>4, <1>5, <1>6 DEF Next

\* The registry is always the tenants last asked about, at most MaxTenants of
\* them, each once and in that order.
THEOREM RegistryInvariant == Spec => []RegistryInv
<1>1. Init => RegistryInv
  <2> SUFFICES ASSUME Init PROVE RegistryInv
    OBVIOUS
  <2>1. registry = <<>> /\ seen = <<>> /\ now = 0 /\ rpm = [t \in Tenants |-> Rate]
    BY DEF Init
  <2>2. Follows(<<>>, <<>>)
    <3>1. 0 = Lesser(0, MaxTenants)
      BY LimitsAssumption DEF Lesser
    <3> QED
      BY <3>1 DEF Follows
  <2> QED
    BY <2>1, <2>2, LimitsAssumption DEF RegistryInv, Distinct
<1> QED
  BY <1>1, RegistryStep, PTL DEF Spec

\* What the two invariants say of the types.
LEMMA Typed ==
  ASSUME LimitersInv, RegistryInv
  PROVE  LimitsTypeOK
<1>1. /\ MaxTenants \in Nat /\ Len(registry) \in Nat /\ Len(seen) \in Nat
      /\ DOMAIN registry = 1 .. Len(registry)
  BY LimitsAssumption DEF RegistryInv
<1>2. Len(registry) <= MaxTenants
  BY <1>1 DEF RegistryInv, Follows, Lesser
<1>3. ASSUME NEW t \in Tenants PROVE Cardinality(Entries(t)) <= 1
  <2>1. \A i, j \in Entries(t) : i = j
    BY OneEntry
  <2>2. CASE Entries(t) = {}
    BY <2>2, FS_EmptySet
  <2>3. CASE Entries(t) # {}
    <3>1. PICK i \in Entries(t) : TRUE
      BY <2>3
    <3>2. Entries(t) = {i}
      BY <2>1, <3>1
    <3> QED
      BY <3>2, FS_Singleton
  <2> QED
    BY <2>2, <2>3
<1>4. ASSUME NEW i \in DOMAIN registry
      PROVE  registry[i].tokens \in 0 .. TenantBurst(registry[i].rate) /\ registry[i].at \in 0 .. now
  <2>1. EntryOK(registry[i]) /\ now \in Nat
    BY <1>1 DEF RegistryInv
  <2> DEFINE e == registry[i]
  <2> HIDE DEF e
  <2>2. EntryOK(e)
    BY <2>1 DEF e
  <2>3. e.rate \in Rates /\ e.tokens \in Nat /\ e.at \in Nat /\ e.at <= now
        /\ e.tokens <= TenantBurst(e.rate)
    BY <2>2 DEF EntryOK, TenantEntries
  <2>4. TenantBurst(e.rate) \in Nat
    BY <2>3, BurstType
  <2>5. e.tokens \in 0 .. TenantBurst(e.rate) /\ e.at \in 0 .. now
    BY <2>1, <2>3, <2>4
  <2> QED
    BY <2>5 DEF e
<1>5. ASSUME NEW l \in Limiters
      PROVE  /\ DOMAIN bucket[l] \subseteq CallersOf(l) /\ Cardinality(DOMAIN bucket[l]) <= MaxEntries
             /\ \A c \in DOMAIN bucket[l] :
                  bucket[l][c].tokens \in 0 .. Burst * Factor(l) /\ bucket[l][c].at \in 0 .. now
  BY DEF LimitersInv, BucketOf, MostOf
<1> QED
  BY <1>2, <1>3, <1>4, <1>5 DEF LimitsTypeOK, RegistryInv

\* No bucket is ever in debt or above its burst, no limiter ever knows more
\* callers than its entries, and no tenant ever has two buckets.
THEOREM LimitsTyped == Spec => []LimitsTypeOK
BY LimitersInvariant, RegistryInvariant, Typed, PTL

(***************************************************************************)
(* A bucket in use is never forgotten.                                     *)
(***************************************************************************)
\* A tenant among the last asked about stands in the registry, and once.
LEMMA LastAskedStand ==
  ASSUME NEW entries \in Seq(TenantEntries), NEW asked \in Seq(Tenants), NEW t,
         Follows(entries, asked), Distinct(asked)
  PROVE  /\ t \in {asked[i] : i \in {j \in DOMAIN asked : j > Len(asked) - MaxTenants}}
              => \E i \in 1 .. Len(entries) : entries[i].tenant = t
         /\ \A i, j \in 1 .. Len(entries) : entries[i].tenant = t /\ entries[j].tenant = t => i = j
<1> DEFINE m == Len(entries)
           n == Len(asked)
<1>1. /\ m \in Nat /\ n \in Nat /\ MaxTenants \in Nat /\ DOMAIN asked = 1 .. n
      /\ m = Lesser(n, MaxTenants)
      /\ \A i \in 1 .. m : entries[i].tenant = asked[i + (n - m)]
      /\ \A i, j \in 1 .. n : asked[i] = asked[j] => i = j
  BY LimitsAssumption DEF Follows, Distinct
<1> HIDE DEF m, n
<1>2. m <= n /\ n - m <= Greater(0, n - MaxTenants) /\ Greater(0, n - MaxTenants) <= n - m
  BY <1>1 DEF Lesser, Greater
<1>3. ASSUME NEW i \in 1 .. m, NEW j \in 1 .. m, entries[i].tenant = t, entries[j].tenant = t
      PROVE  i = j
  <2>1. i + (n - m) \in 1 .. n /\ j + (n - m) \in 1 .. n
    BY <1>1, <1>2
  <2>2. asked[i + (n - m)] = asked[j + (n - m)]
    BY <1>1, <1>3
  <2>3. i + (n - m) = j + (n - m)
    BY <1>1, <2>1, <2>2
  <2> QED
    BY <1>1, <2>3
<1>4. ASSUME NEW k \in 1 .. n, k > n - MaxTenants, asked[k] = t
      PROVE  \E i \in 1 .. m : entries[i].tenant = t
  <2> DEFINE i == k - (n - m)
  <2>1. i \in 1 .. m /\ i + (n - m) = k
    <3>1. m \in Nat /\ n \in Nat /\ MaxTenants \in Nat
      BY <1>1
    <3>2. Greater(0, n - MaxTenants) < k
      BY <1>4, <3>1 DEF Greater
    <3>3. Greater(0, n - MaxTenants) \in Nat
      BY <3>1 DEF Greater
    <3> QED
      BY <1>2, <3>1, <3>2, <3>3
  <2> HIDE DEF i
  <2>2. entries[i].tenant = asked[k]
    BY <1>1, <2>1
  <2> QED
    BY <1>4, <2>1, <2>2
<1> QED
  BY <1>1, <1>3, <1>4 DEF m, n

\* What a tenant finds is what its one entry holds.
LEMMA FoundInEntry ==
  ASSUME RegistryInv, NEW t, Current(t) # {}, NEW i \in 1 .. Len(registry), registry[i].tenant = t
  PROVE  /\ registry[i].rate = rpm[t]
         /\ tenantFound(t) = Refilled(registry[i], rpm[t], TenantBurst(rpm[t]))
<1> DEFINE p == CHOOSE p \in Current(t) : TRUE
<1>1. p \in Entries(t) /\ registry[p].rate = rpm[t]
  BY DEF Current
<1>2. tenantFound(t) = Refilled(registry[p], rpm[t], TenantBurst(rpm[t]))
  BY DEF tenantFound
<1>3. i \in Entries(t)
  BY DEF RegistryInv, Entries
<1> HIDE DEF p
<1>4. p = i
  BY <1>1, <1>3, OneEntry
<1> QED
  BY <1>1, <1>2, <1>4

\* After a step, the tenant of an entry made for its limit finds what that
\* entry holds.
LEMMA FoundAfter ==
  ASSUME RegistryInv', NEW i \in 1 .. Len(registry'), NEW t,
         registry'[i].tenant = t, registry'[i].rate = rpm'[t]
  PROVE  /\ Current(t)' # {}
         /\ tenantFound(t)' =
              Lesser(TenantBurst(rpm'[t]), registry'[i].tokens + (now' - registry'[i].at) * rpm'[t])
<1>1. /\ registry' \in Seq(TenantEntries) /\ seen' \in Seq(Tenants)
      /\ Follows(registry', seen') /\ Distinct(seen')
  BY DEF RegistryInv
<1>2. \A a, b \in 1 .. Len(registry') :
        registry'[a].tenant = t /\ registry'[b].tenant = t => a = b
  BY <1>1, LastAskedStand
<1>3. DOMAIN registry' = 1 .. Len(registry')
  BY <1>1
<1>4. Current(t)' = {j \in 1 .. Len(registry') : registry'[j].tenant = t /\ registry'[j].rate = rpm'[t]}
  BY <1>3 DEF Current, Entries
<1>5. Current(t)' = {i}
  BY <1>2, <1>4
<1> DEFINE j == CHOOSE j \in Current(t)' : TRUE
<1>6. j = i
  BY <1>5
<1>7. tenantFound(t)' =
        Lesser(TenantBurst(rpm'[t]), registry'[j].tokens + (now' - registry'[j].at) * rpm'[t])
  BY <1>5 DEF tenantFound, Refilled
<1> HIDE DEF j
<1> QED
  BY <1>5, <1>6, <1>7

\* Time that passes in two parts refills by both, up to the burst.
LEMMA RefillOverTime ==
  ASSUME NEW u \in Nat, NEW tokens \in Nat, NEW at \in Nat, NEW n \in Nat, NEW later \in Nat,
         NEW r \in Nat, at <= n, n <= later
  PROVE  Lesser(u, tokens + (later - at) * r) <= Lesser(u, tokens + (n - at) * r) + (later - n) * r
<1> DEFINE x == n - at
           y == later - n
<1>1. x \in Nat /\ y \in Nat /\ later - at = x + y
  OBVIOUS
<1> HIDE DEF x, y
<1>2. (x + y) * r = x * r + y * r /\ x * r \in Nat /\ y * r \in Nat
  BY <1>1
<1> DEFINE p == x * r
           q == y * r
<1>3. (x + y) * r = p + q /\ p \in Nat /\ q \in Nat
  BY <1>2
<1> HIDE DEF p, q
<1>4. Lesser(u, tokens + (p + q)) <= Lesser(u, tokens + p) + q
  BY <1>3 DEF Lesser
<1>5. Lesser(u, tokens + (x + y) * r) <= Lesser(u, tokens + x * r) + y * r
  BY <1>3, <1>4 DEF p, q
<1> QED
  BY <1>1, <1>5 DEF x, y

\* An entry that is left alone holds what it held, refilled.
LEMMA LeftAlone ==
  ASSUME RegistryInv, RegistryInv', NEW t \in Tenants, Current(t) # {}, rpm'[t] = rpm[t],
         now <= now',
         NEW k \in 1 .. Len(registry'), registry'[k].tenant = t,
         NEW i \in 1 .. Len(registry), registry'[k] = registry[i]
  PROVE  /\ Current(t)' # {}
         /\ tenantFound(t)' <= tenantFound(t) + (now' - now) * rpm[t]
<1> DEFINE e == registry[i]
           r == rpm[t]
           u == TenantBurst(r)
<1>1. e.tenant = t
  OBVIOUS
<1>2. e.rate = r /\ tenantFound(t) = Lesser(u, e.tokens + (now - e.at) * r)
  BY <1>1, FoundInEntry DEF Refilled
<1>3. registry'[k].rate = rpm'[t]
  BY <1>2
<1>4. /\ Current(t)' # {}
      /\ tenantFound(t)' =
           Lesser(TenantBurst(rpm'[t]), registry'[k].tokens + (now' - registry'[k].at) * rpm'[t])
  BY <1>3, FoundAfter
<1>5. rpm'[t] = r /\ registry'[k] = e
  OBVIOUS
<1>6. EntryOK(e) /\ now \in Nat /\ now' \in Nat /\ r \in Rates
  BY DEF RegistryInv
<1> HIDE DEF e, r
<1>7. tenantFound(t)' = Lesser(u, e.tokens + (now' - e.at) * r)
  BY <1>4, <1>5
<1>8. e.tokens \in Nat /\ e.at \in Nat /\ e.at <= now /\ r \in Nat
  BY <1>6, LimitsAssumption DEF EntryOK, TenantEntries
<1>9. u \in Nat
  BY <1>6, BurstType
<1> HIDE DEF u
<1>10. Lesser(u, e.tokens + (now' - e.at) * r) <= Lesser(u, e.tokens + (now - e.at) * r) + (now' - now) * r
  BY <1>6, <1>8, <1>9, RefillOverTime
<1> QED
  BY <1>2, <1>4, <1>7, <1>10 DEF r

\* A tenant that is asked about pays from its own bucket.
LEMMA AskedPays ==
  ASSUME RegistryInv, RegistryInv', NEW t \in Tenants, Current(t) # {},
         registry' = consumeTenant(t), UNCHANGED <<rpm, now>>
  PROVE  Current(t)' # {} /\ tenantFound(t)' <= tenantFound(t)
<1>1. PICK K \in Seq(TenantEntries) : consumeTenant(t) = Append(K, Entry(t))
  BY BeforeEntry
<1> DEFINE e == Entry(t)
           k == Len(K) + 1
           r == rpm[t]
<1>2. EntryOK(e) /\ e.tokens <= tenantFound(t)
  BY EntryIsOK
<1>3. e.tenant = t /\ e.rate = r /\ e.at = now
  BY DEF Entry
<1>4. e \in TenantEntries
  BY <1>2 DEF EntryOK
<1> HIDE DEF e
<1>5. registry' = Append(K, e)
  BY <1>1 DEF e
<1>6. Len(registry') = k /\ registry'[k] = e /\ k \in 1 .. k
  BY <1>1, <1>4, <1>5, AppendProperties
<1>7. k \in 1 .. Len(registry')
  BY <1>6
<1> HIDE DEF k
<1>8. registry'[k].tenant = t /\ registry'[k].rate = rpm'[t]
  BY <1>3, <1>6
<1>9. /\ Current(t)' # {}
      /\ tenantFound(t)' =
           Lesser(TenantBurst(rpm'[t]), registry'[k].tokens + (now' - registry'[k].at) * rpm'[t])
  BY <1>7, <1>8, FoundAfter
<1>10. tenantFound(t)' = Lesser(TenantBurst(r), e.tokens + (now - now) * r)
  BY <1>3, <1>6, <1>9
<1>11. r \in Nat /\ now \in Nat /\ TenantBurst(r) \in Nat /\ tenantFound(t) \in Nat
  BY LimitsAssumption, BurstType, TenantFoundType DEF RegistryInv
<1>12. e.tokens \in Nat
  BY <1>4 DEF TenantEntries
<1> HIDE DEF r
<1>13. (now - now) * r = 0
  BY <1>11
<1> DEFINE n == tenantFound(t)
           w == e.tokens
<1> HIDE DEF n, w
<1>14. n \in Nat /\ w \in Nat /\ w <= n
  BY <1>2, <1>11, <1>12 DEF n, w
<1>15. tenantFound(t)' = Lesser(TenantBurst(r), w + 0)
  BY <1>10, <1>13 DEF w
<1>16. Lesser(TenantBurst(r), w + 0) <= n
  BY <1>11, <1>14 DEF Lesser
<1> QED
  BY <1>9, <1>15, <1>16 DEF n

\* The step of TenantBucketStays: a tenant in the registry is asked about, or its
\* entry is left alone.
LEMMA BucketStays ==
  ASSUME RegistryInv, RegistryInv', [Next]_limitVars, NEW t \in Tenants,
         t \in Recent', Current(t) # {}, rpm'[t] = rpm[t]
  PROVE  /\ Current(t)' # {}
         /\ tenantFound(t)' <= tenantFound(t) + (now' - now) * rpm[t]
<1> DEFINE Goal == /\ Current(t)' # {}
                   /\ tenantFound(t)' <= tenantFound(t) + (now' - now) * rpm[t]
<1>1. PICK k \in 1 .. Len(registry') : registry'[k].tenant = t
  <2>1. /\ registry' \in Seq(TenantEntries) /\ seen' \in Seq(Tenants)
        /\ Follows(registry', seen') /\ Distinct(seen')
    BY DEF RegistryInv
  <2>2. t \in {seen'[i] : i \in {j \in DOMAIN seen' : j > Len(seen') - MaxTenants}}
    BY DEF Recent
  <2> QED
    BY <2>1, <2>2, LastAskedStand
<1>2. ASSUME registry' = registry, now <= now' PROVE Goal
  <2>1. k \in 1 .. Len(registry) /\ registry'[k] = registry[k]
    BY <1>2
  <2> QED
    BY <1>1, <1>2, <2>1, LeftAlone
<1>3. now \in Nat /\ (now' = now => now <= now')
  BY DEF RegistryInv
<1>4. ASSUME NEW c \in Credentials, Authenticate(c) PROVE Goal
  <2>1. now' = now /\ UNCHANGED <<rpm, now>> /\ Owner[c] \in Tenants
    BY <1>4, LimitsAssumption DEF Authenticate
  <2>2. CASE ~Allows("credential", c)
    BY <1>2, <1>3, <1>4, <2>1, <2>2 DEF Authenticate
  <2>3. CASE Allows("credential", c) /\ Owner[c] = t
    <3>1. registry' = consumeTenant(t)
      BY <1>4, <2>3 DEF Authenticate
    <3>2. Current(t)' # {} /\ tenantFound(t)' <= tenantFound(t)
      BY <2>1, <3>1, AskedPays
    <3>3. (now' - now) * rpm[t] = 0 /\ tenantFound(t) \in Nat
      <4>1. rpm[t] \in Nat
        BY LimitsAssumption DEF RegistryInv
      <4>2. (now' - now) * rpm[t] = 0
        BY <1>3, <2>1, <4>1
      <4> QED
        BY <4>2, TenantFoundType
    <3>4. tenantFound(t) + (now' - now) * rpm[t] = tenantFound(t)
      BY <3>3
    <3> QED
      BY <3>2, <3>4
  <2>4. CASE Allows("credential", c) /\ Owner[c] # t
    <3> DEFINE o == Owner[c]
    <3>1. registry' = consumeTenant(o)
      BY <1>4, <2>4 DEF Authenticate
    <3> o \in Tenants
      BY <2>1
    <3> HIDE DEF o
    <3>2. PICK K \in Seq(TenantEntries) :
              /\ consumeTenant(o) = Append(K, Entry(o))
              /\ \A j \in 1 .. Len(K) : K[j].tenant # o /\ \E i \in 1 .. Len(registry) : K[j] = registry[i]
      BY BeforeEntry
    <3>3. Entry(o) \in TenantEntries /\ Entry(o).tenant = o
      BY EntryIsOK DEF EntryOK, Entry
    <3>4. /\ Len(registry') = Len(K) + 1
          /\ \A j \in 1 .. Len(K) : registry'[j] = K[j]
          /\ registry'[Len(K) + 1] = Entry(o)
      BY <3>1, <3>2, <3>3, AppendProperties
    <3>5. k \in 1 .. Len(K)
      <4>1. k # Len(K) + 1
        BY <1>1, <2>4, <3>3, <3>4 DEF o
      <4>2. Len(K) \in Nat /\ k \in 1 .. Len(K) + 1
        BY <3>2, <3>4
      <4> QED
        BY <4>1, <4>2
    <3>6. PICK i \in 1 .. Len(registry) : registry'[k] = registry[i]
      BY <3>2, <3>4, <3>5
    <3> QED
      BY <1>1, <1>3, <2>1, <3>6, LeftAlone
  <2> QED
    BY <2>2, <2>3, <2>4
<1>5. ASSUME Tick PROVE Goal
  <2>1. registry' = registry /\ now <= now'
    BY <1>3, <1>5 DEF Tick
  <2> QED
    BY <1>2, <2>1
<1>6. ASSUME registry' = registry, now' = now PROVE Goal
  BY <1>2, <1>3, <1>6
<1> HIDE DEF Goal
<1>7. Goal
  BY <1>4, <1>5, <1>6 DEF Next, Arrive, SetLimits, limitVars
<1> QED
  BY <1>7 DEF Goal

\* Whoever else comes, no step gives a tenant among the last MaxTenants asked
\* about more than its own bucket, refilled: an eviction never fills a bucket
\* that is in use.
THEOREM TenantBucketStays == Spec => TenantBucketKept
<1>1. RegistryInv /\ RegistryInv' /\ [Next]_limitVars =>
        [\A t \in Tenants :
           t \in Recent /\ t \in Recent' /\ Current(t) # {} /\ rpm'[t] = rpm[t] =>
             /\ Current(t)' # {}
             /\ tenantFound(t)' <= tenantFound(t) + (now' - now) * rpm[t]]_limitVars
  BY BucketStays
<1> QED
  BY <1>1, RegistryInvariant, PTL DEF Spec, TenantBucketKept
=============================================================================
