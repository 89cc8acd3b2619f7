--------------------------- MODULE Gateway_proofs ---------------------------
(***************************************************************************)
(* Machine-checked proofs about Gateway, for any number of requests,       *)
(* tenants, keys and probes and any limits: types, the balances of slots,  *)
(* permits and the budget, and, in the second part, the idempotency keys:  *)
(* who owns a key, who is turned away, and what is replayed.  The third    *)
(* part is about the usage meter, whose reading is what a request settles: *)
(* for every stream, however it is cut, and every sequence of payloads.    *)
(***************************************************************************)
EXTENDS Gateway, UsageMeter, FiniteSetTheorems, TLAPS

-----------------------------------------------------------------------------
(***************************************************************************)
(* Types.                                                                  *)
(***************************************************************************)
LEMMA CallType ==
  ASSUME TypeOK, NEW r \in Requests
  PROVE  /\ Tenant(r) \in Tenants
         /\ call[r].key \in Keys \cup {NoKey}
         /\ call[r].body \in Bodies
         /\ call[r].stream \in BOOLEAN
         /\ Estimate[call[r].body] \in Nat
BY SetsAssumption, UnitsAssumption DEF TypeOK, Tenant

LEMMA UsageType ==
  ASSUME TypeOK, NEW r \in Requests
  PROVE  /\ reserveBudget(r) \in [Requests -> Row]
         /\ \A actual \in Actuals : settleBudget(r, actual) \in [Requests -> Row]
         /\ [usage EXCEPT ![r] = [state |-> "released", units |-> 0, at |-> now]]
              \in [Requests -> Row]
BY CallType, UnitsAssumption
   DEF TypeOK, Row, RowStates, reserveBudget, settleBudget

LEMMA ReleaseType ==
  ASSUME NEW rows \in [Requests -> Row], NEW S
  PROVE  releaseBudget(rows, S) \in [Requests -> Row]
BY DEF Row, RowStates, releaseBudget

LEMMA IdemType ==
  ASSUME TypeOK, NEW r \in Requests
  PROVE  /\ Claimed(r) \in [Tenants -> [Keys -> IdemRow]]
         /\ complete(r) \in [Tenants -> [Keys -> IdemRow]]
         /\ abandon(r) \in [Tenants -> [Keys -> IdemRow]]
         /\ ClaimedAndAbandoned(r) \in [Tenants -> [Keys -> IdemRow]]
<1>1. NoClaim \in IdemRow
  BY DEF NoClaim, IdemRow
<1>2. ASSUME NEW x \in IdemRow PROVE WithClaim(r, x) \in [Tenants -> [Keys -> IdemRow]]
  BY CallType, <1>2 DEF TypeOK, WithClaim, HasKey
<1>3. [state |-> "pending", body |-> call[r].body, by |-> NoKey,
       expires |-> now + DayLength] \in IdemRow
  BY CallType, TimeAssumption DEF TypeOK, IdemRow
<1>4. HasKey(r) => Claim(r) \in IdemRow
  BY CallType DEF TypeOK, Claim, HasKey
<1>5. HasKey(r) => [Claim(r) EXCEPT !.state = "stored", !.by = r] \in IdemRow
  BY <1>4 DEF IdemRow
<1> QED
  BY <1>1, <1>2, <1>3, <1>5
     DEF TypeOK, Claimed, complete, abandon, ClaimedAndAbandoned, Matching

LEMMA SlotType ==
  ASSUME TypeOK, NEW S, releaseTenantSlot(S)
  PROVE  slots' \subseteq Requests /\ active' \in [Tenants -> Nat]
<1>1. ASSUME NEW t \in Tenants
      PROVE  Cardinality(HeldBy(S, t)) \in Nat
  <2>1. HeldBy(S, t) \in SUBSET Requests
    BY DEF TypeOK, HeldBy
  <2> QED
    BY <2>1, SetsAssumption, FS_Subset, FS_CardinalityType
<1> QED
  BY <1>1 DEF TypeOK, releaseTenantSlot

LEMMA PermitType ==
  ASSUME TypeOK, PermitsBalance, NEW x \in Requests \cup Probes
  PROVE  /\ release(x) => permits' \subseteq Requests \cup Probes /\ inUse' \in Nat
         /\ acquire(x) => permits' \subseteq Requests \cup Probes /\ inUse' \in Nat
<1>1. IsFiniteSet(permits)
  BY SetsAssumption, FS_Union, FS_Subset DEF TypeOK
<1>2. x \in permits => inUse > 0
  BY <1>1, FS_CardinalityType, FS_EmptySet DEF PermitsBalance
<1> QED
  BY <1>2 DEF TypeOK, release, acquire

LEMMA DeathType ==
  ASSUME TypeOK, ProcessDies
  PROVE  /\ slots' \subseteq Requests
         /\ active' \in [Tenants -> Nat]
         /\ permits' \subseteq Requests \cup Probes
         /\ inUse' \in Nat
         /\ registered' \subseteq Requests
         /\ phase' \in {"up", "closing", "down"}
         /\ crashes' \in Nat
         /\ \A r \in Requests : AfterDeath(r) \in Stages
BY DEF TypeOK, ProcessDies, AfterDeath, Stages

LEMMA CloseType ==
  ASSUME TypeOK, NEW S \in SUBSET Requests
  PROVE  /\ finalizeFailure(S) =>
              /\ usage' \in [Requests -> Row]
              /\ slots' \subseteq Requests /\ active' \in [Tenants -> Nat]
              /\ registered' \subseteq Requests
         /\ closeStreams(S) =>
              /\ usage' \in [Requests -> Row]
              /\ slots' \subseteq Requests /\ active' \in [Tenants -> Nat]
              /\ registered' \subseteq Requests
              /\ stage' \in [Requests -> Stages]
              /\ answer' \in [Requests -> Answers]
<1>1. finalizeFailure(S) =>
        /\ usage' \in [Requests -> Row]
        /\ slots' \subseteq Requests /\ active' \in [Tenants -> Nat]
        /\ registered' \subseteq Requests
  BY ReleaseType, SlotType DEF TypeOK, finalizeFailure
<1> QED
  BY <1>1 DEF TypeOK, closeStreams, Closed, Stages, Aborting, Answers

LEMMA AnsweredType ==
  ASSUME TypeOK, NEW r \in Requests, NEW what \in Answers, Answered(r, what)
  PROVE  stage' \in [Requests -> Stages] /\ answer' \in [Requests -> Answers]
BY DEF TypeOK, Answered, Stages

LEMMA MaintainType ==
  ASSUME TypeOK, maintain
  PROVE  usage' \in [Requests -> Row] /\ idem' \in [Tenants -> [Keys -> IdemRow]]
BY DEF TypeOK, maintain, NoRow, NoClaim, Row, RowStates, IdemRow

LEMMA GiveUpType ==
  ASSUME TypeOK, PermitsBalance, NEW r \in Requests, GiveUp(r)
  PROVE  TypeOK'
BY ReleaseType, IdemType, SlotType, PermitType, AnsweredType
   DEF TypeOK, GiveUp, Answers, bounds

\* Types are preserved by every step.
LEMMA TypeStep ==
  ASSUME TypeOK, PermitsBalance, [Next]_vars
  PROVE  TypeOK'
<1> USE DEF process, database, bounds
<1>1. ASSUME NEW r \in Requests, Execute(r) PROVE TypeOK'
  <2>1. CASE RefuseKeyedStream(r) \/ NotOwner(r)
    BY <2>1, AnsweredType DEF TypeOK, RefuseKeyedStream, NotOwner, Answers
  <2>2. CASE OverBudget(r)
    BY <2>2, AnsweredType, IdemType DEF TypeOK, OverBudget, Answers
  <2>3. CASE Overloaded(r)
    BY <2>3, AnsweredType, IdemType, UsageType DEF TypeOK, Overloaded, Answers
  <2>4. CASE Admit(r)
    <3>1. usage' \in [Requests -> Row] /\ idem' \in [Tenants -> [Keys -> IdemRow]]
      BY <2>4, UsageType, IdemType DEF Admit
    <3>2. slots' \subseteq Requests /\ active' \in [Tenants -> Nat]
      BY <2>4, CallType DEF TypeOK, Admit, tryAcquire
    <3>3. permits' \subseteq Requests \cup Probes /\ inUse' \in Nat
      BY <2>4, PermitType DEF Admit
    <3> QED
      BY <2>4, <3>1, <3>2, <3>3 DEF TypeOK, Admit, Stages, InFlight, Awaiting
  <2> QED
    BY <1>1, <2>1, <2>2, <2>3, <2>4 DEF Execute
<1>2. ASSUME NEW r \in Requests, Proceed(r) PROVE TypeOK'
  <2>1. CASE FetchRejects(r) \/ UpstreamRefusesStream(r) \/ BodyUnusable(r)
    BY <2>1, GiveUpType DEF FetchRejects, UpstreamRefusesStream, BodyUnusable
  <2>2. CASE HeadersArrive(r) \/ StreamOpens(r)
    BY <2>2 DEF TypeOK, HeadersArrive, StreamOpens, Stages, InFlight, Awaiting
  <2>3. CASE UpstreamDone(r) \/ PullRejects(r)
    BY <2>3, PermitType
       DEF TypeOK, UpstreamDone, PullRejects, Stages, InFlight, Awaiting, Aborting
  <2>4. CASE StreamErrors(r)
    BY <2>4, PermitType, CloseType, AnsweredType DEF TypeOK, StreamErrors, Answers
  <2>5. CASE CloseStream(r)
    BY <2>5, CloseType DEF TypeOK, CloseStream
  <2>6. CASE CancelSettles(r)
    BY <2>6, PermitType, CloseType DEF TypeOK, CancelSettles, Stages
  <2>7. ASSUME NEW actual \in Actuals, BodyArrives(r, actual) PROVE TypeOK'
    BY <2>7, UsageType, IdemType, SlotType, PermitType, AnsweredType
       DEF TypeOK, BodyArrives, Answers
  <2>8. ASSUME NEW actual \in Actuals, StreamEnds(r, actual) PROVE TypeOK'
    BY <2>8, UsageType, SlotType, AnsweredType DEF TypeOK, StreamEnds, Answers
  <2> QED
    BY <1>2, <2>1, <2>2, <2>3, <2>4, <2>5, <2>6, <2>7, <2>8 DEF Proceed
<1>3. ASSUME NEW r \in Requests, NEW actual \in Actuals, BodyArrivesWriteFails(r, actual)
      PROVE  TypeOK'
  <2>1. /\ usage \in [Requests -> Row] /\ settleBudget(r, actual) \in [Requests -> Row]
        /\ idem \in [Tenants -> [Keys -> IdemRow]]
        /\ abandon(r) \in [Tenants -> [Keys -> IdemRow]]
    BY UsageType, IdemType DEF TypeOK
  <2>3. usage' \in [Requests -> Row] /\ idem' \in [Tenants -> [Keys -> IdemRow]]
    BY <1>3, <2>1, ReleaseType DEF BodyArrivesWriteFails
  <2>2. overshot' \subseteq Requests
    BY <1>3 DEF TypeOK, BodyArrivesWriteFails
  <2> QED
    BY <1>3, <2>2, <2>3, SlotType, PermitType, AnsweredType
       DEF TypeOK, BodyArrivesWriteFails, Answers
<1>4. ASSUME NEW r \in Requests, NEW actual \in Actuals, StreamEndsWriteFails(r, actual)
      PROVE  TypeOK'
  <2>1. usage' \in [Requests -> Row]
    BY <1>4, UsageType, ReleaseType DEF TypeOK, StreamEndsWriteFails
  <2>2. slots' \subseteq Requests /\ active' \in [Tenants -> Nat]
    BY <1>4, SlotType DEF StreamEndsWriteFails
  <2> QED
    BY <1>4, <2>1, <2>2
       DEF TypeOK, StreamEndsWriteFails, Answers, Stages, Closed, Aborting
<1>12. ASSUME NEW r \in Requests, NEW actual \in Actuals,
              StreamEndsWriteFailsClosing(r, actual)
       PROVE  TypeOK'
  BY <1>12, UsageType, DeathType DEF TypeOK, StreamEndsWriteFailsClosing, Answers, Stages
<1>5. ASSUME NEW r \in Requests, HungClientLeaves(r) PROVE TypeOK'
  BY <1>5, CloseType DEF TypeOK, HungClientLeaves
<1>6. ASSUME NEW p \in Probes, ProbeStarts(p) \/ ProbeEnds(p) PROVE TypeOK'
  BY <1>6, PermitType DEF TypeOK, ProbeStarts, ProbeEnds
<1>7. CASE Shutdown
  BY <1>7, CloseType DEF TypeOK, Shutdown
<1>8. CASE Exit \/ Crash
  BY <1>8, DeathType DEF TypeOK, Exit, Crash
<1>9. CASE Restart \/ Maintenance
  BY <1>9, MaintainType DEF TypeOK, Restart, Maintenance
<1>10. CASE Tick
  BY <1>10 DEF TypeOK, Tick
<1>11. CASE UNCHANGED vars
  BY <1>11 DEF TypeOK, vars
<1> QED
  BY <1>1, <1>2, <1>3, <1>4, <1>5, <1>6, <1>7, <1>8, <1>9, <1>10, <1>11, <1>12
     DEF Next, WriteFails

-----------------------------------------------------------------------------
(***************************************************************************)
(* The counters: a counter is the size of the set of closures still to run.*)
(***************************************************************************)
LEMMA PermitsFinite == ASSUME TypeOK PROVE IsFiniteSet(permits)
BY SetsAssumption, FS_Union, FS_Subset DEF TypeOK

LEMMA ReleasePermit ==
  ASSUME TypeOK, PermitsBalance, NEW x, release(x)
  PROVE  permits' = permits \ {x} /\ inUse' = Cardinality(permits') /\ inUse' <= Concurrency
<1>1. /\ IsFiniteSet(permits)
      /\ Cardinality(permits \ {x}) =
           IF x \in permits THEN Cardinality(permits) - 1 ELSE Cardinality(permits)
  BY PermitsFinite, FS_RemoveElement
<1> QED
  BY <1>1, LimitsAssumption DEF TypeOK, PermitsBalance, release

LEMMA AcquirePermit ==
  ASSUME TypeOK, PermitsBalance, NEW x, x \notin permits, PermitFree, acquire(x)
  PROVE  permits' = permits \cup {x} /\ inUse' = Cardinality(permits') /\ inUse' <= Concurrency
<1>1. Cardinality(permits \cup {x}) = Cardinality(permits) + 1
  BY PermitsFinite, FS_AddElement
<1> QED
  BY <1>1, LimitsAssumption DEF TypeOK, PermitsBalance, PermitFree, acquire

LEMMA HeldFinite ==
  ASSUME TypeOK, NEW S, NEW t
  PROVE  IsFiniteSet(HeldBy(S, t)) /\ Cardinality(HeldBy(S, t)) \in Nat
<1>1. HeldBy(S, t) \in SUBSET Requests
  BY DEF TypeOK, HeldBy
<1> QED
  BY <1>1, SetsAssumption, FS_Subset, FS_CardinalityType

LEMMA ReleaseSlots ==
  ASSUME TypeOK, SlotsBalance, NEW S, releaseTenantSlot(S), UNCHANGED call
  PROVE  /\ slots' = slots \ S
         /\ \A t \in Tenants : /\ active'[t] = Cardinality(HeldBy(slots, t)')
                               /\ active'[t] <= SlotLimit[t]
<1>1. slots' = slots \ S
  BY DEF releaseTenantSlot
<1>2. ASSUME NEW t \in Tenants
      PROVE  /\ active'[t] = Cardinality(HeldBy(slots, t)')
             /\ active'[t] <= SlotLimit[t]
  <2>1. HeldBy(slots, t)' = HeldBy(slots, t) \ HeldBy(S, t)
    BY <1>1 DEF HeldBy, Tenant
  <2>2. HeldBy(slots, t) \cap HeldBy(S, t) = HeldBy(S, t)
    BY DEF HeldBy
  <2>3. Cardinality(HeldBy(slots, t)') =
          Cardinality(HeldBy(slots, t)) - Cardinality(HeldBy(S, t))
    BY <2>1, <2>2, HeldFinite, FS_Difference
  <2>4. /\ Cardinality(HeldBy(slots, t)') \in Nat
        /\ Cardinality(HeldBy(slots, t)) \in Nat /\ Cardinality(HeldBy(S, t)) \in Nat
    <3>1. IsFiniteSet(HeldBy(slots, t)')
      BY <2>1, HeldFinite, FS_Difference
    <3> QED
      BY <3>1, HeldFinite, FS_CardinalityType
  <2>5. active[t] = Cardinality(HeldBy(slots, t)) /\ active[t] <= SlotLimit[t]
    BY DEF SlotsBalance
  <2>6. active'[t] = IF Cardinality(HeldBy(S, t)) <= active[t]
                     THEN active[t] - Cardinality(HeldBy(S, t)) ELSE 0
    BY DEF releaseTenantSlot
  <2> QED
    BY <2>3, <2>4, <2>5, <2>6, LimitsAssumption
<1> QED
  BY <1>1, <1>2

LEMMA AcquireSlot ==
  ASSUME TypeOK, SlotsBalance, NEW r \in Requests, r \notin slots,
         SlotFree(Tenant(r)), tryAcquire(r), UNCHANGED call
  PROVE  /\ slots' = slots \cup {r}
         /\ \A t \in Tenants : /\ active'[t] = Cardinality(HeldBy(slots, t)')
                               /\ active'[t] <= SlotLimit[t]
<1>1. slots' = slots \cup {r} /\ Tenant(r) \in Tenants
  BY CallType DEF tryAcquire
<1>2. ASSUME NEW t \in Tenants
      PROVE  /\ active'[t] = Cardinality(HeldBy(slots, t)')
             /\ active'[t] <= SlotLimit[t]
  <2>1. HeldBy(slots, t)' = IF t = Tenant(r) THEN HeldBy(slots, t) \cup {r}
                            ELSE HeldBy(slots, t)
    BY <1>1 DEF HeldBy, Tenant
  <2>2. r \notin HeldBy(slots, t)
    BY DEF HeldBy
  <2>3. Cardinality(HeldBy(slots, t)') =
          IF t = Tenant(r) THEN Cardinality(HeldBy(slots, t)) + 1
          ELSE Cardinality(HeldBy(slots, t))
    BY <2>1, <2>2, HeldFinite, FS_AddElement
  <2>4. active[t] = Cardinality(HeldBy(slots, t)) /\ active[t] <= SlotLimit[t]
    BY DEF SlotsBalance
  <2>5. active'[t] = IF t = Tenant(r) THEN active[t] + 1 ELSE active[t]
    BY <1>1 DEF TypeOK, tryAcquire
  <2>6. t = Tenant(r) => active[t] < SlotLimit[t]
    BY DEF SlotFree
  <2> QED
    BY <2>3, <2>4, <2>5, <2>6, LimitsAssumption, <1>1 DEF TypeOK
<1> QED
  BY <1>1, <1>2

-----------------------------------------------------------------------------
(***************************************************************************)
(* What holds where a request is.  Places is the strengthening that makes  *)
(* the balances and the accounting inductive: a stream is registered       *)
(* exactly while it is open, and nothing is booked or answered early.      *)
(***************************************************************************)
Places ==
  /\ registered = {r \in Requests : Streaming(r)}
  /\ \A r \in Requests :
       /\ Streaming(r) => call[r].stream
       /\ Live(r) /\ call[r].stream => ~HasKey(r)
       /\ stage[r] = "reading" => ~call[r].stream
       /\ stage[r] = "new" => usage[r] = NoRow
       /\ stage[r] = "hung" => r \in faulty
       /\ Live(r) \/ stage[r] = "new" => answer[r] = "none"

\* Settling and releasing leave a row alone that does not exist.
LEMMA ReleaseKeepsNew ==
  ASSUME NEW rows, NEW S, NEW x \in Requests, rows[x] = NoRow
  PROVE  releaseBudget(rows, S)[x] = NoRow
BY DEF releaseBudget, NoRow

LEMMA NewRowKept ==
  ASSUME TypeOK, NEW r \in Requests, NEW actual \in Actuals,
         NEW rows \in {usage, settleBudget(r, actual)}, NEW S,
         NEW x \in Requests, usage[x] = NoRow
  PROVE  rows[x] = NoRow /\ releaseBudget(rows, S)[x] = NoRow
<1>1. rows[x] = NoRow
  BY DEF TypeOK, settleBudget, NoRow
<1> QED
  BY <1>1, ReleaseKeepsNew

LEMMA PlacesStep ==
  ASSUME TypeOK, Places, [Next]_vars
  PROVE  Places'
<1> USE DEF process, database, bounds, Streaming, Live, InFlight, Awaiting, HasKey
<1>0. /\ stage \in [Requests -> Stages] /\ answer \in [Requests -> Answers]
      /\ usage \in [Requests -> Row] /\ faulty \subseteq Requests
  BY DEF TypeOK
<1>1. ASSUME NEW r \in Requests, Execute(r) PROVE Places'
  <2>1. CASE RefuseKeyedStream(r) \/ NotOwner(r) \/ OverBudget(r) \/ Overloaded(r)
    BY <2>1, <1>0 DEF Places, RefuseKeyedStream, NotOwner, OverBudget, Overloaded, Owner,
       Arriving, Answered
  <2>2. CASE Admit(r)
    BY <2>2, <1>0 DEF Places, Admit, Owner, Arriving, reserveBudget
  <2> QED
    BY <1>1, <2>1, <2>2 DEF Execute
<1>2. ASSUME NEW r \in Requests, Proceed(r) \/ WriteFails(r) PROVE Places'
  <2>1. CASE FetchRejects(r) \/ UpstreamRefusesStream(r) \/ BodyUnusable(r)
    <3>1. /\ GiveUp(r)
          /\ stage[r] \in {"fetching", "reading"}
      BY <2>1 DEF FetchRejects, UpstreamRefusesStream, BodyUnusable
    <3>2. /\ stage' = [stage EXCEPT ![r] = "done"]
          /\ answer' = [answer EXCEPT ![r] = "failed"]
          /\ UNCHANGED <<registered, call, faulty>>
      BY <3>1 DEF GiveUp, Answered
    <3>3. \A x \in Requests : usage[x] = NoRow => usage'[x] = NoRow
      BY <3>1, ReleaseKeepsNew DEF GiveUp
    <3>4. registered' = {x \in Requests : Streaming(x)'}
      BY <3>1, <3>2, <1>0 DEF Places
    <3>5. ASSUME NEW x \in Requests, x # r
          PROVE  stage'[x] = stage[x] /\ answer'[x] = answer[x]
      BY <3>2, <3>5, <1>0
    <3>6. stage'[r] = "done"
      BY <3>2, <1>0
    <3> QED
      BY <3>2, <3>3, <3>4, <3>5, <3>6 DEF Places
  <2>2. CASE HeadersArrive(r) \/ StreamOpens(r)
    BY <2>2, <1>0 DEF Places, HeadersArrive, StreamOpens
  <2>3. CASE UpstreamDone(r) \/ PullRejects(r)
    BY <2>3, <1>0 DEF Places, UpstreamDone, PullRejects
  <2>4. ASSUME NEW S \in SUBSET Requests, finalizeFailure(S)
        PROVE  /\ registered' = registered \ S
               /\ \A x \in Requests : usage[x] = NoRow => usage'[x] = NoRow
    BY <2>4, ReleaseKeepsNew DEF finalizeFailure
  <2>10. CASE StreamErrors(r)
    BY <2>4, <2>10, <1>0 DEF Places, StreamErrors, Answered
  <2>11. CASE CloseStream(r)
    BY <2>4, <2>11, <1>0 DEF Places, CloseStream, closeStreams, Closed
  <2>12. CASE CancelSettles(r)
    BY <2>4, <2>12, <1>0 DEF Places, CancelSettles, Aborting
  <2>5. ASSUME NEW actual \in Actuals, BodyArrives(r, actual) PROVE Places'
    BY <2>5, <1>0 DEF Places, BodyArrives, settleBudget, Answered
  <2>6. ASSUME NEW actual \in Actuals, BodyArrivesWriteFails(r, actual) PROVE Places'
    <3>1. \A x \in Requests : usage[x] = NoRow => usage'[x] = NoRow
      BY <2>6, NewRowKept DEF BodyArrivesWriteFails
    <3> QED
      BY <2>6, <3>1, <1>0 DEF Places, BodyArrivesWriteFails, Answered
  <2>7. ASSUME NEW actual \in Actuals, StreamEnds(r, actual) PROVE Places'
    BY <2>7, <1>0 DEF Places, StreamEnds, settleBudget, Answered
  <2>8. ASSUME NEW actual \in Actuals, StreamEndsWriteFails(r, actual) PROVE Places'
    <3>1. \A x \in Requests : usage[x] = NoRow => usage'[x] = NoRow
      BY <2>8, NewRowKept DEF StreamEndsWriteFails
    <3> QED
      BY <2>8, <3>1, <1>0 DEF Places, StreamEndsWriteFails, Closed
  <2>9. ASSUME NEW actual \in Actuals, StreamEndsWriteFailsClosing(r, actual) PROVE Places'
    BY <2>9, <1>0 DEF Places, StreamEndsWriteFailsClosing, ProcessDies, AfterDeath,
       settleBudget, NoRow
  <2> QED
    BY <1>2, <2>1, <2>2, <2>3, <2>4, <2>5, <2>6, <2>7, <2>8, <2>9,
       <2>10, <2>11, <2>12 DEF Proceed, WriteFails
<1>3. ASSUME NEW r \in Requests, HungClientLeaves(r) PROVE Places'
  BY <1>3, <1>0 DEF Places, HungClientLeaves, closeStreams, finalizeFailure, releaseBudget,
     releaseTenantSlot, Closed, NoRow
<1>4. ASSUME NEW p \in Probes, ProbeStarts(p) \/ ProbeEnds(p) PROVE Places'
  BY <1>4 DEF Places, ProbeStarts, ProbeEnds
<1>5. CASE Shutdown
  BY <1>5, <1>0 DEF Places, Shutdown, closeStreams, finalizeFailure, releaseBudget, Closed,
     NoRow
<1>6. CASE Exit \/ Crash
  BY <1>6, <1>0 DEF Places, Exit, Crash, ProcessDies, AfterDeath, Aborting
<1>7. CASE Restart \/ Maintenance
  BY <1>7, <1>0 DEF Places, Restart, Maintenance, maintain, NoRow
<1>8. CASE Tick \/ UNCHANGED vars
  BY <1>8 DEF Places, Tick, vars
<1> QED
  BY <1>1, <1>2, <1>3, <1>4, <1>5, <1>6, <1>7, <1>8 DEF Next

\* The upstream semaphore stays balanced.
LEMMA PermitsStep ==
  ASSUME TypeOK, PermitsBalance, Places, [Next]_vars
  PROVE  PermitsBalance'
<1> DEFINE PermitCount == inUse = Cardinality(permits) /\ inUse <= Concurrency
           Place == \A r \in Requests :
                      /\ stage[r] \in Awaiting => r \in permits
                      /\ r \in permits => stage[r] \in Awaiting \cup {"aborting"}
<1> SUFFICES PermitCount' /\ Place'
  BY DEF PermitsBalance
<1> USE DEF process, database, bounds
<1>0. PermitCount /\ Place /\ stage \in [Requests -> Stages]
  BY DEF PermitsBalance, TypeOK
<1>d. ProcessDies => PermitCount' /\ permits' = {}
  BY FS_EmptySet, LimitsAssumption DEF ProcessDies
<1> HIDE DEF PermitCount
<1>1. ASSUME NEW r \in Requests, Execute(r) PROVE PermitCount' /\ Place'
  <2>1. CASE RefuseKeyedStream(r) \/ NotOwner(r) \/ OverBudget(r) \/ Overloaded(r)
    BY <2>1, <1>0 DEF RefuseKeyedStream, NotOwner, OverBudget, Overloaded, Owner, Arriving,
       Answered, PermitCount, Awaiting
  <2>2. CASE Admit(r)
    <3>1. r \notin permits
      BY <2>2, <1>0 DEF Admit, Owner, Arriving, Awaiting
    <3>2. PermitCount' /\ permits' = permits \cup {r}
      BY <2>2, <3>1, AcquirePermit DEF Admit, PermitCount
    <3> QED
      BY <2>2, <3>2, <1>0 DEF Admit, Awaiting
  <2> QED
    BY <1>1, <2>1, <2>2 DEF Execute
<1>2. ASSUME NEW r \in Requests, Proceed(r) \/ WriteFails(r) PROVE PermitCount' /\ Place'
  <2>1. CASE FetchRejects(r) \/ UpstreamRefusesStream(r) \/ BodyUnusable(r)
    <3>1. PermitCount' /\ permits' = permits \ {r}
      BY <2>1, ReleasePermit
         DEF FetchRejects, UpstreamRefusesStream, BodyUnusable, GiveUp, PermitCount
    <3> QED
      BY <2>1, <3>1, <1>0
         DEF FetchRejects, UpstreamRefusesStream, BodyUnusable, GiveUp, Answered, Awaiting
  <2>2. CASE HeadersArrive(r) \/ StreamOpens(r)
    BY <2>2, <1>0 DEF HeadersArrive, StreamOpens, Awaiting, PermitCount
  <2>3. CASE UpstreamDone(r) \/ PullRejects(r) \/ CancelSettles(r)
    <3>1. PermitCount' /\ permits' = permits \ {r}
      BY <2>3, ReleasePermit DEF UpstreamDone, PullRejects, CancelSettles, PermitCount
    <3> QED
      BY <2>3, <3>1, <1>0
         DEF UpstreamDone, PullRejects, CancelSettles, Awaiting, Aborting
  <2>4. CASE StreamErrors(r)
    <3>1. PermitCount' /\ permits' = permits \ {r}
      BY <2>4, ReleasePermit DEF StreamErrors, PermitCount
    <3> QED
      BY <2>4, <3>1, <1>0 DEF StreamErrors, Answered, Awaiting
  <2>5. CASE CloseStream(r)
    BY <2>5, <1>0 DEF CloseStream, closeStreams, Closed, Streaming, Awaiting, PermitCount
  <2>6. ASSUME NEW actual \in Actuals,
               BodyArrives(r, actual) \/ BodyArrivesWriteFails(r, actual)
        PROVE  PermitCount' /\ Place'
    <3>1. PermitCount' /\ permits' = permits \ {r}
      BY <2>6, ReleasePermit DEF BodyArrives, BodyArrivesWriteFails, PermitCount
    <3> QED
      BY <2>6, <3>1, <1>0 DEF BodyArrives, BodyArrivesWriteFails, Answered, Awaiting
  <2>7. ASSUME NEW actual \in Actuals, StreamEnds(r, actual) PROVE PermitCount' /\ Place'
    BY <2>7, <1>0 DEF StreamEnds, Answered, Awaiting, PermitCount
  <2>8. ASSUME NEW actual \in Actuals, StreamEndsWriteFails(r, actual)
        PROVE  PermitCount' /\ Place'
    BY <2>8, <1>0 DEF Places, Streaming, StreamEndsWriteFails, Closed, Awaiting, PermitCount
  <2>9. ASSUME NEW actual \in Actuals, StreamEndsWriteFailsClosing(r, actual)
        PROVE  PermitCount' /\ Place'
    BY <2>9, <1>0, <1>d
       DEF StreamEndsWriteFailsClosing, AfterDeath, Live, InFlight, Aborting, Awaiting
  <2> QED
    BY <1>2, <2>1, <2>2, <2>3, <2>4, <2>5, <2>6, <2>7, <2>8, <2>9 DEF Proceed, WriteFails
<1>3. ASSUME NEW r \in Requests, HungClientLeaves(r) PROVE PermitCount' /\ Place'
  BY <1>3, <1>0 DEF HungClientLeaves, closeStreams, Closed, Awaiting, PermitCount
<1>4. ASSUME NEW p \in Probes, ProbeStarts(p) PROVE PermitCount' /\ Place'
  <2>1. PermitCount' /\ permits' = permits \cup {p}
    BY <1>4, AcquirePermit DEF ProbeStarts, PermitCount
  <2> QED
    BY <1>4, <2>1, <1>0, SetsAssumption DEF ProbeStarts
<1>5. ASSUME NEW p \in Probes, ProbeEnds(p) PROVE PermitCount' /\ Place'
  <2>1. PermitCount' /\ permits' = permits \ {p}
    BY <1>5, ReleasePermit DEF ProbeEnds, PermitCount
  <2> QED
    BY <1>5, <2>1, <1>0, SetsAssumption DEF ProbeEnds
<1>6. CASE Shutdown
  BY <1>6, <1>0 DEF Places, Streaming, Shutdown, closeStreams, Closed, Awaiting, PermitCount
<1>7. CASE Exit \/ Crash
  BY <1>7, <1>0, <1>d DEF Exit, Crash, AfterDeath, Live, InFlight, Aborting, Awaiting
<1>8. CASE Restart \/ Maintenance \/ Tick \/ UNCHANGED vars
  BY <1>8, <1>0 DEF Restart, Maintenance, Tick, vars, PermitCount
<1> QED
  BY <1>1, <1>2, <1>3, <1>4, <1>5, <1>6, <1>7, <1>8 DEF Next

\* The tenant slots stay balanced.
LEMMA SlotsStep ==
  ASSUME TypeOK, SlotsBalance, Places, [Next]_vars
  PROVE  SlotsBalance'
<1> DEFINE PermitCount == \A t \in Tenants : /\ active[t] = Cardinality(HeldBy(slots, t))
                                        /\ active[t] <= SlotLimit[t]
           Place == slots = {r \in Requests : Live(r)}
<1> SUFFICES PermitCount' /\ Place'
  BY DEF SlotsBalance
<1> USE DEF process, database, bounds
<1>0. PermitCount /\ Place /\ stage \in [Requests -> Stages]
  BY DEF SlotsBalance, TypeOK
<1>u. UNCHANGED <<call, slots, active>> => PermitCount'
  BY <1>0 DEF HeldBy, Tenant
<1>r. ASSUME NEW S, releaseTenantSlot(S), UNCHANGED call
      PROVE  PermitCount' /\ slots' = slots \ S
  BY <1>r, ReleaseSlots
<1>d. ASSUME ProcessDies PROVE PermitCount' /\ slots' = {}
  <2>1. slots' = {} /\ \A t \in Tenants : active'[t] = 0 /\ HeldBy(slots, t)' = {}
    BY <1>d DEF ProcessDies, HeldBy
  <2> QED
    BY <2>1, FS_EmptySet, LimitsAssumption
<1> HIDE DEF PermitCount
<1> USE DEF Live, InFlight, Awaiting
<1>1. ASSUME NEW r \in Requests, Execute(r) PROVE PermitCount' /\ Place'
  <2>1. CASE RefuseKeyedStream(r) \/ NotOwner(r) \/ OverBudget(r) \/ Overloaded(r)
    BY <2>1, <1>0, <1>u DEF RefuseKeyedStream, NotOwner, OverBudget, Overloaded, Owner,
       Arriving, Answered
  <2>2. CASE Admit(r)
    <3>1. r \notin slots
      BY <2>2, <1>0 DEF Admit, Owner, Arriving
    <3>2. PermitCount' /\ slots' = slots \cup {r}
      BY <2>2, <3>1, AcquireSlot DEF Admit, PermitCount
    <3> QED
      BY <2>2, <3>2, <1>0 DEF Admit
  <2> QED
    BY <1>1, <2>1, <2>2 DEF Execute
<1>2. ASSUME NEW r \in Requests, Proceed(r) \/ WriteFails(r) PROVE PermitCount' /\ Place'
  <2>1. CASE FetchRejects(r) \/ UpstreamRefusesStream(r) \/ BodyUnusable(r)
    <3>1. PermitCount' /\ slots' = slots \ {r}
      BY <2>1, <1>r DEF FetchRejects, UpstreamRefusesStream, BodyUnusable, GiveUp
    <3> QED
      BY <2>1, <3>1, <1>0
         DEF FetchRejects, UpstreamRefusesStream, BodyUnusable, GiveUp, Answered
  <2>2. CASE HeadersArrive(r) \/ StreamOpens(r) \/ UpstreamDone(r) \/ PullRejects(r)
    BY <2>2, <1>0, <1>u DEF HeadersArrive, StreamOpens, UpstreamDone, PullRejects
  <2>3. CASE StreamErrors(r)
    <3>1. PermitCount' /\ slots' = slots \ {r}
      BY <2>3, <1>r DEF StreamErrors, finalizeFailure, Places, Streaming
    <3> QED
      BY <2>3, <3>1, <1>0 DEF StreamErrors, Answered
  <2>4. CASE CloseStream(r)
    <3>1. PermitCount' /\ slots' = slots \ {r}
      BY <2>4, <1>r DEF CloseStream, closeStreams, finalizeFailure, Places, Streaming
    <3> QED
      BY <2>4, <3>1, <1>0 DEF CloseStream, closeStreams, Closed
  <2>5. CASE CancelSettles(r)
    <3>1. PermitCount' /\ slots' = slots \ ({r} \cap registered)
      BY <2>5, <1>r DEF CancelSettles, finalizeFailure
    <3>2. r \notin registered
      BY <2>5 DEF CancelSettles, Places, Streaming, Aborting
    <3> QED
      BY <2>5, <3>1, <3>2, <1>0 DEF CancelSettles, Aborting
  <2>6. ASSUME NEW actual \in Actuals,
               BodyArrives(r, actual) \/ BodyArrivesWriteFails(r, actual)
        PROVE  PermitCount' /\ Place'
    <3>1. PermitCount' /\ slots' = slots \ {r}
      BY <2>6, <1>r DEF BodyArrives, BodyArrivesWriteFails
    <3> QED
      BY <2>6, <3>1, <1>0 DEF BodyArrives, BodyArrivesWriteFails, Answered
  <2>7. ASSUME NEW actual \in Actuals, StreamEnds(r, actual) PROVE PermitCount' /\ Place'
    <3>1. PermitCount' /\ slots' = slots \ {r}
      BY <2>7, <1>r DEF StreamEnds
    <3> QED
      BY <2>7, <3>1, <1>0 DEF StreamEnds, Answered
  <2>8. ASSUME NEW actual \in Actuals, StreamEndsWriteFails(r, actual)
        PROVE  PermitCount' /\ Place'
    <3>1. PermitCount' /\ slots' = slots \ registered
      BY <2>8, <1>r DEF StreamEndsWriteFails
    <3> QED
      BY <2>8, <3>1, <1>0 DEF StreamEndsWriteFails, Closed, Places, Streaming
  <2>9. ASSUME NEW actual \in Actuals, StreamEndsWriteFailsClosing(r, actual)
        PROVE  PermitCount' /\ Place'
    BY <2>9, <1>0, <1>d DEF StreamEndsWriteFailsClosing, AfterDeath
  <2> QED
    BY <1>2, <2>1, <2>2, <2>3, <2>4, <2>5, <2>6, <2>7, <2>8, <2>9 DEF Proceed, WriteFails
<1>3. ASSUME NEW r \in Requests, HungClientLeaves(r) PROVE PermitCount' /\ Place'
  <2>1. PermitCount' /\ slots' = slots \ {}
    BY <1>3, <1>r DEF HungClientLeaves, closeStreams, finalizeFailure, Places, Streaming
  <2> QED
    BY <1>3, <2>1, <1>0 DEF HungClientLeaves, closeStreams, Closed
<1>4. CASE Shutdown
  <2>1. PermitCount' /\ slots' = slots \ registered
    BY <1>4, <1>r DEF Shutdown, closeStreams, finalizeFailure
  <2> QED
    BY <1>4, <2>1, <1>0 DEF Shutdown, closeStreams, Closed, Places, Streaming
<1>5. CASE Exit \/ Crash
  BY <1>5, <1>0, <1>d DEF Exit, Crash, AfterDeath, Aborting
<1>6. ASSUME NEW p \in Probes, ProbeStarts(p) \/ ProbeEnds(p) PROVE PermitCount' /\ Place'
  BY <1>6, <1>0, <1>u DEF ProbeStarts, ProbeEnds
<1>7. CASE Restart \/ Maintenance \/ Tick \/ UNCHANGED vars
  BY <1>7, <1>0, <1>u DEF Restart, Maintenance, Tick, vars
<1> QED
  BY <1>1, <1>2, <1>3, <1>4, <1>5, <1>6, <1>7 DEF Next

-----------------------------------------------------------------------------
(***************************************************************************)
(* The accounting: what a row is worth to whom.                            *)
(***************************************************************************)
Accounting == ReservedHasOwner /\ ChargedIffAnswered

\* Only rows of S are released, and only reserved ones.
LEMMA ReleaseFacts ==
  ASSUME NEW rows \in [Requests -> Row], NEW S, NEW x \in Requests
  PROVE  releaseBudget(rows, S)[x].state =
           IF x \in S /\ rows[x].state = "reserved" THEN "released" ELSE rows[x].state
BY DEF releaseBudget, Row

LEMMA SettleFacts ==
  ASSUME TypeOK, NEW r \in Requests, NEW actual \in Actuals, NEW x \in Requests
  PROVE  settleBudget(r, actual)[x].state =
           IF x = r /\ usage[x].state = "reserved" THEN "settled" ELSE usage[x].state
BY DEF settleBudget, TypeOK, Row

\* Whatever write fails, only the row of r can be settled and only rows of S
\* released.
LEMMA FaultFacts ==
  ASSUME TypeOK, NEW r \in Requests, NEW actual \in Actuals,
         NEW rows \in {usage, settleBudget(r, actual)}, NEW S, NEW x \in Requests, x # r
  PROVE  /\ rows[x].state = usage[x].state
         /\ releaseBudget(rows, S)[x].state =
              IF x \in S /\ usage[x].state = "reserved" THEN "released" ELSE usage[x].state
<1>1. rows[x].state = usage[x].state /\ rows \in [Requests -> Row]
  BY SettleFacts, UsageType DEF TypeOK
<1> QED
  BY <1>1, ReleaseFacts

\* Reservations keep an owner, and charges an answer.
LEMMA AccountingStep ==
  ASSUME TypeOK, Accounting, Places, [Next]_vars
  PROVE  Accounting'
<1> USE DEF process, database, bounds, Live, InFlight, Awaiting, Streaming
<1>0. /\ stage \in [Requests -> Stages] /\ answer \in [Requests -> Answers]
      /\ usage \in [Requests -> Row] /\ faulty \subseteq Requests
  BY DEF TypeOK
<1>1. ASSUME NEW r \in Requests, Execute(r) PROVE Accounting'
  <2>1. CASE RefuseKeyedStream(r) \/ NotOwner(r) \/ OverBudget(r) \/ Overloaded(r)
    BY <2>1, <1>0 DEF Accounting, ReservedHasOwner, ChargedIffAnswered, Places, NoRow,
       RefuseKeyedStream, NotOwner, OverBudget, Overloaded, Owner, Arriving, Answered
  <2>2. CASE Admit(r)
    BY <2>2, <1>0 DEF Accounting, ReservedHasOwner, ChargedIffAnswered, Places, Admit, Owner,
       Arriving, reserveBudget
  <2> QED
    BY <1>1, <2>1, <2>2 DEF Execute
<1>2. ASSUME NEW r \in Requests, Proceed(r) \/ WriteFails(r) PROVE Accounting'
  <2>1. CASE FetchRejects(r) \/ UpstreamRefusesStream(r) \/ BodyUnusable(r)
    BY <2>1, <1>0, ReleaseFacts DEF Accounting, ReservedHasOwner, ChargedIffAnswered,
       FetchRejects, UpstreamRefusesStream, BodyUnusable, GiveUp, Answered
  <2>2. CASE HeadersArrive(r) \/ StreamOpens(r) \/ UpstreamDone(r) \/ PullRejects(r)
    BY <2>2, <1>0 DEF Accounting, ReservedHasOwner, ChargedIffAnswered,
       HeadersArrive, StreamOpens, UpstreamDone, PullRejects, Aborting
  <2>3. CASE StreamErrors(r)
    BY <2>3, <1>0, ReleaseFacts DEF Accounting, ReservedHasOwner, ChargedIffAnswered,
       Places, StreamErrors, finalizeFailure, Answered
  <2>4. CASE CloseStream(r)
    BY <2>4, <1>0, ReleaseFacts DEF Accounting, ReservedHasOwner, ChargedIffAnswered,
       Places, CloseStream, closeStreams, finalizeFailure, Closed
  <2>5. CASE CancelSettles(r)
    BY <2>5, <1>0, ReleaseFacts DEF Accounting, ReservedHasOwner, ChargedIffAnswered,
       Places, CancelSettles, finalizeFailure, Aborting
  <2>6. ASSUME NEW actual \in Actuals, BodyArrives(r, actual) PROVE Accounting'
    BY <2>6, <1>0, SettleFacts DEF Accounting, ReservedHasOwner, ChargedIffAnswered,
       BodyArrives, Answered
  <2>7. ASSUME NEW actual \in Actuals, BodyArrivesWriteFails(r, actual) PROVE Accounting'
    <3>1. \A x \in Requests \ {r} : usage'[x].state = usage[x].state
      BY <2>7, FaultFacts DEF BodyArrivesWriteFails
    <3> QED
      BY <2>7, <3>1, <1>0 DEF Accounting, ReservedHasOwner, ChargedIffAnswered,
         BodyArrivesWriteFails, Answered
  <2>8. ASSUME NEW actual \in Actuals, StreamEnds(r, actual) PROVE Accounting'
    BY <2>8, <1>0, SettleFacts DEF Accounting, ReservedHasOwner, ChargedIffAnswered,
       StreamEnds, Answered
  <2>9. ASSUME NEW actual \in Actuals, StreamEndsWriteFails(r, actual) PROVE Accounting'
    <3>1. \A x \in Requests \ {r} : usage'[x].state =
            IF x \in registered /\ usage[x].state = "reserved" THEN "released"
            ELSE usage[x].state
      BY <2>9, FaultFacts DEF StreamEndsWriteFails
    <3> QED
      BY <2>9, <3>1, <1>0 DEF Accounting, ReservedHasOwner, ChargedIffAnswered, Places,
         StreamEndsWriteFails, Closed
  <2>10. ASSUME NEW actual \in Actuals, StreamEndsWriteFailsClosing(r, actual)
         PROVE  Accounting'
    <3>1. \A x \in Requests \ {r} : usage'[x].state = usage[x].state
      BY <2>10, SettleFacts DEF StreamEndsWriteFailsClosing
    <3> QED
      BY <2>10, <3>1, <1>0 DEF Accounting, ReservedHasOwner, ChargedIffAnswered,
         StreamEndsWriteFailsClosing, AfterDeath, Aborting
  <2> QED
    BY <1>2, <2>1, <2>2, <2>3, <2>4, <2>5, <2>6, <2>7, <2>8, <2>9, <2>10
       DEF Proceed, WriteFails
<1>3. ASSUME NEW r \in Requests, HungClientLeaves(r) PROVE Accounting'
  BY <1>3, <1>0, ReleaseFacts DEF Accounting, ReservedHasOwner, ChargedIffAnswered, Places,
     HungClientLeaves, closeStreams, finalizeFailure, Closed
<1>4. ASSUME NEW p \in Probes, ProbeStarts(p) \/ ProbeEnds(p) PROVE Accounting'
  BY <1>4 DEF Accounting, ReservedHasOwner, ChargedIffAnswered, ProbeStarts, ProbeEnds
<1>5. CASE Shutdown
  BY <1>5, <1>0, ReleaseFacts DEF Accounting, ReservedHasOwner, ChargedIffAnswered, Places,
     Shutdown, closeStreams, finalizeFailure, Closed
<1>6. CASE Exit \/ Crash
  BY <1>6, <1>0 DEF Accounting, ReservedHasOwner, ChargedIffAnswered, Exit, Crash,
     AfterDeath, Aborting
<1>7. CASE Restart \/ Maintenance
  BY <1>7, <1>0 DEF Accounting, ReservedHasOwner, ChargedIffAnswered, Restart, Maintenance,
     maintain, NoRow
<1>8. CASE Tick \/ UNCHANGED vars
  BY <1>8 DEF Accounting, ReservedHasOwner, ChargedIffAnswered, Tick, vars
<1> QED
  BY <1>1, <1>2, <1>3, <1>4, <1>5, <1>6, <1>7, <1>8 DEF Next

-----------------------------------------------------------------------------
(***************************************************************************)
(* The theorems.                                                           *)
(***************************************************************************)
IInv == TypeOK /\ PermitsBalance /\ SlotsBalance /\ Places /\ Accounting

LEMMA Initially == Init => IInv
<1> SUFFICES ASSUME Init PROVE IInv
  OBVIOUS
<1>1. TypeOK
  BY DEF Init, TypeOK, Stages, Answers, Row, RowStates, NoRow, IdemRow, NoClaim
<1>2. PermitsBalance
  BY FS_EmptySet, LimitsAssumption DEF Init, PermitsBalance, Awaiting
<1>3. SlotsBalance
  <2>1. slots = {r \in Requests : Live(r)}
    BY DEF Init, Live, InFlight, Awaiting
  <2>2. ASSUME NEW t \in Tenants PROVE HeldBy(slots, t) = {} /\ active[t] = 0
    BY DEF Init, HeldBy
  <2> QED
    BY <2>1, <2>2, FS_EmptySet, LimitsAssumption DEF SlotsBalance
<1>4. Places
  BY DEF Init, Places, Streaming, Live, InFlight, Awaiting
<1>5. Accounting
  BY DEF Init, Accounting, ReservedHasOwner, ChargedIffAnswered, Live, InFlight, Awaiting,
     NoRow
<1> QED
  BY <1>1, <1>2, <1>3, <1>4, <1>5 DEF IInv

LEMMA Inductive == IInv /\ [Next]_vars => IInv'
BY TypeStep, PermitsStep, SlotsStep, PlacesStep, AccountingStep DEF IInv

LEMMA Invariance == Spec => []IInv
BY Initially, Inductive, PTL DEF Spec

\* The variables keep their types in every reachable state of the pipeline.
THEOREM TypeCorrect == Spec => []TypeOK
BY Invariance, PTL DEF IInv

\* For any number of requests and tenants, no path of execute leaks a tenant
\* slot or gives one back twice.
THEOREM SlotsConserved == Spec => []SlotsBalance
BY Invariance, PTL DEF IInv

\* No path leaks an upstream permit or gives one back twice.
THEOREM PermitsConserved == Spec => []PermitsBalance
BY Invariance, PTL DEF IInv

\* Budget is reserved exactly for requests in flight, but for what a crash or
\* a failed write left behind.
THEOREM ReservationsOwned == Spec => []ReservedHasOwner
BY Invariance, PTL DEF IInv, Accounting

\* A request is charged if and only if it was answered completely.
THEOREM ChargesAnswered == Spec => []ChargedIffAnswered
BY Invariance, PTL DEF IInv, Accounting

-----------------------------------------------------------------------------
(***************************************************************************)
(* The budget of the pipeline is the account of BudgetAccount.             *)
(***************************************************************************)
\* The account adds up with the sum of the pipeline.
LEMMA SameSum ==
  ASSUME NEW f, NEW S
  PROVE  Account!SumFunctionOnSet(f, S) = SumFunctionOnSet(f, S)
BY DEF SumFunctionOnSet, FoldFunctionOnSet, MapThenFoldSet,
   Account!SumFunctionOnSet, Account!FoldFunctionOnSet, Account!MapThenFoldSet

\* The reservation tests the very sum the account does.
LEMMA SameTest ==
  ASSUME NEW r \in Requests
  PROVE  Account!Fits(r) <=> BudgetFor(r)
<1>1. Account!DayOf(now) = Day(now)
  BY DEF Account!DayOf, Day
<1>2. Account!Booked(Tenant(r), Day(now)) = Charged(Tenant(r), Day(now))
  BY DEF Account!Booked, Account!DayOf, Charged, Day
<1>3. [q \in Requests |-> usage[q].units] = Units
  BY DEF Units
<1> QED
  BY <1>1, <1>2, <1>3, SameSum DEF Account!Fits, BudgetFor

\* What may become of a row in one step: nothing, or its one resolution.
Resolved(old, new) ==
  \/ new = old
  \/ /\ old.state = "reserved"
     /\ \/ new = [old EXCEPT !.state = "released", !.units = 0]
        \/ \E actual \in Actuals : new = [old EXCEPT !.state = "settled", !.units = actual]

Resolving ==
  /\ usage' = [x \in Requests |-> usage'[x]]
  /\ \A x \in Requests : Resolved(usage[x], usage'[x])
  /\ UNCHANGED <<call, now>>

LEMMA ReleaseResolves ==
  ASSUME NEW rows \in [Requests -> Row], NEW S, NEW x \in Requests
  PROVE  Resolved(rows[x], releaseBudget(rows, S)[x])
BY DEF releaseBudget, Resolved

LEMMA SettleResolves ==
  ASSUME TypeOK, NEW r \in Requests, NEW actual \in Actuals, NEW x \in Requests
  PROVE  Resolved(usage[x], settleBudget(r, actual)[x])
BY DEF settleBudget, Resolved, TypeOK, Row

\* A row that was settled is not released after it, so two writes of one
\* step are one resolution.
LEMMA FaultResolves ==
  ASSUME TypeOK, NEW r \in Requests, NEW actual \in Actuals,
         NEW rows \in {usage, settleBudget(r, actual)}, NEW S, NEW x \in Requests
  PROVE  Resolved(usage[x], rows[x]) /\ Resolved(usage[x], releaseBudget(rows, S)[x])
<1>0. usage \in [Requests -> Row]
  BY DEF TypeOK
<1>1. CASE rows = usage
  <2>1. Resolved(usage[x], releaseBudget(usage, S)[x])
    BY <1>0, ReleaseResolves
  <2>2. Resolved(usage[x], usage[x])
    BY DEF Resolved
  <2> QED
    BY <1>1, <2>1, <2>2
<1>2. CASE rows = settleBudget(r, actual)
  <2>0. /\ settleBudget(r, actual) \in [Requests -> Row]
        /\ Resolved(usage[x], settleBudget(r, actual)[x])
    BY UsageType, SettleResolves
  <2>1. rows \in [Requests -> Row] /\ Resolved(usage[x], rows[x])
    BY <1>2, <2>0
  <2>2. rows[x] = usage[x] \/ rows[x].state = "settled"
    BY <1>0, <1>2 DEF settleBudget, Row
  <2>3. rows[x].state = "settled" => releaseBudget(rows, S)[x] = rows[x]
    BY DEF releaseBudget
  <2>4. rows[x] = usage[x] => Resolved(usage[x], releaseBudget(rows, S)[x])
    BY <2>1, ReleaseResolves
  <2> QED
    BY <2>1, <2>2, <2>3, <2>4
<1> QED
  BY <1>1, <1>2

\* The pipeline resolves rows in every step after the admission.
LEMMA PipelineResolves ==
  ASSUME TypeOK, TypeOK',
         \/ \E r \in Requests : Proceed(r) \/ WriteFails(r) \/ HungClientLeaves(r)
         \/ \E p \in Probes : ProbeStarts(p) \/ ProbeEnds(p)
         \/ Shutdown \/ Exit \/ Crash
  PROVE  Resolving
<1> USE DEF database, process, bounds
<1>0. usage \in [Requests -> Row] /\ usage' = [x \in Requests |-> usage'[x]]
  BY DEF TypeOK
<1>1. ASSUME NEW r \in Requests, Proceed(r) PROVE Resolving
  <2>1. CASE FetchRejects(r) \/ UpstreamRefusesStream(r) \/ BodyUnusable(r)
    BY <2>1, <1>0, ReleaseResolves
       DEF Resolving, FetchRejects, UpstreamRefusesStream, BodyUnusable, GiveUp
  <2>2. CASE HeadersArrive(r) \/ StreamOpens(r) \/ UpstreamDone(r) \/ PullRejects(r)
    BY <2>2, <1>0
       DEF Resolving, Resolved, HeadersArrive, StreamOpens, UpstreamDone, PullRejects
  <2>3. CASE StreamErrors(r) \/ CloseStream(r) \/ CancelSettles(r)
    BY <2>3, <1>0, ReleaseResolves
       DEF Resolving, StreamErrors, CloseStream, CancelSettles, closeStreams, finalizeFailure
  <2>4. ASSUME NEW actual \in Actuals, BodyArrives(r, actual) \/ StreamEnds(r, actual)
        PROVE  Resolving
    BY <2>4, <1>0, SettleResolves DEF Resolving, BodyArrives, StreamEnds
  <2> QED
    BY <1>1, <2>1, <2>2, <2>3, <2>4 DEF Proceed
<1>2. ASSUME NEW r \in Requests, NEW actual \in Actuals,
             \/ BodyArrivesWriteFails(r, actual) \/ StreamEndsWriteFails(r, actual)
             \/ StreamEndsWriteFailsClosing(r, actual)
      PROVE  Resolving
  <2>1. UNCHANGED <<call, now>>
    BY <1>2 DEF BodyArrivesWriteFails, StreamEndsWriteFails, StreamEndsWriteFailsClosing
  <2>2. \E rows \in {usage, settleBudget(r, actual)} :
          usage' = rows \/ \E S \in SUBSET Requests : usage' = releaseBudget(rows, S)
    <3>1. CASE BodyArrivesWriteFails(r, actual)
      BY <3>1 DEF BodyArrivesWriteFails
    <3>2. CASE StreamEndsWriteFails(r, actual)
      <4>1. registered \ {r} \in SUBSET Requests
        BY DEF TypeOK
      <4> QED
        BY <3>2, <4>1 DEF StreamEndsWriteFails
    <3>3. CASE StreamEndsWriteFailsClosing(r, actual)
      BY <3>3 DEF StreamEndsWriteFailsClosing
    <3> QED
      BY <1>2, <3>1, <3>2, <3>3
  <2> QED
    BY <2>1, <2>2, <1>0, FaultResolves DEF Resolving
<1>3. ASSUME NEW r \in Requests, HungClientLeaves(r) PROVE Resolving
  BY <1>3, <1>0, ReleaseResolves DEF Resolving, HungClientLeaves, closeStreams, finalizeFailure
<1>4. CASE Shutdown
  BY <1>4, <1>0, ReleaseResolves DEF Resolving, Shutdown, closeStreams, finalizeFailure
<1>5. ASSUME NEW p \in Probes, ProbeStarts(p) \/ ProbeEnds(p) PROVE Resolving
  BY <1>5, <1>0 DEF Resolving, Resolved, ProbeStarts, ProbeEnds
<1>6. CASE Exit \/ Crash
  BY <1>6, <1>0 DEF Resolving, Resolved, Exit, Crash
<1> QED
  BY <1>1, <1>2, <1>3, <1>4, <1>5, <1>6 DEF WriteFails

\* A step of the pipeline is a step of the account or none.
LEMMA AccountStep ==
  ASSUME IInv, IInv', [Next]_vars
  PROVE  [Account!Step]_(Account!accountVars)
<1> USE DEF IInv, database, process, bounds
<1>c. ASSUME UNCHANGED call
      PROVE  /\ UNCHANGED [r \in Requests |-> Tenant(r)]
             /\ UNCHANGED [r \in Requests |-> Estimate[call[r].body]]
  BY <1>c DEF Tenant
<1>r. ASSUME Resolving PROVE Account!Resolve
  BY <1>r, <1>c DEF Resolving, Resolved, Account!Resolve, Account!Released, Account!Settled
<1>s. ASSUME UNCHANGED <<call, usage, now>> PROVE UNCHANGED Account!accountVars
  BY <1>s, <1>c DEF Account!accountVars
<1>1. ASSUME NEW r \in Requests, Execute(r) PROVE [Account!Step]_(Account!accountVars)
  <2>1. CASE RefuseKeyedStream(r) \/ NotOwner(r) \/ OverBudget(r)
    BY <2>1, <1>s DEF RefuseKeyedStream, NotOwner, OverBudget
  <2>2. ASSUME Overloaded(r) \/ Admit(r)
        PROVE  usage[r] = Account!Absent /\ Account!Fits(r) /\ UNCHANGED <<call, now>>
    BY <2>2, SameTest
       DEF Overloaded, Admit, Owner, Arriving, Places, NoRow, Account!Absent
  <2>3. CASE Overloaded(r)
    BY <2>2, <2>3, <1>c DEF Overloaded, Account!Void, Account!Step
  <2>4. CASE Admit(r)
    BY <2>2, <2>4, <1>c DEF Admit, reserveBudget, Account!Reserve, Account!Step
  <2> QED
    BY <1>1, <2>1, <2>3, <2>4 DEF Execute
<1>2. CASE \/ \E r \in Requests : Proceed(r) \/ WriteFails(r) \/ HungClientLeaves(r)
           \/ \E p \in Probes : ProbeStarts(p) \/ ProbeEnds(p)
           \/ Shutdown \/ Exit \/ Crash
  BY <1>2, <1>r, PipelineResolves DEF Account!Step
<1>3. CASE Restart \/ Maintenance
  <2>1. Account!Purge
    BY <1>3, <1>c DEF Restart, Maintenance, maintain, NoRow, Day, Account!Purge,
       Account!Absent, Account!DayOf
  <2> QED
    BY <2>1 DEF Account!Step
<1>4. CASE Tick
  BY <1>4, <1>c DEF Tick, Account!Advance, Account!Step
<1>5. CASE UNCHANGED vars
  BY <1>5, <1>s DEF vars
<1> QED
  BY <1>1, <1>2, <1>3, <1>4, <1>5 DEF Next

\* Admissions, streams, failures, crashes and maintenance of the pipeline keep
\* the promises of the account, for any number of requests and any budgets.
THEOREM AccountKept == Spec => ImplementsAccount
<1>1. Init => Account!Start
  <2> SUFFICES ASSUME Init PROVE Account!Start
    OBVIOUS
  <2>1. TypeOK
    BY Initially DEF IInv
  <2>2. [r \in Requests |-> Tenant(r)] \in [Requests -> Tenants]
    BY <2>1, CallType
  <2>3. [r \in Requests |-> Estimate[call[r].body]] \in [Requests -> Nat]
    BY <2>1, CallType
  <2> QED
    BY <2>2, <2>3 DEF Init, NoRow, Account!Start, Account!Absent
<1>2. IInv /\ IInv' /\ [Next]_vars => [Account!Step]_(Account!accountVars)
  BY AccountStep
<1> QED
  BY <1>1, <1>2, Invariance, PTL DEF Spec, ImplementsAccount, Account!Spec

-----------------------------------------------------------------------------
(***************************************************************************)
(* The idempotency keys.  A row of idempotency_keys has no owner; the      *)
(* proofs show that it needs none.  Their inductive invariant: timers end  *)
(* a request before its claim can expire (Young), so the row is its own as *)
(* long as it is in flight.                                                *)
(***************************************************************************)
SameKey(q, r) == Tenant(q) = Tenant(r) /\ call[q].key = call[r].key
Until(r)      == usage[r].at + DayLength

\* r was answered under its key and is charged for it.
Paid(r) == HasKey(r) /\ answer[r] = "ok" /\ usage[r].state = "settled"

\* A request in flight is younger than two ticks, hence than its claim.
Young == \A r \in Requests : Live(r) => now <= usage[r].at + 1

\* An answer ends its request: the pipeline does not touch it again.
AnsweredIsDone == \A r \in Requests : answer[r] = "ok" => stage[r] = "done"

\* The row of a key is the claim of the request in flight ...
LiveClaims ==
  \A r \in Requests : Live(r) /\ HasKey(r) =>
    Claim(r).state = "pending" /\ Claim(r).body = call[r].body /\ Claim(r).expires = Until(r)

\* ... and then, as long as it does not expire, its answer.
PaidClaims ==
  \A r \in Requests : Paid(r) /\ now < Until(r) =>
    Claim(r).state = "stored" /\ Claim(r).expires = Until(r)

\* The stored answer is of a request with this key and body that was answered
\* and, while it can be replayed, is charged for it.
Stored(t, k) ==
  LET row == idem[t][k]
  IN  /\ row.by \in Requests
      /\ Tenant(row.by) = t /\ call[row.by].key = k /\ call[row.by].body = row.body
      /\ answer[row.by] = "ok"
      /\ ~Expired(row) => usage[row.by].state = "settled" /\ row.expires = Until(row.by)

StoredClaims == \A t \in Tenants, k \in Keys : idem[t][k].state = "stored" => Stored(t, k)

\* Whoever claims a key again was admitted after the answer expired.
Spaced ==
  \A q, r \in Requests :
    q # r /\ Paid(r) /\ Live(q) /\ SameKey(q, r) => usage[q].at >= Until(r)

\* Two requests that paid under one key are the life of the key apart.
Apart ==
  \A q, r \in Requests :
    q # r /\ Paid(q) /\ Paid(r) /\ SameKey(q, r) =>
      usage[q].at >= Until(r) \/ usage[r].at >= Until(q)

KeyInv ==
  /\ SingleFlight /\ PendingHasOwner /\ Apart
  /\ Young /\ AnsweredIsDone /\ LiveClaims /\ PaidClaims /\ StoredClaims /\ Spaced

-----------------------------------------------------------------------------
(***************************************************************************)
(* Writes of idempotency_keys change one row.                              *)
(***************************************************************************)
LEMMA KeyFacts ==
  ASSUME TypeOK, NEW r \in Requests
  PROVE  /\ Tenant(r) \in Tenants /\ call[r].key \in Keys \cup {NoKey}
         /\ HasKey(r) <=> call[r].key \in Keys
BY CallType, SetsAssumption DEF HasKey

LEMMA WithClaimAt ==
  ASSUME TypeOK, NEW r \in Requests, NEW row, NEW t \in Tenants, NEW k \in Keys
  PROVE  WithClaim(r, row)[t][k] =
           IF Tenant(r) = t /\ call[r].key = k THEN row ELSE idem[t][k]
<1>1. idem \in [Tenants -> [Keys -> IdemRow]]
  BY DEF TypeOK
<1> QED
  BY <1>1, KeyFacts DEF WithClaim

\* The row with the answer of r.
AnswerRow(r) == [Claim(r) EXCEPT !.state = "stored", !.by = r]

LEMMA CompleteAt ==
  ASSUME TypeOK, NEW r \in Requests, NEW t \in Tenants, NEW k \in Keys
  PROVE  /\ complete(r)[t][k] = IF Matching(r) /\ Tenant(r) = t /\ call[r].key = k
                                THEN AnswerRow(r) ELSE idem[t][k]
         /\ abandon(r)[t][k] = IF Matching(r) /\ Tenant(r) = t /\ call[r].key = k
                               THEN NoClaim ELSE idem[t][k]
BY WithClaimAt DEF complete, abandon, AnswerRow

\* The row of a request is one of the table, and of its type.
LEMMA ClaimIs ==
  ASSUME TypeOK, NEW r \in Requests, HasKey(r)
  PROVE  /\ Claim(r) = idem[Tenant(r)][call[r].key] /\ Claim(r) \in IdemRow
         /\ Tenant(r) \in Tenants /\ call[r].key \in Keys
BY KeyFacts DEF Claim, TypeOK

LEMMA AnswerRowIs ==
  ASSUME TypeOK, NEW r \in Requests, HasKey(r)
  PROVE  /\ AnswerRow(r).state = "stored" /\ AnswerRow(r).by = r
         /\ AnswerRow(r).body = Claim(r).body /\ AnswerRow(r).expires = Claim(r).expires
BY ClaimIs DEF AnswerRow, IdemRow

\* Whoever becomes the owner of a key meets no claim of a request in flight
\* and no answer that has not expired.
LEMMA OwnerIsAlone ==
  ASSUME IInv, KeyInv, NEW r \in Requests, Owner(r), HasKey(r),
         NEW x \in Requests, SameKey(x, r)
  PROVE  ~Live(x) /\ (Paid(x) => Until(x) <= now)
<1>1. /\ Claim(x) = Claim(r) /\ HasKey(x) /\ Claim(r) \in IdemRow
      /\ now \in Nat /\ usage[x].at \in Nat
  BY ClaimIs DEF IInv, TypeOK, SameKey, HasKey, Claim, Row
<1>2. Claim(r).state = "absent" \/ Claim(r).expires <= now
  BY DEF Owner, claim, Expired
<1>3. Live(x) => Claim(r).state = "pending" /\ Claim(r).expires = Until(x) /\ now <= usage[x].at + 1
  BY <1>1 DEF KeyInv, LiveClaims, Young
<1>4. ~Live(x)
  BY <1>1, <1>2, <1>3, TimeAssumption DEF Until
<1>5. Paid(x) /\ now < Until(x) => Claim(r).state = "stored" /\ Claim(r).expires = Until(x)
  BY <1>1 DEF KeyInv, PaidClaims
<1> QED
  BY <1>1, <1>2, <1>4, <1>5, TimeAssumption DEF Until

-----------------------------------------------------------------------------
(***************************************************************************)
(* Steps that write no key: nothing they do concerns who owns one.         *)
(***************************************************************************)
Quiet ==
  /\ UNCHANGED <<call, idem, now>>
  /\ faulty \subseteq faulty'
  /\ \A x \in Requests :
       /\ usage'[x].at = usage[x].at
       /\ Live(x)' => Live(x)
       /\ Live(x) /\ HasKey(x) => Live(x)' \/ stage'[x] = "lost"
       /\ stage[x] \in {"lost", "done"} => stage'[x] = stage[x]
       /\ answer'[x] = "ok" => stage'[x] = "done"
       /\ HasKey(x) => /\ answer'[x] = "ok" <=> answer[x] = "ok"
                       /\ usage'[x].state = "settled" <=> usage[x].state = "settled"

LEMMA QuietKeeps ==
  ASSUME IInv, KeyInv, Quiet
  PROVE  KeyInv'
<1> USE DEF KeyInv, Quiet
<1>1. \A x \in Requests : /\ Tenant(x)' = Tenant(x) /\ HasKey(x)' = HasKey(x)
                          /\ Claim(x)' = Claim(x) /\ Until(x)' = Until(x)
                          /\ Paid(x)' = Paid(x)
  BY DEF Tenant, HasKey, Claim, Until, Paid
<1>2. \A q, r \in Requests : SameKey(q, r)' = SameKey(q, r)
  BY DEF SameKey, Tenant
<1>3. SingleFlight'
  BY <1>1 DEF SingleFlight
<1>4. PendingHasOwner'
  <2> SUFFICES ASSUME NEW t \in Tenants, NEW k \in Keys, (idem[t][k].state = "pending")'
               PROVE  (\E r \in Requests :
                         /\ Tenant(r) = t /\ call[r].key = k /\ call[r].body = idem[t][k].body
                         /\ Live(r) \/ stage[r] = "lost" \/ r \in faulty)'
    BY DEF PendingHasOwner
  <2>1. PICK r \in Requests :
          /\ Tenant(r) = t /\ call[r].key = k /\ call[r].body = idem[t][k].body
          /\ Live(r) \/ stage[r] = "lost" \/ r \in faulty
    BY DEF PendingHasOwner
  <2>2. HasKey(r)
    BY <2>1, SetsAssumption DEF HasKey
  <2>3. Live(r)' \/ stage'[r] = "lost" \/ r \in faulty'
    BY <2>1, <2>2
  <2>4. Tenant(r)' = t /\ call'[r].key = k /\ call'[r].body = idem'[t][k].body
    BY <2>1 DEF Tenant
  <2> QED
    BY <2>3, <2>4
<1>5. Apart'
  BY <1>1, <1>2 DEF Apart
<1>6. Young' /\ AnsweredIsDone'
  BY DEF Young, AnsweredIsDone
<1>7. LiveClaims' /\ PaidClaims' /\ Spaced'
  BY <1>1, <1>2 DEF LiveClaims, PaidClaims, Spaced
<1>8. StoredClaims'
  <2> SUFFICES ASSUME NEW t \in Tenants, NEW k \in Keys, (idem[t][k].state = "stored")'
               PROVE  Stored(t, k)'
    BY DEF StoredClaims
  <2>1. Stored(t, k) /\ idem'[t][k] = idem[t][k]
    BY DEF StoredClaims
  <2>2. LET x == idem[t][k].by
        IN  x \in Requests /\ HasKey(x)
    BY <2>1, SetsAssumption DEF HasKey, Stored
  <2>3. Tenant(idem[t][k].by)' = Tenant(idem[t][k].by)
    BY DEF Tenant
  <2> QED
    BY <2>1, <2>2, <2>3, <1>1 DEF Stored, Expired
<1> QED
  BY <1>3, <1>4, <1>5, <1>6, <1>7, <1>8

LEMMA ReleaseKeepsTime ==
  ASSUME NEW rows \in [Requests -> Row], NEW S, NEW x \in Requests
  PROVE  releaseBudget(rows, S)[x].at = rows[x].at
BY DEF releaseBudget, Row

LEMMA AtKept ==
  ASSUME TypeOK, NEW r \in Requests, NEW actual \in Actuals,
         NEW rows \in {usage, settleBudget(r, actual)}, NEW S, NEW x \in Requests
  PROVE  /\ rows[x].at = usage[x].at
         /\ releaseBudget(rows, S)[x].at = usage[x].at
<1>1. usage \in [Requests -> Row] /\ rows \in [Requests -> Row]
  BY UsageType DEF TypeOK
<1>2. rows[x].at = usage[x].at
  BY <1>1 DEF settleBudget, Row
<1> QED
  BY <1>1, <1>2, ReleaseKeepsTime

\* What ends a stream, or every request at once, is quiet: a stream has no key,
\* and a request the process dies under is lost.
LEMMA QuietSteps ==
  ASSUME IInv, AnsweredIsDone, NEW r \in Requests,
         \/ RefuseKeyedStream(r) \/ NotOwner(r)
         \/ HeadersArrive(r) \/ StreamOpens(r) \/ UpstreamDone(r) \/ PullRejects(r)
         \/ StreamErrors(r) \/ CloseStream(r) \/ CancelSettles(r)
         \/ \E actual \in Actuals : \/ StreamEnds(r, actual) \/ StreamEndsWriteFails(r, actual)
                                    \/ StreamEndsWriteFailsClosing(r, actual)
         \/ HungClientLeaves(r)
  PROVE  Quiet
<1> USE DEF process, database, bounds, Live, InFlight, Awaiting, Streaming, Aborting
<1>0. /\ stage \in [Requests -> Stages] /\ answer \in [Requests -> Answers]
      /\ usage \in [Requests -> Row] /\ faulty \subseteq Requests /\ TypeOK
      /\ registered \subseteq Requests
  BY DEF TypeOK, IInv
<1>1. /\ registered = {x \in Requests : Streaming(x)}
      /\ \A x \in Requests : /\ Streaming(x) => ~HasKey(x)
                             /\ Live(x) \/ stage[x] = "new" => answer[x] = "none"
                             /\ answer[x] = "ok" => stage[x] = "done"
  BY DEF IInv, Places, AnsweredIsDone
<1>2. CASE RefuseKeyedStream(r) \/ NotOwner(r)
  BY <1>0, <1>1, <1>2 DEF Quiet, RefuseKeyedStream, NotOwner, Arriving, Answered
<1>3. CASE HeadersArrive(r) \/ StreamOpens(r) \/ UpstreamDone(r) \/ PullRejects(r)
  BY <1>0, <1>1, <1>3 DEF Quiet, HeadersArrive, StreamOpens, UpstreamDone, PullRejects
<1>4. ASSUME NEW S \in SUBSET Requests, finalizeFailure(S), NEW x \in Requests
      PROVE  /\ usage'[x].at = usage[x].at
             /\ usage'[x].state = "settled" <=> usage[x].state = "settled"
  BY <1>0, <1>4, ReleaseFacts, ReleaseKeepsTime DEF finalizeFailure
<1>5. CASE StreamErrors(r)
  BY <1>0, <1>1, <1>4, <1>5 DEF Quiet, StreamErrors, Answered
<1>6. CASE CloseStream(r)
  BY <1>0, <1>1, <1>4, <1>6 DEF Quiet, CloseStream, closeStreams, Closed
<1>7. CASE HungClientLeaves(r)
  BY <1>0, <1>1, <1>4, <1>7 DEF Quiet, HungClientLeaves, closeStreams, Closed
<1>8. CASE CancelSettles(r)
  BY <1>0, <1>1, <1>4, <1>8 DEF Quiet, CancelSettles
<1>9. ASSUME NEW actual \in Actuals, StreamEnds(r, actual) PROVE Quiet
  <2>1. \A x \in Requests : usage'[x].at = usage[x].at
    BY <1>0, <1>9, AtKept DEF StreamEnds
  <2>2. \A x \in Requests \ {r} : usage'[x].state = usage[x].state
    BY <1>0, <1>9, SettleFacts DEF StreamEnds
  <2> QED
    BY <1>0, <1>1, <1>9, <2>1, <2>2 DEF Quiet, StreamEnds, Answered
<1>10. ASSUME NEW actual \in Actuals, StreamEndsWriteFails(r, actual) PROVE Quiet
  <2>1. \A x \in Requests : usage'[x].at = usage[x].at
    BY <1>0, <1>10, AtKept DEF StreamEndsWriteFails
  <2>2. \A x \in Requests \ {r} : usage'[x].state = "settled" <=> usage[x].state = "settled"
    BY <1>0, <1>10, FaultFacts DEF StreamEndsWriteFails
  <2> QED
    BY <1>0, <1>1, <1>10, <2>1, <2>2 DEF Quiet, StreamEndsWriteFails, Closed
<1>11. ASSUME NEW actual \in Actuals, StreamEndsWriteFailsClosing(r, actual) PROVE Quiet
  <2>1. \A x \in Requests : usage'[x].at = usage[x].at
    BY <1>0, <1>11, AtKept DEF StreamEndsWriteFailsClosing
  <2>2. \A x \in Requests \ {r} : usage'[x].state = usage[x].state
    BY <1>0, <1>11, SettleFacts DEF StreamEndsWriteFailsClosing
  <2> QED
    BY <1>0, <1>1, <1>11, <2>1, <2>2
       DEF Quiet, StreamEndsWriteFailsClosing, ProcessDies, AfterDeath
<1> QED
  BY <1>2, <1>3, <1>5, <1>6, <1>7, <1>8, <1>9, <1>10, <1>11

LEMMA QuietProcess ==
  ASSUME IInv, AnsweredIsDone,
         \/ \E p \in Probes : ProbeStarts(p) \/ ProbeEnds(p)
         \/ Shutdown \/ Exit \/ Crash \/ UNCHANGED vars
  PROVE  Quiet
<1> USE DEF process, database, bounds, Live, InFlight, Awaiting, Streaming, Aborting
<1>0. /\ stage \in [Requests -> Stages] /\ answer \in [Requests -> Answers]
      /\ usage \in [Requests -> Row] /\ registered \subseteq Requests
      /\ \A x \in Requests : answer[x] = "ok" => stage[x] = "done"
  BY DEF TypeOK, IInv, AnsweredIsDone
<1>1. CASE \/ \E p \in Probes : ProbeStarts(p) \/ ProbeEnds(p)
           \/ UNCHANGED vars
  BY <1>0, <1>1 DEF Quiet, ProbeStarts, ProbeEnds, vars
<1>2. CASE Shutdown
  <2>1. \A x \in Requests : Streaming(x) => ~HasKey(x)
    BY DEF IInv, Places
  <2>2. registered = {x \in Requests : Streaming(x)}
    BY DEF IInv, Places
  <2>3. ASSUME NEW x \in Requests
        PROVE  /\ usage'[x].at = usage[x].at
               /\ usage'[x].state = "settled" <=> usage[x].state = "settled"
    BY <1>0, <1>2, ReleaseFacts, ReleaseKeepsTime
       DEF Shutdown, closeStreams, finalizeFailure
  <2> QED
    BY <1>0, <1>2, <2>1, <2>2, <2>3 DEF Quiet, Shutdown, closeStreams, Closed
<1>3. CASE Exit \/ Crash
  BY <1>0, <1>3 DEF Quiet, Exit, Crash, AfterDeath
<1> QED
  BY <1>1, <1>2, <1>3

-----------------------------------------------------------------------------
(***************************************************************************)
(* Steps of one request: it becomes the owner of its key, withdraws, or    *)
(* stores its answer.  Nobody else has a stake in the key then (Alone).    *)
(***************************************************************************)
Alone(r) ==
  \A x \in Requests \ {r} : HasKey(r) /\ SameKey(x, r) =>
    ~Live(x) /\ (Paid(x) => Until(x) <= now)

Own(r) ==
  /\ UNCHANGED <<call, now>> /\ faulty \subseteq faulty'
  /\ \A x \in Requests \ {r} :
       stage'[x] = stage[x] /\ answer'[x] = answer[x] /\ usage'[x] = usage[x]
  /\ \A t \in Tenants, k \in Keys :
       ~(Tenant(r) = t /\ call[r].key = k) => idem'[t][k] = idem[t][k]

NewRow(r) == idem'[Tenant(r)][call[r].key]

Begins(r) ==
  /\ stage'[r] = "fetching" /\ answer'[r] = "none" /\ usage'[r].at = now
  /\ HasKey(r) => /\ NewRow(r).state = "pending" /\ NewRow(r).body = call[r].body
                  /\ NewRow(r).expires = now + DayLength

Withdraws(r) ==
  /\ stage'[r] = "done" /\ answer'[r] # "ok"
  /\ HasKey(r) => \/ NewRow(r).state = "absent"
                  \/ Live(r) /\ r \in faulty' /\ NewRow(r) = Claim(r)

Succeeds(r) ==
  /\ Live(r) /\ stage'[r] = "done" /\ answer'[r] = "ok"
  /\ usage'[r].state = "settled" /\ usage'[r].at = usage[r].at
  /\ HasKey(r) => NewRow(r) = AnswerRow(r)

LEMMA LiveIsAlone ==
  ASSUME IInv, KeyInv, NEW r \in Requests, Live(r)
  PROVE  Alone(r)
<1> SUFFICES ASSUME NEW x \in Requests \ {r}, HasKey(r), SameKey(x, r)
             PROVE  ~Live(x) /\ (Paid(x) => Until(x) <= now)
  BY DEF Alone
<1>1. ~Live(x)
  BY DEF KeyInv, SingleFlight, SameKey
<1>2. Claim(x) = Claim(r) /\ now \in Nat /\ Until(x) \in Nat
  BY TimeAssumption DEF SameKey, Claim, Until, IInv, TypeOK, Row
<1>3. Claim(r).state = "pending"
  BY DEF KeyInv, LiveClaims
<1>4. ~(Paid(x) /\ now < Until(x))
  BY <1>2, <1>3 DEF KeyInv, PaidClaims
<1> QED
  BY <1>1, <1>2, <1>4

LEMMA OwnStep ==
  ASSUME IInv, KeyInv, NEW r \in Requests, Alone(r), Own(r),
         Begins(r) \/ Withdraws(r) \/ Succeeds(r)
  PROVE  KeyInv'
<1>1. /\ \A x \in Requests : /\ Tenant(x)' = Tenant(x) /\ HasKey(x)' = HasKey(x)
                             /\ Tenant(x) \in Tenants
                             /\ HasKey(x) <=> call[x].key \in Keys
      /\ \A x, y \in Requests : SameKey(x, y)' = SameKey(x, y)
  BY KeyFacts DEF IInv, Own, Tenant, HasKey, SameKey
<1>2. /\ call' = call /\ now' = now /\ faulty \subseteq faulty' /\ now \in Nat
      /\ \A x \in Requests \ {r} :
           /\ stage'[x] = stage[x] /\ answer'[x] = answer[x] /\ usage'[x] = usage[x]
           /\ Live(x)' = Live(x) /\ Paid(x)' = Paid(x) /\ Until(x)' = Until(x)
  BY <1>1 DEF Own, Live, Paid, Until, IInv, TypeOK
<1>3. \A x \in Requests \ {r} : HasKey(x) /\ ~SameKey(x, r) => Claim(x)' = Claim(x)
  BY <1>1, <1>2 DEF Claim, Own, SameKey, Tenant
<1>4. \A x \in Requests \ {r} : HasKey(x) /\ SameKey(x, r) =>
        HasKey(r) /\ ~Live(x) /\ (Paid(x) => Until(x) <= now)
  BY <1>1 DEF Alone, SameKey
<1>5. Claim(r)' = NewRow(r) /\ (HasKey(r) => NewRow(r) = idem'[Tenant(r)][call[r].key])
  BY <1>1, <1>2 DEF Claim, NewRow
<1>6. /\ Begins(r) => Live(r)' /\ ~Paid(r)' /\ Until(r)' = now + DayLength
      /\ Withdraws(r) => ~Live(r)' /\ ~Paid(r)'
      /\ Succeeds(r) => ~Live(r)' /\ Until(r)' = Until(r)
  BY <1>2 DEF Begins, Withdraws, Succeeds, Live, InFlight, Awaiting, Paid, Until
<1>7. SingleFlight'
  <2> SUFFICES ASSUME NEW x \in Requests, NEW y \in Requests, x # y, Live(x)', Live(y)',
                      Tenant(x)' = Tenant(y)', HasKey(x)'
               PROVE  call'[x].key # call'[y].key
    BY DEF SingleFlight
  <2>1. CASE x # r /\ y # r
    BY <2>1, <1>1, <1>2 DEF KeyInv, SingleFlight
  <2>2. CASE x = r
    BY <2>2, <1>1, <1>2, <1>4 DEF SameKey, HasKey
  <2>3. CASE y = r
    BY <2>3, <1>1, <1>2, <1>4 DEF SameKey
  <2> QED
    BY <2>1, <2>2, <2>3
<1>8. PendingHasOwner'
  <2> SUFFICES ASSUME NEW t \in Tenants, NEW k \in Keys, idem'[t][k].state = "pending"
               PROVE  (\E x \in Requests :
                         /\ Tenant(x) = t /\ call[x].key = k /\ call[x].body = idem[t][k].body
                         /\ Live(x) \/ stage[x] = "lost" \/ x \in faulty)'
    BY DEF PendingHasOwner
  <2>1. CASE Tenant(r) = t /\ call[r].key = k
    <3>1. HasKey(r) /\ NewRow(r) = idem'[t][k]
      BY <2>1, <1>1 DEF NewRow
    <3>2. ~Succeeds(r)
      BY <3>1, AnswerRowIs DEF Succeeds, IInv
    <3>3. call[r].body = idem'[t][k].body /\ (Live(r)' \/ r \in faulty')
      BY <3>1, <3>2, <1>6 DEF Begins, Withdraws, KeyInv, LiveClaims
    <3> QED
      BY <2>1, <3>3, <1>1, <1>2
  <2>2. CASE ~(Tenant(r) = t /\ call[r].key = k)
    <3>1. idem'[t][k] = idem[t][k]
      BY <2>2 DEF Own
    <3>2. PICK x \in Requests :
            /\ Tenant(x) = t /\ call[x].key = k /\ call[x].body = idem[t][k].body
            /\ Live(x) \/ stage[x] = "lost" \/ x \in faulty
      BY <3>1 DEF KeyInv, PendingHasOwner
    <3>3. Live(x)' \/ stage'[x] = "lost" \/ x \in faulty'
      BY <2>2, <3>2, <1>2
    <3> QED
      BY <3>1, <3>2, <3>3, <1>1, <1>2
  <2> QED
    BY <2>1, <2>2
<1>9. Apart' /\ Spaced'
  <2>1. ASSUME NEW x \in Requests \ {r}, Paid(x), SameKey(x, r) \/ SameKey(r, x), HasKey(r)
        PROVE  /\ SameKey(r, x) /\ HasKey(x)
               /\ Begins(r) => usage'[r].at >= Until(x)
               /\ Succeeds(r) => usage'[r].at >= Until(x)
    <3>1. SameKey(r, x) /\ SameKey(x, r) /\ HasKey(x)
      BY <2>1 DEF SameKey, HasKey
    <3>2. Until(x) <= now
      BY <2>1, <3>1, <1>4
    <3>3. Until(x) \in Nat
      BY TimeAssumption DEF Until, IInv, TypeOK, Row
    <3>4. Succeeds(r) => usage'[r].at >= Until(x)
      BY <2>1, <3>1 DEF Succeeds, KeyInv, Spaced
    <3> QED
      BY <3>1, <3>2, <3>3, <3>4, <1>2 DEF Begins
  <2>2. Apart'
    <3> SUFFICES ASSUME NEW x \in Requests, NEW y \in Requests, x # y, Paid(x)', Paid(y)',
                        SameKey(x, y)
                 PROVE  (usage[x].at >= Until(y) \/ usage[y].at >= Until(x))'
      BY <1>1 DEF Apart
    <3>1. CASE x # r /\ y # r
      BY <3>1, <1>2 DEF KeyInv, Apart
    <3>2. CASE x = r \/ y = r
      BY <3>2, <2>1, <1>1, <1>2, <1>6 DEF Paid
    <3> QED
      BY <3>1, <3>2
  <2>3. Spaced'
    <3> SUFFICES ASSUME NEW x \in Requests, NEW y \in Requests, x # y, Paid(y)', Live(x)',
                        SameKey(x, y)
                 PROVE  (usage[x].at >= Until(y))'
      BY <1>1 DEF Spaced
    <3>1. CASE x # r /\ y # r
      BY <3>1, <1>2 DEF KeyInv, Spaced
    <3>2. CASE x = r
      <4>1. Paid(y) /\ HasKey(y) /\ HasKey(r)
        BY <3>2, <1>1, <1>2 DEF Paid, SameKey, HasKey
      <4> QED
        BY <3>2, <4>1, <2>1, <1>2, <1>6
    <3>3. CASE y = r
      <4>1. HasKey(r) /\ SameKey(x, r) /\ HasKey(x) /\ Live(x)
        BY <3>3, <1>1, <1>2 DEF Paid, SameKey, HasKey
      <4> QED
        BY <3>3, <4>1, <1>4
    <3> QED
      BY <3>1, <3>2, <3>3
  <2> QED
    BY <2>2, <2>3
<1>10. Young'
  <2>1. \A x \in Requests \ {r} : Live(x)' => now' <= usage'[x].at + 1
    BY <1>2 DEF KeyInv, Young
  <2> QED
    BY <2>1, <1>2, <1>6 DEF Young, Begins
<1>11. AnsweredIsDone'
  BY <1>2 DEF AnsweredIsDone, KeyInv, Begins, Withdraws, Succeeds
<1>12. LiveClaims'
  <2>1. ASSUME NEW x \in Requests \ {r}, Live(x)', HasKey(x)
        PROVE  /\ Claim(x)' = Claim(x) /\ Claim(x).state = "pending"
               /\ Claim(x).body = call[x].body /\ Claim(x).expires = Until(x)
    BY <2>1, <1>2, <1>3, <1>4 DEF KeyInv, LiveClaims
  <2>2. Live(r)' /\ HasKey(r) => /\ NewRow(r).state = "pending" /\ NewRow(r).body = call[r].body
                                 /\ NewRow(r).expires = Until(r)'
    BY <1>6 DEF Begins
  <2> QED
    BY <2>1, <2>2, <1>1, <1>2, <1>5 DEF LiveClaims
<1>13. PaidClaims'
  <2>1. ASSUME NEW x \in Requests \ {r}, Paid(x)', now < Until(x)
        PROVE  Claim(x)' = Claim(x) /\ Claim(x).state = "stored" /\ Claim(x).expires = Until(x)
    <3>1. HasKey(x) /\ Paid(x) /\ Until(x) \in Nat
      BY <2>1, <1>2, TimeAssumption DEF Paid, Until, IInv, TypeOK, Row
    <3> QED
      BY <2>1, <3>1, <1>2, <1>3, <1>4 DEF KeyInv, PaidClaims
  <2>2. Paid(r)' => NewRow(r).state = "stored" /\ NewRow(r).expires = Until(r)'
    <3>1. Paid(r)' => Succeeds(r) /\ HasKey(r)
      BY <1>1, <1>6 DEF Paid
    <3>2. HasKey(r) => AnswerRow(r).state = "stored" /\ AnswerRow(r).expires = Claim(r).expires
      BY AnswerRowIs DEF IInv
    <3>3. Succeeds(r) /\ HasKey(r) => Claim(r).expires = Until(r)
      BY DEF Succeeds, KeyInv, LiveClaims
    <3> QED
      BY <3>1, <3>2, <3>3, <1>6 DEF Succeeds
  <2> QED
    BY <2>1, <2>2, <1>2, <1>5 DEF PaidClaims
<1>14. StoredClaims'
  <2> SUFFICES ASSUME NEW t \in Tenants, NEW k \in Keys, idem'[t][k].state = "stored"
               PROVE  Stored(t, k)'
    BY DEF StoredClaims
  <2>1. CASE Tenant(r) = t /\ call[r].key = k
    <3>1. HasKey(r) /\ NewRow(r) = idem'[t][k]
      BY <2>1, <1>1 DEF NewRow
    <3>2. Live(r) => Claim(r).state = "pending" /\ Claim(r).body = call[r].body
                     /\ Claim(r).expires = Until(r)
      BY <3>1 DEF KeyInv, LiveClaims
    <3>3. Succeeds(r)
      BY <3>1, <3>2 DEF Begins, Withdraws
    <3>4. /\ idem'[t][k].by = r /\ idem'[t][k].body = call[r].body
          /\ idem'[t][k].expires = Until(r)'
      BY <3>1, <3>2, <3>3, <1>6, AnswerRowIs DEF Succeeds, IInv
    <3>5. answer'[r] = "ok" /\ usage'[r].state = "settled"
      BY <3>3 DEF Succeeds
    <3> QED
      BY <2>1, <3>4, <3>5, <1>1, <1>2 DEF Stored
  <2>2. CASE ~(Tenant(r) = t /\ call[r].key = k)
    <3>1. idem'[t][k] = idem[t][k]
      BY <2>2 DEF Own
    <3>2. Stored(t, k)
      BY <3>1 DEF KeyInv, StoredClaims
    <3>3. idem[t][k].by \in Requests \ {r}
      BY <2>2, <3>2 DEF Stored
    <3> QED
      BY <3>1, <3>2, <3>3, <1>1, <1>2 DEF Stored, Expired
  <2> QED
    BY <2>1, <2>2
<1> QED
  BY <1>7, <1>8, <1>9, <1>10, <1>11, <1>12, <1>13, <1>14 DEF KeyInv

\* Admission, and a refusal after the key was claimed.
LEMMA OwnerStep ==
  ASSUME IInv, KeyInv, NEW r \in Requests, OverBudget(r) \/ Overloaded(r) \/ Admit(r)
  PROVE  KeyInv'
<1> USE DEF process, database, bounds
<1>0. /\ TypeOK /\ stage \in [Requests -> Stages] /\ answer \in [Requests -> Answers]
      /\ usage \in [Requests -> Row] /\ Owner(r) /\ answer[r] = "none"
  BY DEF IInv, TypeOK, OverBudget, Overloaded, Admit, Owner, Arriving, Places
<1>1. Alone(r)
  BY <1>0, OwnerIsAlone DEF Alone
<1>2. HasKey(r) => /\ Claimed(r)[Tenant(r)][call[r].key].state = "pending"
                   /\ Claimed(r)[Tenant(r)][call[r].key].body = call[r].body
                   /\ Claimed(r)[Tenant(r)][call[r].key].expires = now + DayLength
                   /\ ClaimedAndAbandoned(r)[Tenant(r)][call[r].key].state = "absent"
  BY <1>0, KeyFacts, WithClaimAt DEF Claimed, ClaimedAndAbandoned, NoClaim
<1>3. \A t \in Tenants, k \in Keys : ~(Tenant(r) = t /\ call[r].key = k) =>
        Claimed(r)[t][k] = idem[t][k] /\ ClaimedAndAbandoned(r)[t][k] = idem[t][k]
  BY <1>0, WithClaimAt DEF Claimed, ClaimedAndAbandoned
<1>4. CASE OverBudget(r) \/ Overloaded(r)
  <2>1. Own(r)
    BY <1>0, <1>3, <1>4 DEF Own, OverBudget, Overloaded, Answered
  <2>2. Withdraws(r)
    BY <1>0, <1>2, <1>4 DEF Withdraws, NewRow, OverBudget, Overloaded, Answered
  <2> QED
    BY <1>1, <2>1, <2>2, OwnStep
<1>5. CASE Admit(r)
  <2>1. Own(r)
    BY <1>0, <1>3, <1>5 DEF Own, Admit, reserveBudget
  <2>2. Begins(r)
    BY <1>0, <1>2, <1>5 DEF Begins, NewRow, Admit, reserveBudget
  <2> QED
    BY <1>1, <2>1, <2>2, OwnStep
<1> QED
  BY <1>4, <1>5

\* The end of a call without a stream, and of a stream that never opened.
LEMMA EndStep ==
  ASSUME IInv, KeyInv, NEW r \in Requests,
         \/ FetchRejects(r) \/ UpstreamRefusesStream(r) \/ BodyUnusable(r)
         \/ \E actual \in Actuals : BodyArrives(r, actual) \/ BodyArrivesWriteFails(r, actual)
  PROVE  KeyInv'
<1> USE DEF process, database, bounds
<1>0. /\ TypeOK /\ stage \in [Requests -> Stages] /\ answer \in [Requests -> Answers]
      /\ usage \in [Requests -> Row] /\ Live(r) /\ usage[r].state = "reserved"
  BY DEF IInv, TypeOK, Accounting, ReservedHasOwner, Live, InFlight, Awaiting, FetchRejects,
     UpstreamRefusesStream, BodyUnusable, BodyArrives, BodyArrivesWriteFails
<1>1. Alone(r)
  BY <1>0, LiveIsAlone
<1>2. HasKey(r) => Matching(r)
  BY <1>0 DEF Matching, KeyInv, LiveClaims
<1>3. /\ HasKey(r) => /\ abandon(r)[Tenant(r)][call[r].key].state = "absent"
                      /\ complete(r)[Tenant(r)][call[r].key] = AnswerRow(r)
      /\ \A t \in Tenants, k \in Keys : ~(Tenant(r) = t /\ call[r].key = k) =>
           abandon(r)[t][k] = idem[t][k] /\ complete(r)[t][k] = idem[t][k]
  <2>1. HasKey(r) => Tenant(r) \in Tenants /\ call[r].key \in Keys
    BY <1>0, KeyFacts
  <2>2. ASSUME NEW t \in Tenants, NEW k \in Keys
        PROVE  /\ Matching(r) /\ Tenant(r) = t /\ call[r].key = k =>
                    /\ abandon(r)[t][k] = NoClaim
                    /\ complete(r)[t][k] = AnswerRow(r)
               /\ ~(Tenant(r) = t /\ call[r].key = k) =>
                    abandon(r)[t][k] = idem[t][k] /\ complete(r)[t][k] = idem[t][k]
    BY <1>0, CompleteAt
  <2>3. HasKey(r) =>
          /\ abandon(r)[Tenant(r)][call[r].key] = NoClaim
          /\ complete(r)[Tenant(r)][call[r].key] = AnswerRow(r)
    BY <1>2, <2>1, <2>2
  <2> QED
    BY <2>2, <2>3 DEF NoClaim
<1>4. CASE FetchRejects(r) \/ UpstreamRefusesStream(r) \/ BodyUnusable(r)
  <2>0. GiveUp(r)
    BY <1>4 DEF FetchRejects, UpstreamRefusesStream, BodyUnusable
  <2>1. Own(r)
    BY <1>0, <1>3, <2>0 DEF Own, GiveUp, Answered, releaseBudget
  <2>2. Withdraws(r)
    BY <1>0, <1>3, <2>0 DEF Withdraws, NewRow, GiveUp, Answered
  <2> QED
    BY <1>1, <2>1, <2>2, OwnStep
<1>5. ASSUME NEW actual \in Actuals, BodyArrives(r, actual) PROVE KeyInv'
  <2>1. Own(r)
    BY <1>0, <1>3, <1>5 DEF Own, BodyArrives, Answered, settleBudget
  <2>2. Succeeds(r)
    BY <1>0, <1>3, <1>5 DEF Succeeds, NewRow, BodyArrives, Answered, settleBudget, Row
  <2> QED
    BY <1>1, <2>1, <2>2, OwnStep
<1>6. ASSUME NEW actual \in Actuals, BodyArrivesWriteFails(r, actual) PROVE KeyInv'
  <2>1. \A x \in Requests \ {r} : usage'[x] = usage[x]
    <3>1. PICK rows \in {usage, settleBudget(r, actual)} :
            usage' = rows \/ usage' = releaseBudget(rows, {r})
      BY <1>6 DEF BodyArrivesWriteFails
    <3>2. \A x \in Requests \ {r} : rows[x] = usage[x]
      BY <1>0, <3>1 DEF settleBudget
    <3> QED
      BY <3>1, <3>2 DEF releaseBudget
  <2>2. idem' = idem \/ idem' = abandon(r)
    BY <1>6 DEF BodyArrivesWriteFails
  <2>3. Own(r)
    BY <1>0, <1>3, <1>6, <2>1, <2>2 DEF Own, BodyArrivesWriteFails, Answered
  <2>4. Withdraws(r)
    BY <1>0, <1>3, <1>6, <2>2 DEF Withdraws, NewRow, Claim, BodyArrivesWriteFails, Answered
  <2> QED
    BY <1>1, <2>3, <2>4, OwnStep
<1> QED
  BY <1>4, <1>5, <1>6

-----------------------------------------------------------------------------
(***************************************************************************)
(* Time and maintenance.                                                   *)
(***************************************************************************)
\* Two times less than a day apart lie on the same day or on two in a row.
LEMMA DaysApart ==
  ASSUME NEW x \in Nat, NEW y \in Nat, y < x + DayLength
  PROVE  Day(x) \in Int /\ Day(y) \in Int /\ Day(y) <= Day(x) + 1
<1> DEFINE D == DayLength
           p == x \div D
           q == y \div D
<1>0. D \in Nat \ {0}
  BY TimeAssumption
<1> HIDE DEF D
<1>1. p \in Int /\ x < D * p + D
  BY <1>0
<1>2. q \in Int /\ D * q <= y
  BY <1>0
<1> HIDE DEF p, q
<1>3. D * p \in Int /\ D * q \in Int /\ D * (p + 2) = D * p + D + D
  BY <1>0, <1>1, <1>2
<1>4. D * q < D * (p + 2)
  <2> DEFINE a == D * p
             b == D * q
  <2>1. a \in Int /\ b \in Int /\ x < a + D /\ b <= y /\ y < x + D
    BY <1>1, <1>2, <1>3 DEF D
  <2> HIDE DEF a, b
  <2>2. b < a + D + D
    BY <1>0, <2>1
  <2> QED
    BY <1>3, <2>2 DEF a, b
<1>5. q < p + 2
  BY <1>0, <1>1, <1>2, <1>4
<1> QED
  BY <1>1, <1>2, <1>5 DEF p, q, D, Day

LEMMA TickStep ==
  ASSUME IInv, KeyInv, Tick
  PROVE  KeyInv'
<1> USE DEF process, database, bounds
<1>1. /\ UNCHANGED <<call, stage, answer, usage, idem, faulty>>
      /\ now \in Nat /\ now' = now + 1
      /\ \A x \in Requests : usage[x] \in Row /\ (Live(x) => usage[x].at = now)
  BY DEF Tick, IInv, TypeOK
<1>2. /\ SingleFlight' = SingleFlight /\ PendingHasOwner' = PendingHasOwner
      /\ Apart' = Apart /\ Spaced' = Spaced /\ AnsweredIsDone' = AnsweredIsDone
      /\ LiveClaims' = LiveClaims
  BY <1>1 DEF SingleFlight, PendingHasOwner, Apart, Spaced, AnsweredIsDone, LiveClaims, Live,
     Tenant, HasKey, Paid, SameKey, Until, Claim
<1>3. Young'
  BY <1>1 DEF Young, Live
<1>4. PaidClaims'
  <2>1. \A x \in Requests : Until(x) \in Nat /\ Until(x)' = Until(x)
    BY <1>1, TimeAssumption DEF Until, Row
  <2>2. \A x \in Requests : now' < Until(x) => now < Until(x)
    BY <1>1, <2>1
  <2> QED
    BY <1>1, <2>1, <2>2 DEF PaidClaims, KeyInv, Paid, HasKey, Claim, Tenant
<1>5. StoredClaims'
  <2>1. ASSUME NEW t \in Tenants, NEW k \in Keys
        PROVE  Expired(idem[t][k]) => Expired(idem[t][k])'
    <3>1. idem[t][k].expires \in Nat
      BY DEF IInv, TypeOK, IdemRow
    <3> QED
      BY <1>1, <3>1 DEF Expired
  <2> QED
    BY <1>1, <2>1 DEF StoredClaims, KeyInv, Stored, Tenant, Until
<1> QED
  BY <1>2, <1>3, <1>4, <1>5 DEF KeyInv

\* Maintenance deletes neither a claim in force nor a charge an answer that can
\* still be replayed stands for.
LEMMA MaintainStep ==
  ASSUME IInv, KeyInv, Restart \/ Maintenance
  PROVE  KeyInv'
<1> USE DEF process, database, bounds
<1>1. /\ UNCHANGED <<call, stage, answer, faulty, now>> /\ maintain
      /\ now \in Nat /\ usage \in [Requests -> Row] /\ idem \in [Tenants -> [Keys -> IdemRow]]
      /\ TypeOK
  BY DEF Restart, Maintenance, IInv, TypeOK
<1>2. ASSUME NEW x \in Requests
      PROVE  /\ Live(x)' = Live(x) /\ Tenant(x)' = Tenant(x) /\ HasKey(x)' = HasKey(x)
             /\ \A y \in Requests : SameKey(x, y)' = SameKey(x, y)
  BY <1>1 DEF Live, Tenant, HasKey, SameKey
<1>3. ASSUME NEW t \in Tenants, NEW k \in Keys
      PROVE  /\ ~Expired(idem[t][k]) => idem'[t][k] = idem[t][k]
             /\ idem'[t][k].state # "absent" => ~Expired(idem[t][k])
  BY <1>1 DEF maintain, NoClaim
<1>4. ASSUME NEW x \in Requests
      PROVE  /\ usage[x].state \notin {"settled", "released"} => usage'[x] = usage[x]
             /\ Day(now) <= Day(usage[x].at) + 1 => usage'[x] = usage[x]
             /\ usage'[x].state # "absent" => usage'[x] = usage[x]
  <2>1. Day(now) \in Int /\ Day(usage[x].at) \in Int
    BY <1>1, TimeAssumption DEF Day, Row
  <2>2. Day(now) <= Day(usage[x].at) + 1 => ~(Day(usage[x].at) < Day(now) - Retention)
    BY <2>1, TimeAssumption
  <2> QED
    BY <1>1, <2>2 DEF maintain, NoRow
<1>5. ASSUME NEW x \in Requests, Live(x)
      PROVE  usage'[x] = usage[x] /\ Until(x)' = Until(x)
  BY <1>4, <1>5 DEF IInv, Accounting, ReservedHasOwner, Until
<1>6. ASSUME NEW x \in Requests, Paid(x)'
      PROVE  Paid(x) /\ usage'[x] = usage[x] /\ Until(x)' = Until(x)
  BY <1>1, <1>2, <1>4, <1>6 DEF Paid, Until
<1>7. SingleFlight' /\ AnsweredIsDone'
  BY <1>1 DEF KeyInv, SingleFlight, AnsweredIsDone, Live, Tenant, HasKey
<1>8. PendingHasOwner'
  <2> SUFFICES ASSUME NEW t \in Tenants, NEW k \in Keys, idem'[t][k].state = "pending"
               PROVE  (\E x \in Requests :
                         /\ Tenant(x) = t /\ call[x].key = k /\ call[x].body = idem[t][k].body
                         /\ Live(x) \/ stage[x] = "lost" \/ x \in faulty)'
    BY DEF PendingHasOwner
  <2>1. idem'[t][k] = idem[t][k]
    BY <1>3
  <2> QED
    BY <1>1, <1>2, <2>1 DEF KeyInv, PendingHasOwner
<1>9. Young'
  BY <1>1, <1>2, <1>5 DEF KeyInv, Young
<1>10. Apart' /\ Spaced'
  BY <1>2, <1>5, <1>6 DEF KeyInv, Apart, Spaced
<1>11. ASSUME NEW x \in Requests, HasKey(x), Claim(x).expires = Until(x), now < Until(x)
       PROVE  Claim(x)' = Claim(x)
  <2>1. Claim(x) = idem[Tenant(x)][call[x].key] /\ Tenant(x) \in Tenants /\ call[x].key \in Keys
    BY <1>1, <1>11, ClaimIs
  <2>2. Until(x) \in Nat
    BY <1>1, TimeAssumption DEF Until, Row
  <2>3. ~Expired(Claim(x))
    BY <1>1, <1>11, <2>2 DEF Expired
  <2> QED
    BY <1>1, <1>2, <1>3, <2>1, <2>3 DEF Claim
<1>12. LiveClaims'
  <2> SUFFICES ASSUME NEW x \in Requests, Live(x), HasKey(x)
               PROVE  (/\ Claim(x).state = "pending" /\ Claim(x).body = call[x].body
                       /\ Claim(x).expires = Until(x))'
    BY <1>2 DEF LiveClaims
  <2>1. /\ Claim(x).state = "pending" /\ Claim(x).body = call[x].body
        /\ Claim(x).expires = Until(x) /\ now <= usage[x].at + 1
    BY DEF KeyInv, LiveClaims, Young
  <2>2. now < Until(x)
    BY <1>1, <2>1, TimeAssumption DEF Until, Row
  <2> QED
    BY <1>1, <1>5, <1>11, <2>1, <2>2
<1>13. PaidClaims'
  <2> SUFFICES ASSUME NEW x \in Requests, Paid(x)', (now < Until(x))'
               PROVE  (Claim(x).state = "stored" /\ Claim(x).expires = Until(x))'
    BY DEF PaidClaims
  <2>1. Paid(x) /\ now < Until(x) /\ Until(x)' = Until(x)
    BY <1>1, <1>6
  <2>2. Claim(x).state = "stored" /\ Claim(x).expires = Until(x) /\ HasKey(x)
    BY <2>1 DEF KeyInv, PaidClaims, Paid
  <2> QED
    BY <1>11, <2>1, <2>2
<1>14. StoredClaims'
  <2> SUFFICES ASSUME NEW t \in Tenants, NEW k \in Keys, idem'[t][k].state = "stored"
               PROVE  Stored(t, k)'
    BY DEF StoredClaims
  <2>1. idem'[t][k] = idem[t][k] /\ ~Expired(idem[t][k]) /\ idem[t][k] \in IdemRow
    BY <1>1, <1>3
  <2>2. Stored(t, k)
    BY <2>1 DEF KeyInv, StoredClaims
  <2> DEFINE x == idem[t][k].by
  <2>3. x \in Requests /\ idem[t][k].expires = Until(x)
    BY <2>1, <2>2 DEF Stored
  <2>4. now < usage[x].at + DayLength
    BY <1>1, <2>1, <2>3 DEF Expired, IdemRow, Until
  <2>5. usage'[x] = usage[x]
    BY <1>1, <1>4, <2>3, <2>4, DaysApart DEF Row
  <2> QED
    BY <1>1, <2>1, <2>2, <2>3, <2>5 DEF Stored, Tenant, Until, Expired
<1> QED
  BY <1>7, <1>8, <1>9, <1>10, <1>12, <1>13, <1>14 DEF KeyInv

-----------------------------------------------------------------------------
(***************************************************************************)
(* The theorems.                                                           *)
(***************************************************************************)
LEMMA KeysInitially == Init => KeyInv
<1> SUFFICES ASSUME Init PROVE KeyInv
  OBVIOUS
<1>1. \A x \in Requests : ~Live(x) /\ answer[x] = "none" /\ ~Paid(x)
  BY DEF Init, Live, InFlight, Awaiting, Paid
<1>2. \A t \in Tenants, k \in Keys : idem[t][k].state = "absent"
  BY DEF Init, NoClaim
<1> QED
  BY <1>1, <1>2 DEF KeyInv, SingleFlight, PendingHasOwner, Apart, Young, AnsweredIsDone,
     LiveClaims, PaidClaims, StoredClaims, Spaced

LEMMA KeysInductive ==
  ASSUME IInv, KeyInv, [Next]_vars
  PROVE  KeyInv'
<1> USE DEF KeyInv
<1>1. ASSUME NEW r \in Requests, Execute(r) PROVE KeyInv'
  <2>1. CASE RefuseKeyedStream(r) \/ NotOwner(r)
    BY <2>1, QuietSteps, QuietKeeps
  <2>2. CASE OverBudget(r) \/ Overloaded(r) \/ Admit(r)
    BY <2>2, OwnerStep
  <2> QED
    BY <1>1, <2>1, <2>2 DEF Execute
<1>2. ASSUME NEW r \in Requests, Proceed(r) PROVE KeyInv'
  <2>1. CASE \/ FetchRejects(r) \/ UpstreamRefusesStream(r) \/ BodyUnusable(r)
             \/ \E actual \in Actuals : BodyArrives(r, actual)
    BY <2>1, EndStep
  <2>2. CASE \/ HeadersArrive(r) \/ StreamOpens(r) \/ UpstreamDone(r) \/ StreamErrors(r)
             \/ CloseStream(r) \/ PullRejects(r) \/ CancelSettles(r)
             \/ \E actual \in Actuals : StreamEnds(r, actual)
    BY <2>2, QuietSteps, QuietKeeps
  <2> QED
    BY <1>2, <2>1, <2>2 DEF Proceed
<1>3. ASSUME NEW r \in Requests, WriteFails(r) PROVE KeyInv'
  <2>1. CASE \E actual \in Actuals : BodyArrivesWriteFails(r, actual)
    BY <2>1, EndStep
  <2>2. CASE \E actual \in Actuals : \/ StreamEndsWriteFails(r, actual)
                                     \/ StreamEndsWriteFailsClosing(r, actual)
    BY <2>2, QuietSteps, QuietKeeps
  <2> QED
    BY <1>3, <2>1, <2>2 DEF WriteFails
<1>4. ASSUME NEW r \in Requests, HungClientLeaves(r) PROVE KeyInv'
  BY <1>4, QuietSteps, QuietKeeps
<1>5. CASE \/ \E p \in Probes : ProbeStarts(p) \/ ProbeEnds(p)
           \/ Shutdown \/ Exit \/ Crash \/ UNCHANGED vars
  BY <1>5, QuietProcess, QuietKeeps
<1>6. CASE Restart \/ Maintenance
  BY <1>6, MaintainStep
<1>7. CASE Tick
  BY <1>7, TickStep
<1> QED
  BY <1>1, <1>2, <1>3, <1>4, <1>5, <1>6, <1>7 DEF Next

LEMMA KeysInvariance == Spec => []KeyInv
<1>1. KeyInv /\ IInv /\ [Next]_vars => KeyInv'
  BY KeysInductive
<1> QED
  BY <1>1, KeysInitially, Invariance, PTL DEF Spec

\* Two requests with one key are never in flight together.
THEOREM OneFlightPerKey == Spec => []SingleFlight
BY KeysInvariance, PTL DEF KeyInv

\* A claim that turns others away belongs to a request in flight, or to one
\* that the process or the database abandoned.
THEOREM ClaimsHaveOwners == Spec => []PendingHasOwner
BY KeysInvariance, PTL DEF KeyInv

\* What is replayed was given to, and paid by, a request with the same body.
THEOREM ReplaysWerePaid == Spec => []ReplayWasPaid
<1>1. KeyInv => ReplayWasPaid
  BY DEF KeyInv, StoredClaims, Stored, ReplayWasPaid
<1> QED
  BY <1>1, KeysInvariance, PTL

\* Within the life of a key at most one of the requests that carry it is
\* answered anew and charged.
THEOREM ChargedOncePerKey == Spec => []OncePerKey
<1>1. ASSUME KeyInv PROVE OncePerKey
  <2> SUFFICES ASSUME NEW q \in Requests, NEW r \in Requests,
                      q # r, HasKey(q), Tenant(q) = Tenant(r), call[q].key = call[r].key,
                      usage[q].state = "settled", usage[r].state = "settled",
                      answer[q] = "ok", answer[r] = "ok"
               PROVE  \/ usage[q].at >= usage[r].at + DayLength
                      \/ usage[r].at >= usage[q].at + DayLength
    BY DEF OncePerKey
  <2>1. Paid(q) /\ Paid(r) /\ SameKey(q, r)
    BY DEF Paid, SameKey, HasKey
  <2> QED
    BY <1>1, <2>1 DEF KeyInv, Apart, Until
<1> QED
  BY <1>1, KeysInvariance, PTL

-----------------------------------------------------------------------------
(***************************************************************************)
(* The meter: what its folds over symbols, lines, chunks and payloads      *)
(* compute.  One more element is one more step.                            *)
(***************************************************************************)
\* Induction over the natural numbers, for a set of them.
LEMMA NumberInduction ==
  ASSUME NEW Good, 0 \in Good, \A n \in Nat : n \in Good => n + 1 \in Good
  PROVE  Nat \subseteq Good
<1> DEFINE Bad == Nat \ Good
<1> SUFFICES ASSUME Bad # {} PROVE FALSE
  OBVIOUS
<1>1. IsWellFoundedOn(OpToRel(<, Nat), Nat)
  BY NatLessThanWellFounded
<1>2. PICK m \in Bad : \A k \in Bad : <<k, m>> \notin OpToRel(<, Nat)
  <2>1. Bad \subseteq Nat
    OBVIOUS
  <2> HIDE DEF Bad
  <2> QED
    BY <1>1, <2>1, WFMin
<1>3. \A k \in Bad : ~(k < m)
  BY <1>2 DEF OpToRel
<1>4. m # 0 /\ m - 1 \in Nat /\ m - 1 < m /\ m = (m - 1) + 1
  OBVIOUS
<1>5. m - 1 \in Good
  BY <1>3, <1>4
<1> QED
  BY <1>2, <1>4, <1>5

\* The last place of a non-empty set of places.
LEMMA MaxOfPlaces ==
  ASSUME NEW n \in Nat
  PROVE  \A T \in SUBSET (1 .. n) : T # {} => Max(T) \in T /\ \A i \in T : i <= Max(T)
<1> DEFINE Good == {k \in Nat : \A T \in SUBSET (1 .. k) : T # {} => \E x \in T : \A i \in T : x >= i}
<1>1. 0 \in Good
  <2>1. 1 .. 0 = {}
    OBVIOUS
  <2> QED
    BY <2>1
<1>2. ASSUME NEW k \in Nat, k \in Good PROVE k + 1 \in Good
  <2>0. k + 1 \in Nat /\ k \in Nat
    BY <1>2
  <2>1. ASSUME NEW T \in SUBSET (1 .. (k + 1)), T # {}
        PROVE  \E x \in T : \A i \in T : x >= i
    <3>1. CASE k + 1 \in T
      BY <2>0, <3>1
    <3>2. CASE k + 1 \notin T
      <4>1. T \in SUBSET (1 .. k)
        BY <2>0, <3>2
      <4> QED
        BY <1>2, <2>1, <4>1
    <3> QED
      BY <3>1, <3>2
  <2> QED
    BY <2>0, <2>1
<1>3. Nat \subseteq Good
  <2> HIDE DEF Good
  <2> QED
    BY <1>1, <1>2, NumberInduction
<1>4. ASSUME NEW T \in SUBSET (1 .. n), T # {}
      PROVE  Max(T) \in T /\ \A i \in T : i <= Max(T)
  <2>1. \E x \in T : \A i \in T : x >= i
    BY <1>3, <1>4
  <2>2. Max(T) \in T /\ \A i \in T : Max(T) >= i
    BY <2>1 DEF Max
  <2> QED
    BY <2>2
<1> QED
  BY <1>4

\* What the folds of the meter do with an element, each by its name.
Step(fold, d, v, x) ==
  CASE fold = "split" -> readSymbol(v, x)
    [] fold = "lines" -> observeLine(d, v, x)
    [] fold = "chunks" -> observeSseChunk(d, v, x)
    [] fold = "payloads" -> observe(d, v, x)
    [] fold = "joined" -> v \o x

\* The table of a fold over s: a value for every part of its places.
IsTable(t, fold, d, base, s, n) ==
  t = [T \in SUBSET (1 .. n) |->
         IF T = {} THEN base ELSE Step(fold, d, t[T \ {Max(T)}], s[Max(T)])]

\* It exists.
LEMMA TableExists ==
  ASSUME NEW fold, NEW d, NEW base, NEW s, NEW n \in Nat
  PROVE  \E t : IsTable(t, fold, d, base, s, n)
<1> DEFINE Good == {k \in Nat : \E t : IsTable(t, fold, d, base, s, k)}
<1>1. 0 \in Good
  <2> DEFINE t == [T \in SUBSET (1 .. 0) |-> base]
  <2>1. IsTable(t, fold, d, base, s, 0)
    BY DEF IsTable
  <2> QED
    BY <2>1
<1>2. ASSUME NEW k \in Nat, k \in Good PROVE k + 1 \in Good
  <2>1. PICK t : IsTable(t, fold, d, base, s, k)
    BY <1>2
  <2> DEFINE u == [T \in SUBSET (1 .. (k + 1)) |->
                     IF k + 1 \in T THEN Step(fold, d, t[T \ {k + 1}], s[k + 1]) ELSE t[T]]
  <2>2. ASSUME NEW T \in SUBSET (1 .. (k + 1))
        PROVE  u[T] = IF T = {} THEN base ELSE Step(fold, d, u[T \ {Max(T)}], s[Max(T)])
    <3>1. CASE k + 1 \in T
      <4>1. Max(T) = k + 1
        <5>1. k + 1 \in Nat /\ T # {}
          BY <1>2, <3>1
        <5>2. Max(T) \in T /\ \A i \in T : i <= Max(T)
          BY <2>2, <5>1, MaxOfPlaces
        <5>3. Max(T) \in 1 .. (k + 1) /\ k + 1 <= Max(T)
          BY <2>2, <3>1, <5>2
        <5> QED
          BY <1>2, <5>3
      <4>2. T \ {k + 1} \in SUBSET (1 .. (k + 1)) /\ k + 1 \notin T \ {k + 1} /\ T # {}
        BY <3>1
      <4>3. u[T \ {k + 1}] = t[T \ {k + 1}]
        BY <4>2
      <4> QED
        BY <3>1, <4>1, <4>2, <4>3
    <3>2. CASE k + 1 \notin T /\ T # {}
      <4>1. T \in SUBSET (1 .. k)
        BY <3>2
      <4>2. t[T] = Step(fold, d, t[T \ {Max(T)}], s[Max(T)])
        BY <2>1, <3>2, <4>1 DEF IsTable
      <4>3. T \ {Max(T)} \in SUBSET (1 .. (k + 1)) /\ k + 1 \notin T \ {Max(T)}
        BY <3>2
      <4> QED
        BY <3>2, <4>2, <4>3
    <3>3. CASE T = {}
      <4>1. t[{}] = base
        BY <2>1 DEF IsTable
      <4> QED
        BY <3>3, <4>1
    <3> QED
      BY <3>1, <3>2, <3>3
  <2>3. IsTable(u, fold, d, base, s, k + 1)
    <3>1. u = [T \in SUBSET (1 .. (k + 1)) |-> u[T]]
      OBVIOUS
    <3> HIDE DEF u
    <3> QED
      BY <2>2, <3>1 DEF IsTable
  <2> HIDE DEF u
  <2> QED
    BY <2>3
<1>3. Nat \subseteq Good
  <2> HIDE DEF Good
  <2> QED
    BY <1>1, <1>2, NumberInduction
<1> QED
  BY <1>3

\* Longer by one element, it has the value of the shorter one, and one step more.
LEMMA TableGrows ==
  ASSUME NEW fold, NEW d, NEW base, NEW s, NEW r, NEW n \in Nat,
         \A i \in 1 .. n : r[i] = s[i],
         NEW t, IsTable(t, fold, d, base, s, n),
         NEW u, IsTable(u, fold, d, base, r, n + 1)
  PROVE  u[1 .. (n + 1)] = Step(fold, d, t[1 .. n], r[n + 1])
<1> DEFINE Good == {k \in Nat : k <= n => \A T \in SUBSET (1 .. k) : u[T] = t[T]}
<1>1. 0 \in Good
  BY DEF IsTable
<1>2. ASSUME NEW k \in Nat, k \in Good PROVE k + 1 \in Good
  <2> SUFFICES ASSUME k + 1 <= n, NEW T \in SUBSET (1 .. (k + 1)) PROVE u[T] = t[T]
    BY <1>2
  <2>0. T \in SUBSET (1 .. n) /\ T \in SUBSET (1 .. (n + 1))
    BY <1>2
  <2>1. CASE T = {}
    BY <2>1 DEF IsTable
  <2>2. CASE T # {}
    <3>1. Max(T) \in T /\ \A i \in T : i <= Max(T)
      BY <2>0, <2>2, MaxOfPlaces
    <3>2. Max(T) \in 1 .. n /\ T \ {Max(T)} \in SUBSET (1 .. k)
      <4> DEFINE m == Max(T)
      <4>1. m \in T /\ \A i \in T : i <= m
        BY <3>1
      <4> HIDE DEF m
      <4>2. \A i \in T : i \in 1 .. (k + 1) /\ i \in Int
        BY <1>2
      <4>3. \A i \in T \ {m} : i \in 1 .. k
        BY <1>2, <4>1, <4>2
      <4>4. m \in 1 .. n
        BY <2>0, <4>1
      <4> QED
        BY <4>3, <4>4 DEF m
    <3>3. u[T \ {Max(T)}] = t[T \ {Max(T)}] /\ r[Max(T)] = s[Max(T)]
      BY <1>2, <3>2
    <3>4. /\ t[T] = Step(fold, d, t[T \ {Max(T)}], s[Max(T)])
          /\ u[T] = Step(fold, d, u[T \ {Max(T)}], r[Max(T)])
      BY <2>0, <2>2 DEF IsTable
    <3> QED
      BY <3>3, <3>4
  <2> QED
    BY <2>1, <2>2
<1>3. Nat \subseteq Good
  <2> HIDE DEF Good
  <2> QED
    BY <1>1, <1>2, NumberInduction
<1>4. u[1 .. n] = t[1 .. n]
  BY <1>3
<1> DEFINE all == 1 .. (n + 1)
<1>5. all # {} /\ all \in SUBSET (1 .. (n + 1)) /\ all \ {n + 1} = 1 .. n
  OBVIOUS
<1>6. Max(all) = n + 1
  <2>1. n + 1 \in Nat /\ n + 1 \in all
    OBVIOUS
  <2>2. Max(all) \in all /\ \A i \in all : i <= Max(all)
    <3> HIDE DEF all
    <3> QED
      BY <1>5, <2>1, MaxOfPlaces
  <2>3. Max(all) \in 1 .. (n + 1) /\ n + 1 <= Max(all)
    BY <2>1, <2>2
  <2> QED
    BY <2>3
<1>7. u[all] = Step(fold, d, u[all \ {n + 1}], r[n + 1])
  <2> HIDE DEF all
  <2> QED
    BY <1>5, <1>6 DEF IsTable
<1> QED
  BY <1>4, <1>5, <1>7

NoText == [lines |-> <<>>, rest |-> <<>>]

\* The meter after lines, and the state after chunks.
Reading(d, m, lines) == FoldLeft(LAMBDA v, line : observeLine(d, v, line), m, lines)

NoState == [buffer |-> <<>>, meter |-> Unread]
StateAfter(d, chunks) == FoldLeft(LAMBDA s, chunk : observeSseChunk(d, s, chunk), NoState, chunks)

\* What chunks are together.
Joined(chunks) == FoldLeft(LAMBDA text, chunk : text \o chunk, <<>>, chunks)

\* The text is read symbol by symbol.
LEMMA SplitTabled ==
  ASSUME NEW X, NEW text \in Seq(X)
  PROVE  \E t : /\ IsTable(t, "split", Null, NoText, text, Len(text))
                /\ Split(text) = t[1 .. Len(text)]
<1> DEFINE IsSplit(t) ==
             t = [T \in SUBSET DOMAIN text |->
                    IF T = {} THEN NoText ELSE readSymbol(t[T \ {Max(T)}], text[Max(T)])]
           t0 == CHOOSE t : IsSplit(t)
<1>1. Split(text) = t0[DOMAIN text]
  BY DEF Split, FoldLeft, MapThenFoldSet, NoText
<1>2. DOMAIN text = 1 .. Len(text) /\ Len(text) \in Nat
  OBVIOUS
<1>3. \A t : IsSplit(t) <=> IsTable(t, "split", Null, NoText, text, Len(text))
  BY <1>2 DEF IsTable, Step
<1>4. \E t : IsSplit(t)
  BY <1>2, <1>3, TableExists
<1>5. IsSplit(t0)
  <2> HIDE DEF IsSplit
  <2> QED
    BY <1>4
<1> HIDE DEF t0, IsSplit
<1> QED
  BY <1>1, <1>2, <1>3, <1>5

\* The lines are read one by one.
LEMMA LinesTabled ==
  ASSUME NEW d, NEW m, NEW X, NEW lines \in Seq(X)
  PROVE  \E t : /\ IsTable(t, "lines", d, m, lines, Len(lines))
                /\ Reading(d, m, lines) = t[1 .. Len(lines)]
<1> DEFINE IsRead(t) ==
             t = [T \in SUBSET DOMAIN lines |->
                    IF T = {} THEN m ELSE observeLine(d, t[T \ {Max(T)}], lines[Max(T)])]
           t0 == CHOOSE t : IsRead(t)
<1>1. Reading(d, m, lines) = t0[DOMAIN lines]
  BY DEF Reading, FoldLeft, MapThenFoldSet
<1>2. DOMAIN lines = 1 .. Len(lines) /\ Len(lines) \in Nat
  OBVIOUS
<1>3. \A t : IsRead(t) <=> IsTable(t, "lines", d, m, lines, Len(lines))
  BY <1>2 DEF IsTable, Step
<1>4. \E t : IsRead(t)
  BY <1>2, <1>3, TableExists
<1>5. IsRead(t0)
  <2> HIDE DEF IsRead
  <2> QED
    BY <1>4
<1> HIDE DEF t0, IsRead
<1> QED
  BY <1>1, <1>2, <1>3, <1>5
\* The chunks come one by one.
LEMMA ChunksTabled ==
  ASSUME NEW d, NEW X, NEW chunks \in Seq(X)
  PROVE  \E t : /\ IsTable(t, "chunks", d, NoState, chunks, Len(chunks))
                /\ StateAfter(d, chunks) = t[1 .. Len(chunks)]
<1> DEFINE IsRead(t) ==
             t = [T \in SUBSET DOMAIN chunks |->
                    IF T = {} THEN NoState ELSE observeSseChunk(d, t[T \ {Max(T)}], chunks[Max(T)])]
           t0 == CHOOSE t : IsRead(t)
<1>1. StateAfter(d, chunks) = t0[DOMAIN chunks]
  BY DEF StateAfter, FoldLeft, MapThenFoldSet
<1>2. DOMAIN chunks = 1 .. Len(chunks) /\ Len(chunks) \in Nat
  OBVIOUS
<1>3. \A t : IsRead(t) <=> IsTable(t, "chunks", d, NoState, chunks, Len(chunks))
  BY <1>2 DEF IsTable, Step
<1>4. \E t : IsRead(t)
  BY <1>2, <1>3, TableExists
<1>5. IsRead(t0)
  <2> HIDE DEF IsRead
  <2> QED
    BY <1>4
<1> HIDE DEF t0, IsRead
<1> QED
  BY <1>1, <1>2, <1>3, <1>5

\* The payloads are observed one by one.
LEMMA PayloadsTabled ==
  ASSUME NEW d, NEW X, NEW payloads \in Seq(X)
  PROVE  \E t : /\ IsTable(t, "payloads", d, Unread, payloads, Len(payloads))
                /\ Observed(d, payloads) = t[1 .. Len(payloads)]
<1> DEFINE IsRead(t) ==
             t = [T \in SUBSET DOMAIN payloads |->
                    IF T = {} THEN Unread ELSE observe(d, t[T \ {Max(T)}], payloads[Max(T)])]
           t0 == CHOOSE t : IsRead(t)
<1>1. Observed(d, payloads) = t0[DOMAIN payloads]
  BY DEF Observed, FoldLeft, MapThenFoldSet
<1>2. DOMAIN payloads = 1 .. Len(payloads) /\ Len(payloads) \in Nat
  OBVIOUS
<1>3. \A t : IsRead(t) <=> IsTable(t, "payloads", d, Unread, payloads, Len(payloads))
  BY <1>2 DEF IsTable, Step
<1>4. \E t : IsRead(t)
  BY <1>2, <1>3, TableExists
<1>5. IsRead(t0)
  <2> HIDE DEF IsRead
  <2> QED
    BY <1>4
<1> HIDE DEF t0, IsRead
<1> QED
  BY <1>1, <1>2, <1>3, <1>5

\* The chunks are joined one by one.
LEMMA JoinedTabled ==
  ASSUME NEW X, NEW chunks \in Seq(X)
  PROVE  \E t : /\ IsTable(t, "joined", Null, <<>>, chunks, Len(chunks))
                /\ Joined(chunks) = t[1 .. Len(chunks)]
<1> DEFINE IsJoined(t) ==
             t = [T \in SUBSET DOMAIN chunks |->
                    IF T = {} THEN <<>> ELSE t[T \ {Max(T)}] \o chunks[Max(T)]]
           t0 == CHOOSE t : IsJoined(t)
<1>1. Joined(chunks) = t0[DOMAIN chunks]
  BY DEF Joined, FoldLeft, MapThenFoldSet
<1>2. DOMAIN chunks = 1 .. Len(chunks) /\ Len(chunks) \in Nat
  OBVIOUS
<1>3. \A t : IsJoined(t) <=> IsTable(t, "joined", Null, <<>>, chunks, Len(chunks))
  BY <1>2 DEF IsTable, Step
<1>4. \E t : IsJoined(t)
  BY <1>2, <1>3, TableExists
<1>5. IsJoined(t0)
  <2> HIDE DEF IsJoined
  <2> QED
    BY <1>4
<1> HIDE DEF t0, IsJoined
<1> QED
  BY <1>1, <1>2, <1>3, <1>5

\* Of nothing, nothing.
LEMMA NothingRead ==
  /\ Split(<<>>) = NoText
  /\ \A d, m : Reading(d, m, <<>>) = m
  /\ \A d : StateAfter(d, <<>>) = NoState
  /\ \A d : Observed(d, <<>>) = Unread
  /\ Joined(<<>>) = <<>>
<1>1. <<>> \in Seq({}) /\ Len(<<>>) = 0 /\ 1 .. 0 = {}
  OBVIOUS
<1>2. PICK s : IsTable(s, "split", Null, NoText, <<>>, Len(<<>>)) /\ Split(<<>>) = s[1 .. Len(<<>>)]
  BY <1>1, SplitTabled
<1>3. Split(<<>>) = NoText
  BY <1>1, <1>2 DEF IsTable
<1>4. ASSUME NEW d, NEW m PROVE Reading(d, m, <<>>) = m
  <2>1. PICK t : IsTable(t, "lines", d, m, <<>>, Len(<<>>)) /\ Reading(d, m, <<>>) = t[1 .. Len(<<>>)]
    BY <1>1, LinesTabled
  <2> QED
    BY <1>1, <2>1 DEF IsTable
<1>5. ASSUME NEW d PROVE StateAfter(d, <<>>) = NoState
  <2>1. PICK t : IsTable(t, "chunks", d, NoState, <<>>, Len(<<>>)) /\ StateAfter(d, <<>>) = t[1 .. Len(<<>>)]
    BY <1>1, ChunksTabled
  <2> QED
    BY <1>1, <2>1 DEF IsTable
<1>6. ASSUME NEW d PROVE Observed(d, <<>>) = Unread
  <2>1. PICK t : IsTable(t, "payloads", d, Unread, <<>>, Len(<<>>)) /\ Observed(d, <<>>) = t[1 .. Len(<<>>)]
    BY <1>1, PayloadsTabled
  <2> QED
    BY <1>1, <2>1 DEF IsTable
<1>7. Joined(<<>>) = <<>>
  <2>1. PICK t : IsTable(t, "joined", Null, <<>>, <<>>, Len(<<>>)) /\ Joined(<<>>) = t[1 .. Len(<<>>)]
    BY <1>1, JoinedTabled
  <2> QED
    BY <1>1, <2>1 DEF IsTable
<1> QED
  BY <1>3, <1>4, <1>5, <1>6, <1>7

\* An element appended: shared by the four.
LEMMA MoreByOne ==
  ASSUME NEW X, NEW s \in Seq(X), NEW x \in X
  PROVE  /\ Append(s, x) \in Seq(X) /\ Len(Append(s, x)) = Len(s) + 1 /\ Append(s, x)[Len(s) + 1] = x
         /\ \A i \in 1 .. Len(s) : Append(s, x)[i] = s[i]
         /\ Len(s) \in Nat
OBVIOUS

\* What an element more makes of each.
LEMMA SplitGrows ==
  ASSUME NEW X, NEW text \in Seq(X), NEW c \in X
  PROVE  Split(Append(text, c)) = readSymbol(Split(text), c)
<1> DEFINE more == Append(text, c)
<1>1. /\ more \in Seq(X) /\ Len(more) = Len(text) + 1 /\ more[Len(text) + 1] = c
      /\ \A i \in 1 .. Len(text) : more[i] = text[i]
      /\ Len(text) \in Nat
  BY MoreByOne
<1> HIDE DEF more
<1>2. PICK t : IsTable(t, "split", Null, NoText, text, Len(text)) /\ Split(text) = t[1 .. Len(text)]
  BY SplitTabled
<1>3. PICK u : IsTable(u, "split", Null, NoText, more, Len(more)) /\ Split(more) = u[1 .. Len(more)]
  BY <1>1, SplitTabled
<1>4. Split(more) = Step("split", Null, t[1 .. Len(text)], more[Len(text) + 1])
  BY <1>1, <1>2, <1>3, TableGrows
<1> QED
  BY <1>1, <1>2, <1>4 DEF Step, more

\* One more line is observed after the lines before it.
LEMMA ReadingGrows ==
  ASSUME NEW d, NEW m, NEW X, NEW lines \in Seq(X), NEW line \in X
  PROVE  Reading(d, m, Append(lines, line)) = observeLine(d, Reading(d, m, lines), line)
<1> DEFINE more == Append(lines, line)
<1>1. /\ more \in Seq(X) /\ Len(more) = Len(lines) + 1 /\ more[Len(lines) + 1] = line
      /\ \A i \in 1 .. Len(lines) : more[i] = lines[i]
      /\ Len(lines) \in Nat
  BY MoreByOne
<1> HIDE DEF more
<1>2. PICK t : IsTable(t, "lines", d, m, lines, Len(lines)) /\ Reading(d, m, lines) = t[1 .. Len(lines)]
  BY LinesTabled
<1>3. PICK u : IsTable(u, "lines", d, m, more, Len(more)) /\ Reading(d, m, more) = u[1 .. Len(more)]
  BY <1>1, LinesTabled
<1>4. Reading(d, m, more) = Step("lines", d, t[1 .. Len(lines)], more[Len(lines) + 1])
  BY <1>1, <1>2, <1>3, TableGrows
<1> QED
  BY <1>1, <1>2, <1>4 DEF Step, more

\* One more chunk is read from the state the chunks before it left.
LEMMA ChunksGrow ==
  ASSUME NEW d, NEW X, NEW chunks \in Seq(X), NEW chunk \in X
  PROVE  StateAfter(d, Append(chunks, chunk)) = observeSseChunk(d, StateAfter(d, chunks), chunk)
<1> DEFINE more == Append(chunks, chunk)
<1>1. /\ more \in Seq(X) /\ Len(more) = Len(chunks) + 1 /\ more[Len(chunks) + 1] = chunk
      /\ \A i \in 1 .. Len(chunks) : more[i] = chunks[i]
      /\ Len(chunks) \in Nat
  BY MoreByOne
<1> HIDE DEF more
<1>2. PICK t : IsTable(t, "chunks", d, NoState, chunks, Len(chunks)) /\ StateAfter(d, chunks) = t[1 .. Len(chunks)]
  BY ChunksTabled
<1>3. PICK u : IsTable(u, "chunks", d, NoState, more, Len(more)) /\ StateAfter(d, more) = u[1 .. Len(more)]
  BY <1>1, ChunksTabled
<1>4. StateAfter(d, more) = Step("chunks", d, t[1 .. Len(chunks)], more[Len(chunks) + 1])
  BY <1>1, <1>2, <1>3, TableGrows
<1> QED
  BY <1>1, <1>2, <1>4 DEF Step, more

\* One more chunk is joined at the end.
LEMMA JoinedGrows ==
  ASSUME NEW X, NEW chunks \in Seq(X), NEW chunk \in X
  PROVE  Joined(Append(chunks, chunk)) = Joined(chunks) \o chunk
<1> DEFINE more == Append(chunks, chunk)
<1>1. /\ more \in Seq(X) /\ Len(more) = Len(chunks) + 1 /\ more[Len(chunks) + 1] = chunk
      /\ \A i \in 1 .. Len(chunks) : more[i] = chunks[i]
      /\ Len(chunks) \in Nat
  BY MoreByOne
<1> HIDE DEF more
<1>2. PICK t : IsTable(t, "joined", Null, <<>>, chunks, Len(chunks)) /\ Joined(chunks) = t[1 .. Len(chunks)]
  BY JoinedTabled
<1>3. PICK u : IsTable(u, "joined", Null, <<>>, more, Len(more)) /\ Joined(more) = u[1 .. Len(more)]
  BY <1>1, JoinedTabled
<1>4. Joined(more) = Step("joined", Null, t[1 .. Len(chunks)], more[Len(chunks) + 1])
  BY <1>1, <1>2, <1>3, TableGrows
<1> QED
  BY <1>1, <1>2, <1>4 DEF Step, more

\* One more payload is observed by the meter the payloads before it left.
LEMMA ObservedGrows ==
  ASSUME NEW d, NEW X, NEW payloads \in Seq(X), NEW p \in X
  PROVE  Observed(d, Append(payloads, p)) = observe(d, Observed(d, payloads), p)
<1> DEFINE more == Append(payloads, p)
<1>1. /\ more \in Seq(X) /\ Len(more) = Len(payloads) + 1 /\ more[Len(payloads) + 1] = p
      /\ \A i \in 1 .. Len(payloads) : more[i] = payloads[i]
      /\ Len(payloads) \in Nat
  BY MoreByOne
<1> HIDE DEF more
<1>2. PICK t : IsTable(t, "payloads", d, Unread, payloads, Len(payloads)) /\ Observed(d, payloads) = t[1 .. Len(payloads)]
  BY PayloadsTabled
<1>3. PICK u : IsTable(u, "payloads", d, Unread, more, Len(more)) /\ Observed(d, more) = u[1 .. Len(more)]
  BY <1>1, PayloadsTabled
<1>4. Observed(d, more) = Step("payloads", d, t[1 .. Len(payloads)], more[Len(payloads) + 1])
  BY <1>1, <1>2, <1>3, TableGrows
<1> QED
  BY <1>1, <1>2, <1>4 DEF Step, more

\* A sequence of one element more is one with an element appended.
LEMMA LastTaken ==
  ASSUME NEW X, NEW n \in Nat, NEW s \in Seq(X), Len(s) = n + 1
  PROVE  \E r \in Seq(X), x \in X : s = Append(r, x) /\ Len(r) = n
<1> DEFINE r == SubSeq(s, 1, n)
<1>1. r \in Seq(X) /\ Len(r) = n /\ s[n + 1] \in X /\ s = Append(r, s[n + 1])
  OBVIOUS
<1> HIDE DEF r
<1> QED
  BY <1>1

\* Joining, and one element more.
LEMMA JoinOneMore ==
  ASSUME NEW X, NEW a \in Seq(X), NEW r \in Seq(X), NEW c \in X
  PROVE  a \o r \in Seq(X) /\ a \o Append(r, c) = Append(a \o r, c)
<1> DEFINE u == a \o Append(r, c)
           v == Append(a \o r, c)
<1>1. a \o r \in Seq(X) /\ u \in Seq(X) /\ v \in Seq(X) /\ Len(u) = Len(a) + Len(r) + 1 /\ Len(v) = Len(u)
  OBVIOUS
<1>2. \A i \in 1 .. Len(u) : u[i] = v[i]
  OBVIOUS
<1> HIDE DEF u, v
<1>3. u = v
  BY <1>1, <1>2
<1> QED
  BY <1>1, <1>3 DEF u, v

\* The parts of a text, and its rest, are texts; the rest has no line break.
LEMMA SplitType ==
  ASSUME NEW X, NEW text \in Seq(X)
  PROVE  /\ Split(text) \in [lines : Seq(Seq(X)), rest : Seq(X)]
         /\ \A i \in DOMAIN Split(text).rest : Split(text).rest[i] # NewLine
<1> DEFINE OK(s) == /\ Split(s) \in [lines : Seq(Seq(X)), rest : Seq(X)]
                    /\ \A i \in DOMAIN Split(s).rest : Split(s).rest[i] # NewLine
           Good == {n \in Nat : \A s \in Seq(X) : Len(s) = n => OK(s)}
<1>1. 0 \in Good
  <2>1. ASSUME NEW s \in Seq(X), Len(s) = 0 PROVE OK(s)
    <3>1. s = <<>>
      BY <2>1
    <3>2. Split(s) = NoText
      BY <3>1, NothingRead
    <3> QED
      BY <3>2 DEF NoText
  <2> QED
    BY <2>1
<1>2. ASSUME NEW n \in Nat, n \in Good PROVE n + 1 \in Good
  <2>1. ASSUME NEW s \in Seq(X), Len(s) = n + 1 PROVE OK(s)
    <3>1. PICK r \in Seq(X), c \in X : s = Append(r, c) /\ Len(r) = n
      BY <1>2, <2>1, LastTaken
    <3>2. OK(r)
      BY <1>2, <3>1
    <3>3. Split(s) = readSymbol(Split(r), c)
      BY <3>1, SplitGrows
    <3> DEFINE x == Split(r)
    <3>4. x.lines \in Seq(Seq(X)) /\ x.rest \in Seq(X) /\ x = [lines |-> x.lines, rest |-> x.rest]
          /\ \A i \in DOMAIN x.rest : x.rest[i] # NewLine
      BY <3>2
    <3> HIDE DEF x
    <3>5. CASE c = NewLine
      <4>1. Split(s) = [lines |-> Append(x.lines, x.rest), rest |-> <<>>]
        BY <3>3, <3>5 DEF readSymbol, x
      <4> QED
        BY <3>4, <4>1
    <3>6. CASE c # NewLine
      <4>1. Split(s) = [lines |-> x.lines, rest |-> Append(x.rest, c)]
        BY <3>3, <3>4, <3>6 DEF readSymbol, x
      <4> QED
        BY <3>4, <3>6, <4>1
    <3> QED
      BY <3>5, <3>6
  <2>2. n + 1 \in Nat
    BY <1>2
  <2> HIDE DEF OK
  <2> QED
    BY <2>1, <2>2
<1>3. Nat \subseteq Good
  <2> HIDE DEF Good
  <2> QED
    BY <1>1, <1>2, NumberInduction
<1>4. Len(text) \in Good
  BY <1>3
<1> QED
  BY <1>4
\* A text without a line break is all rest.
LEMMA OpenText ==
  ASSUME NEW X, NEW text \in Seq(X), \A i \in DOMAIN text : text[i] # NewLine
  PROVE  Split(text) = [lines |-> <<>>, rest |-> text]
<1> DEFINE Open(s) == \A i \in DOMAIN s : s[i] # NewLine
           Good == {n \in Nat : \A s \in Seq(X) : Len(s) = n /\ Open(s)
                                                  => Split(s) = [lines |-> <<>>, rest |-> s]}
<1>1. 0 \in Good
  <2>1. ASSUME NEW s \in Seq(X), Len(s) = 0 PROVE Split(s) = [lines |-> <<>>, rest |-> s]
    <3>1. s = <<>>
      BY <2>1
    <3> QED
      BY <3>1, NothingRead DEF NoText
  <2> QED
    BY <2>1
<1>2. ASSUME NEW n \in Nat, n \in Good PROVE n + 1 \in Good
  <2>1. ASSUME NEW s \in Seq(X), Len(s) = n + 1, Open(s) PROVE Split(s) = [lines |-> <<>>, rest |-> s]
    <3>1. PICK r \in Seq(X), c \in X : s = Append(r, c) /\ Len(r) = n
      BY <1>2, <2>1, LastTaken
    <3>2. Open(r) /\ c # NewLine
      <4>1. s[n + 1] = c /\ n + 1 \in DOMAIN s /\ \A i \in DOMAIN r : i \in DOMAIN s /\ s[i] = r[i]
        BY <1>2, <3>1
      <4> QED
        BY <2>1, <4>1
    <3>3. Split(r) = [lines |-> <<>>, rest |-> r]
      BY <1>2, <3>1, <3>2
    <3>4. Split(s) = readSymbol(Split(r), c)
      BY <3>1, SplitGrows
    <3>5. readSymbol([lines |-> <<>>, rest |-> r], c) = [lines |-> <<>>, rest |-> Append(r, c)]
      BY <3>2 DEF readSymbol
    <3> QED
      BY <3>1, <3>3, <3>4, <3>5, Zenon
  <2>2. n + 1 \in Nat
    BY <1>2
  <2> HIDE DEF Open
  <2> QED
    BY <2>1, <2>2
<1>3. Nat \subseteq Good
  <2> HIDE DEF Good
  <2> QED
    BY <1>1, <1>2, NumberInduction
<1>4. Len(text) \in Good
  BY <1>3
<1> QED
  BY <1>4

\* A text in two parts: the second is read behind what the first left open.
LEMMA SplitJoins ==
  ASSUME NEW X, NEW a \in Seq(X), NEW b \in Seq(X)
  PROVE  /\ Split(a \o b).lines = Split(a).lines \o Split(Split(a).rest \o b).lines
         /\ Split(a \o b).rest = Split(Split(a).rest \o b).rest
<1> DEFINE left == Split(a).rest
           done == Split(a).lines
           Joins(s) == /\ Split(a \o s).lines = done \o Split(left \o s).lines
                       /\ Split(a \o s).rest = Split(left \o s).rest
           Good == {n \in Nat : \A s \in Seq(X) : Len(s) = n => Joins(s)}
<1>0. done \in Seq(Seq(X)) /\ left \in Seq(X) /\ \A i \in DOMAIN left : left[i] # NewLine
  BY SplitType
<1> HIDE DEF left, done
<1>1. 0 \in Good
  <2>1. ASSUME NEW s \in Seq(X), Len(s) = 0 PROVE Joins(s)
    <3>1. a \o s = a /\ left \o s = left
      BY <1>0, <2>1
    <3>2. Split(left) = [lines |-> <<>>, rest |-> left]
      BY <1>0, OpenText
    <3>3. done \o <<>> = done
      BY <1>0
    <3>4. Split(a \o s) = Split(a) /\ Split(left \o s) = [lines |-> <<>>, rest |-> left]
      BY <3>1, <3>2, Zenon
    <3>5. Split(a).lines = done /\ Split(a).rest = left
      BY DEF left, done
    <3>6. Split(left \o s).lines = <<>> /\ Split(left \o s).rest = left
      BY <3>4
    <3> QED
      BY <3>3, <3>4, <3>5, <3>6, Zenon
  <2> HIDE DEF Joins
  <2> QED
    BY <2>1
<1>2. ASSUME NEW n \in Nat, n \in Good PROVE n + 1 \in Good
  <2>1. ASSUME NEW s \in Seq(X), Len(s) = n + 1 PROVE Joins(s)
    <3>1. PICK r \in Seq(X), c \in X : s = Append(r, c) /\ Len(r) = n
      BY <1>2, <2>1, LastTaken
    <3>2. Joins(r)
      BY <1>2, <3>1
    <3> DEFINE x == Split(a \o r)
               y == Split(left \o r)
    <3>3. /\ a \o r \in Seq(X) /\ left \o r \in Seq(X)
          /\ a \o s = Append(a \o r, c) /\ left \o s = Append(left \o r, c)
      <4> HIDE DEF x, y
      <4>1. left \in Seq(X)
        BY <1>0
      <4>2. a \o r \in Seq(X) /\ left \o r \in Seq(X)
        BY <4>1
      <4>3. a \o Append(r, c) = Append(a \o r, c)
        BY JoinOneMore
      <4>4. left \o Append(r, c) = Append(left \o r, c)
        BY <4>1, JoinOneMore
      <4> QED
        BY <3>1, <4>2, <4>3, <4>4, Zenon
    <3>4. Split(a \o s) = readSymbol(x, c) /\ Split(left \o s) = readSymbol(y, c)
      BY <3>3, SplitGrows
    <3>5. /\ x \in [lines : Seq(Seq(X)), rest : Seq(X)] /\ y \in [lines : Seq(Seq(X)), rest : Seq(X)]
      BY <3>3, SplitType
    <3>6. x.lines = done \o y.lines /\ x.rest = y.rest
      BY <3>2
    <3> HIDE DEF x, y
    <3>7. CASE c = NewLine
      <4>1. /\ Split(a \o s) = [lines |-> Append(x.lines, x.rest), rest |-> <<>>]
            /\ Split(left \o s) = [lines |-> Append(y.lines, y.rest), rest |-> <<>>]
        BY <3>4, <3>7 DEF readSymbol
      <4>2. Append(done \o y.lines, y.rest) = done \o Append(y.lines, y.rest)
        <5> DEFINE Y == Seq(X)
                   ls == y.lines
                   l == y.rest
        <5>1. done \in Seq(Y) /\ ls \in Seq(Y) /\ l \in Y
          BY <1>0, <3>5
        <5> HIDE DEF Y, ls, l
        <5>2. done \o Append(ls, l) = Append(done \o ls, l)
          BY <5>1, JoinOneMore
        <5> QED
          BY <5>2 DEF ls, l
      <4>3. /\ Split(a \o s).lines = Append(x.lines, x.rest) /\ Split(a \o s).rest = <<>>
            /\ Split(left \o s).lines = Append(y.lines, y.rest) /\ Split(left \o s).rest = <<>>
        BY <4>1
      <4> QED
        BY <3>6, <4>2, <4>3, Zenon
    <3>8. CASE c # NewLine
      <4>1. /\ Split(a \o s) = [x EXCEPT !.rest = Append(x.rest, c)]
            /\ Split(left \o s) = [y EXCEPT !.rest = Append(y.rest, c)]
        BY <3>4, <3>8 DEF readSymbol
      <4> QED
        BY <3>5, <3>6, <4>1
    <3> QED
      BY <3>7, <3>8
  <2>2. n + 1 \in Nat
    BY <1>2
  <2> HIDE DEF Joins
  <2> QED
    BY <2>1, <2>2
<1>3. Nat \subseteq Good
  <2> HIDE DEF Good
  <2> QED
    BY <1>1, <1>2, NumberInduction
<1>4. Len(b) \in Good
  BY <1>3
<1> QED
  BY <1>4 DEF left, done

\* Lines in two parts are read one part after the other.
LEMMA ReadingJoins ==
  ASSUME NEW d, NEW m, NEW X, NEW a \in Seq(X), NEW b \in Seq(X)
  PROVE  Reading(d, m, a \o b) = Reading(d, Reading(d, m, a), b)
<1> DEFINE Joins(s) == Reading(d, m, a \o s) = Reading(d, Reading(d, m, a), s)
           Good == {n \in Nat : \A s \in Seq(X) : Len(s) = n => Joins(s)}
<1>1. 0 \in Good
  <2>1. ASSUME NEW s \in Seq(X), Len(s) = 0 PROVE Joins(s)
    <3>1. a \o s = a /\ s = <<>>
      BY <2>1
    <3> QED
      BY <3>1, NothingRead
  <2> HIDE DEF Joins
  <2> QED
    BY <2>1
<1>2. ASSUME NEW n \in Nat, n \in Good PROVE n + 1 \in Good
  <2>1. ASSUME NEW s \in Seq(X), Len(s) = n + 1 PROVE Joins(s)
    <3>1. PICK r \in Seq(X), line \in X : s = Append(r, line) /\ Len(r) = n
      BY <1>2, <2>1, LastTaken
    <3>2. Joins(r)
      BY <1>2, <3>1
    <3>3. a \o r \in Seq(X) /\ a \o s = Append(a \o r, line)
      BY <3>1, JoinOneMore
    <3>4. /\ Reading(d, m, a \o s) = observeLine(d, Reading(d, m, a \o r), line)
          /\ Reading(d, Reading(d, m, a), s) = observeLine(d, Reading(d, Reading(d, m, a), r), line)
      <4>1. Reading(d, m, Append(a \o r, line)) = observeLine(d, Reading(d, m, a \o r), line)
        <5> DEFINE q == a \o r
        <5>1. q \in Seq(X)
          BY <3>3
        <5> HIDE DEF q
        <5>2. Reading(d, m, Append(q, line)) = observeLine(d, Reading(d, m, q), line)
          BY <5>1, ReadingGrows
        <5> QED
          BY <5>2 DEF q
      <4>2. \A v : Reading(d, v, Append(r, line)) = observeLine(d, Reading(d, v, r), line)
        BY ReadingGrows
      <4> QED
        BY <3>1, <3>3, <4>1, <4>2
    <3> QED
      BY <3>2, <3>4
  <2>2. n + 1 \in Nat
    BY <1>2
  <2> HIDE DEF Joins
  <2> QED
    BY <2>1, <2>2
<1>3. Nat \subseteq Good
  <2> HIDE DEF Good
  <2> QED
    BY <1>1, <1>2, NumberInduction
<1>4. Len(b) \in Good
  BY <1>3
<1> QED
  BY <1>4

\* A text that fits the buffer fits it up to any place.
LEMMA FitsInPart ==
  ASSUME NEW X, NEW a \in Seq(X), NEW b \in Seq(X), Fits(a \o b)
  PROVE  Fits(a) /\ Len(Split(a \o b).rest) <= MaxBuffered
<1> DEFINE text == a \o b
<1>1. /\ Len(a) \in Nat /\ Len(text) \in Nat /\ Len(a) <= Len(text)
      /\ SubSeq(text, 1, Len(text)) = text
  OBVIOUS
<1>2. \A n \in 0 .. Len(a) : SubSeq(text, 1, n) = SubSeq(a, 1, n)
  OBVIOUS
<1>3. \A n \in 0 .. Len(text) : Len(Split(SubSeq(text, 1, n)).rest) <= MaxBuffered
  BY DEF Fits
<1> HIDE DEF text
<1>4. Len(Split(text).rest) <= MaxBuffered
  <2>1. Len(text) \in 0 .. Len(text)
    BY <1>1
  <2> QED
    BY <1>1, <1>3, <2>1
<1>5. ASSUME NEW n \in 0 .. Len(a) PROVE Len(Split(SubSeq(a, 1, n)).rest) <= MaxBuffered
  <2>1. n \in 0 .. Len(text)
    BY <1>1
  <2>2. SubSeq(text, 1, n) = SubSeq(a, 1, n)
    BY <1>2
  <2> QED
    BY <1>3, <2>1, <2>2
<1> QED
  BY <1>4, <1>5 DEF Fits, text

\* Texts joined are a text.
LEMMA JoinedType ==
  ASSUME NEW X, NEW chunks \in Seq(Seq(X))
  PROVE  Joined(chunks) \in Seq(X)
<1> DEFINE Good == {n \in Nat : \A s \in Seq(Seq(X)) : Len(s) = n => Joined(s) \in Seq(X)}
<1>1. 0 \in Good
  <2>1. ASSUME NEW s \in Seq(Seq(X)), Len(s) = 0 PROVE Joined(s) \in Seq(X)
    <3>1. s = <<>> /\ <<>> \in Seq(X)
      BY <2>1
    <3> QED
      BY <3>1, NothingRead
  <2> QED
    BY <2>1
<1>2. ASSUME NEW n \in Nat, n \in Good PROVE n + 1 \in Good
  <2>1. ASSUME NEW s \in Seq(Seq(X)), Len(s) = n + 1 PROVE Joined(s) \in Seq(X)
    <3>1. PICK r \in Seq(Seq(X)), c \in Seq(X) : s = Append(r, c) /\ Len(r) = n
      BY <1>2, <2>1, LastTaken
    <3>2. Joined(r) \in Seq(X)
      BY <1>2, <3>1
    <3>3. Joined(s) = Joined(r) \o c
      BY <3>1, JoinedGrows
    <3> QED
      BY <3>2, <3>3
  <2>2. n + 1 \in Nat
    BY <1>2
  <2> QED
    BY <2>1, <2>2
<1>3. Nat \subseteq Good
  <2> HIDE DEF Good
  <2> QED
    BY <1>1, <1>2, NumberInduction
<1>4. Len(chunks) \in Good
  BY <1>3
<1> QED
  BY <1>4

\* The state of the meter behind a text that fits.
Behind(d, text) == [buffer |-> Split(text).rest, meter |-> Reading(d, Unread, Split(text).lines)]

\* One chunk more.
LEMMA ChunkIsRead ==
  ASSUME MaxBuffered \in Nat, NEW d, NEW X, NEW a \in Seq(X), NEW b \in Seq(X),
         Len(Split(a \o b).rest) <= MaxBuffered
  PROVE  observeSseChunk(d, Behind(d, a), b) = Behind(d, a \o b)
<1> DEFINE left == Split(a).rest
           done == Split(a).lines
           next == Split(left \o b)
           all  == Split(a \o b)
<1>1. done \in Seq(Seq(X)) /\ left \in Seq(X)
  BY SplitType
<1>2. next \in [lines : Seq(Seq(X)), rest : Seq(X)]
  <2> HIDE DEF left
  <2>1. left \o b \in Seq(X)
    BY <1>1
  <2> QED
    BY <2>1, SplitType
<1>3. all.lines = done \o next.lines /\ all.rest = next.rest
  BY SplitJoins
<1>4. observeSseChunk(d, Behind(d, a), b) =
        [buffer |-> Kept(next.rest), meter |-> Reading(d, Reading(d, Unread, done), next.lines)]
  BY DEF observeSseChunk, Behind, Reading
<1> HIDE DEF left, done, next, all
<1>5. Kept(next.rest) = next.rest
  <2>1. Len(next.rest) \in Nat /\ Len(next.rest) <= MaxBuffered
    BY <1>2, <1>3 DEF all
  <2>2. ~(Len(next.rest) > MaxBuffered)
    BY <2>1
  <2> QED
    BY <2>2 DEF Kept
<1>6. Reading(d, Unread, all.lines) = Reading(d, Reading(d, Unread, done), next.lines)
  <2> DEFINE Y == Seq(X)
             ls == next.lines
  <2>1. done \in Seq(Y) /\ ls \in Seq(Y)
    BY <1>1, <1>2
  <2> HIDE DEF Y, ls
  <2>2. Reading(d, Unread, done \o ls) = Reading(d, Reading(d, Unread, done), ls)
    BY <2>1, ReadingJoins
  <2> QED
    BY <1>3, <2>2 DEF ls
<1> QED
  BY <1>3, <1>4, <1>5, <1>6 DEF Behind, all

\* If the whole stream fits, its chunks leave the state that stands behind the whole.
LEMMA ChunksAreRead ==
  ASSUME MaxBuffered \in Nat, NEW d, NEW X, NEW chunks \in Seq(Seq(X)), Fits(Joined(chunks))
  PROVE  StateAfter(d, chunks) = Behind(d, Joined(chunks))
<1> DEFINE Read(s) == StateAfter(d, s) = Behind(d, Joined(s))
           Good == {n \in Nat : \A s \in Seq(Seq(X)) : Len(s) = n /\ Fits(Joined(s)) => Read(s)}
<1>1. 0 \in Good
  <2>1. ASSUME NEW s \in Seq(Seq(X)), Len(s) = 0 PROVE Read(s)
    <3>1. s = <<>>
      BY <2>1
    <3>2. Behind(d, <<>>) = NoState
      BY NothingRead DEF Behind, NoText, NoState
    <3>3. StateAfter(d, <<>>) = NoState /\ Joined(<<>>) = <<>>
      BY NothingRead
    <3> QED
      BY <3>1, <3>2, <3>3
  <2> HIDE DEF Read
  <2> QED
    BY <2>1
<1>2. ASSUME NEW n \in Nat, n \in Good PROVE n + 1 \in Good
  <2>1. ASSUME NEW s \in Seq(Seq(X)), Len(s) = n + 1, Fits(Joined(s)) PROVE Read(s)
    <3>1. PICK r \in Seq(Seq(X)), c \in Seq(X) : s = Append(r, c) /\ Len(r) = n
      BY <1>2, <2>1, LastTaken
    <3> DEFINE a == Joined(r)
    <3>2. Joined(s) = a \o c /\ a \in Seq(X)
      BY <3>1, JoinedGrows, JoinedType
    <3>3. StateAfter(d, s) = observeSseChunk(d, StateAfter(d, r), c)
      BY <3>1, ChunksGrow
    <3>4. Fits(a) => StateAfter(d, r) = Behind(d, a)
      BY <1>2, <3>1
    <3> HIDE DEF a
    <3>5. Fits(a) /\ Len(Split(a \o c).rest) <= MaxBuffered
      BY <2>1, <3>2, FitsInPart
    <3>6. observeSseChunk(d, Behind(d, a), c) = Behind(d, a \o c)
      BY <3>2, <3>5, ChunkIsRead
    <3> QED
      BY <3>2, <3>3, <3>4, <3>5, <3>6
  <2>2. n + 1 \in Nat
    BY <1>2
  <2> HIDE DEF Read
  <2> QED
    BY <2>1, <2>2
<1>3. Nat \subseteq Good
  <2> HIDE DEF Good
  <2> QED
    BY <1>1, <1>2, NumberInduction
<1>4. Len(chunks) \in Good
  BY <1>3
<1> QED
  BY <1>4

\* Joined: of one chunk, of two, of every symbol alone.
LEMMA JoinedOnce ==
  ASSUME NEW X, NEW a \in Seq(X), NEW b \in Seq(X)
  PROVE  Joined(<<a>>) = a /\ Joined(<<a, b>>) = a \o b
<1> DEFINE Y == Seq(X)
<1>1. a \in Y /\ b \in Y
  OBVIOUS
<1>2. <<>> \o a = a
  <2>1. /\ <<>> \in Seq(X) /\ Len(<<>>) = 0 /\ <<>> \o a \in Seq(X)
        /\ Len(<<>> \o a) = Len(a) /\ \A i \in 1 .. Len(a) : (<<>> \o a)[i] = a[i]
    OBVIOUS
  <2> DEFINE q == <<>> \o a
  <2>2. q \in Seq(X) /\ Len(q) = Len(a) /\ \A i \in 1 .. Len(a) : q[i] = a[i]
    BY <2>1
  <2> HIDE DEF q
  <2>3. q = a
    BY <2>2
  <2> QED
    BY <2>3 DEF q
<1> HIDE DEF Y
<1>3. /\ <<>> \in Seq(Y) /\ <<a>> \in Seq(Y)
      /\ Append(<<>>, a) = <<a>> /\ Append(<<a>>, b) = <<a, b>>
  <2>1. <<>> \in Seq(Y) /\ <<a>> \in Seq(Y)
    BY <1>1
  <2>2. Append(<<>>, a) = <<a>>
    BY <1>1
  <2>3. Append(<<a>>, b) = <<a, b>>
    <3> DEFINE u == Append(<<a>>, b)
               v == <<a, b>>
    <3>1. u \in Seq(Y) /\ Len(u) = 2 /\ u[1] = a /\ u[2] = b
      BY <1>1, <2>1
    <3>2. v \in Seq(Y) /\ Len(v) = 2 /\ v[1] = a /\ v[2] = b
      BY <1>1
    <3> HIDE DEF u, v
    <3>3. \A i \in 1 .. 2 : u[i] = v[i]
      BY <3>1, <3>2
    <3>4. u = v
      BY <3>1, <3>2, <3>3
    <3> QED
      BY <3>4 DEF u, v
  <2> QED
    BY <2>1, <2>2, <2>3
<1>4. Joined(<<a>>) = a
  <2>1. Joined(Append(<<>>, a)) = Joined(<<>>) \o a
    BY <1>1, <1>3, JoinedGrows
  <2> QED
    BY <1>2, <1>3, <2>1, NothingRead
<1>5. Joined(Append(<<a>>, b)) = Joined(<<a>>) \o b
  BY <1>1, <1>3, JoinedGrows
<1> QED
  BY <1>3, <1>4, <1>5

\* Symbols joined are the text they came from.
LEMMA JoinedSymbols ==
  ASSUME NEW X, NEW text \in Seq(X)
  PROVE  /\ [i \in DOMAIN text |-> <<text[i]>>] \in Seq(Seq(X))
         /\ Joined([i \in DOMAIN text |-> <<text[i]>>]) = text
<1> DEFINE ReadAlone(s) == [i \in DOMAIN s |-> <<s[i]>>]
           Good == {n \in Nat : \A s \in Seq(X) : Len(s) = n => Joined(ReadAlone(s)) = s}
<1>0. ASSUME NEW s \in Seq(X) PROVE ReadAlone(s) \in Seq(Seq(X)) /\ Len(ReadAlone(s)) = Len(s)
  <2>1. DOMAIN s = 1 .. Len(s) /\ Len(s) \in Nat /\ \A i \in DOMAIN s : <<s[i]>> \in Seq(X)
    OBVIOUS
  <2> DEFINE Y == Seq(X)
  <2>2. ReadAlone(s) \in [1 .. Len(s) -> Y]
    BY <2>1
  <2> HIDE DEF Y, ReadAlone
  <2>3. ReadAlone(s) \in Seq(Y) /\ Len(ReadAlone(s)) = Len(s)
    BY <2>1, <2>2
  <2> QED
    BY <2>3 DEF Y
<1>1. 0 \in Good
  <2>1. ASSUME NEW s \in Seq(X), Len(s) = 0 PROVE Joined(ReadAlone(s)) = s
    <3>1. s = <<>> /\ ReadAlone(s) = <<>>
      <4> HIDE DEF ReadAlone
      <4>1. ReadAlone(s) \in Seq(Seq(X)) /\ Len(ReadAlone(s)) = 0
        BY <1>0, <2>1
      <4> QED
        BY <2>1, <4>1
    <3> HIDE DEF ReadAlone
    <3> QED
      BY <3>1, NothingRead
  <2> QED
    BY <2>1
<1>2. ASSUME NEW n \in Nat, n \in Good PROVE n + 1 \in Good
  <2>1. ASSUME NEW s \in Seq(X), Len(s) = n + 1 PROVE Joined(ReadAlone(s)) = s
    <3>1. PICK r \in Seq(X), c \in X : s = Append(r, c) /\ Len(r) = n
      BY <1>2, <2>1, LastTaken
    <3>2. Joined(ReadAlone(r)) = r
      BY <1>2, <3>1
    <3>3. ReadAlone(s) = Append(ReadAlone(r), <<c>>)
      <4>1. /\ DOMAIN s = 1 .. (n + 1) /\ DOMAIN r = 1 .. n /\ s[n + 1] = c
            /\ \A i \in 1 .. n : s[i] = r[i]
        BY <1>2, <3>1
      <4>2. \A i \in 1 .. (n + 1) : ReadAlone(s)[i] = IF i = n + 1 THEN <<c>> ELSE ReadAlone(r)[i]
        BY <1>2, <4>1
      <4> DEFINE u == ReadAlone(s)
                 v == ReadAlone(r)
                 w == Append(v, <<c>>)
                 Y == Seq(X)
      <4>3. u \in Seq(Y) /\ Len(u) = n + 1 /\ v \in Seq(Y) /\ Len(v) = n /\ <<c>> \in Y
        BY <1>0, <2>1, <3>1
      <4>4. \A i \in 1 .. (n + 1) : u[i] = IF i = n + 1 THEN <<c>> ELSE v[i]
        BY <4>2
      <4> HIDE DEF u, v, Y
      <4>5. w \in Seq(Y) /\ Len(w) = n + 1 /\ \A i \in 1 .. (n + 1) : w[i] = IF i = n + 1 THEN <<c>> ELSE v[i]
        BY <1>2, <4>3
      <4>6. u = w
        <5> HIDE DEF w
        <5> QED
          BY <4>3, <4>4, <4>5
      <4> QED
        BY <4>6 DEF u, v
    <3>4. Joined(Append(ReadAlone(r), <<c>>)) = Joined(ReadAlone(r)) \o <<c>>
      <4> DEFINE v == ReadAlone(r)
                 Y == Seq(X)
      <4>1. v \in Seq(Y) /\ <<c>> \in Y
        BY <1>0
      <4> HIDE DEF v, Y
      <4>2. Joined(Append(v, <<c>>)) = Joined(v) \o <<c>>
        BY <4>1, JoinedGrows
      <4> QED
        BY <4>2 DEF v
    <3>5. r \o <<c>> = Append(r, c)
      OBVIOUS
    <3> HIDE DEF ReadAlone
    <3> QED
      BY <3>1, <3>2, <3>3, <3>4, <3>5, Zenon
  <2>2. n + 1 \in Nat
    BY <1>2
  <2> HIDE DEF ReadAlone
  <2> QED
    BY <2>1, <2>2
<1>3. Nat \subseteq Good
  <2> HIDE DEF Good
  <2> QED
    BY <1>1, <1>2, NumberInduction
<1>4. Len(text) \in Good
  BY <1>3
<1> QED
  BY <1>0, <1>4

\* However the network cuts a stream whose lines fit the buffer, the meter reads
\* what it reads of the whole.
THEOREM AnyChunksReadTheSame ==
  ASSUME MaxBuffered \in Nat, NEW d, NEW X, NEW chunks \in Seq(Seq(X)), Fits(Joined(chunks))
  PROVE  Metered(d, chunks) = Metered(d, <<Joined(chunks)>>)
<1> DEFINE all == Joined(chunks)
           Y   == Seq(X)
<1>1. all \in Y
  BY JoinedType
<1>2. <<all>> \in Seq(Y) /\ Joined(<<all>>) = all
  <2> HIDE DEF all
  <2>1. <<all>> \in Seq(Y)
    BY <1>1
  <2> QED
    BY <1>1, <2>1, JoinedOnce
<1>3. StateAfter(d, chunks) = Behind(d, all)
  BY ChunksAreRead
<1>4. StateAfter(d, <<all>>) = Behind(d, all)
  <2>1. Fits(all)
    OBVIOUS
  <2> HIDE DEF all
  <2>2. <<all>> \in Seq(Seq(X)) /\ Fits(Joined(<<all>>))
    BY <1>2, <2>1
  <2>3. StateAfter(d, <<all>>) = Behind(d, Joined(<<all>>))
    BY <2>2, ChunksAreRead
  <2> QED
    BY <1>2, <2>3
<1>5. \A s : Metered(d, s) = StateAfter(d, s).meter
  BY DEF Metered, StateAfter, NoState
<1> HIDE DEF all
<1>6. Metered(d, chunks) = Metered(d, <<all>>)
  BY <1>3, <1>4, <1>5
<1> QED
  BY <1>6 DEF all

\* ChunksDoNotMatter, for every stream whose lines fit the buffer.
THEOREM ChunksNeverMatter ==
  ASSUME MaxBuffered \in Nat, NEW d, NEW X, NEW stream \in Seq(X)
  PROVE  ChunksDoNotMatter(d, stream)
<1>0. SUFFICES ASSUME Fits(stream) PROVE ChunksDoNotMatter(d, stream)
  BY DEF ChunksDoNotMatter
<1> DEFINE single == [i \in DOMAIN stream |-> <<stream[i]>>]
<1>1. Metered(d, single) = Metered(d, <<stream>>)
  <2>1. single \in Seq(Seq(X)) /\ Joined(single) = stream
    BY JoinedSymbols
  <2> HIDE DEF single
  <2> QED
    BY <1>0, <2>1, AnyChunksReadTheSame
<1>2. ASSUME NEW cut \in 0 .. Len(stream)
      PROVE  Metered(d, <<SubSeq(stream, 1, cut), SubSeq(stream, cut + 1, Len(stream))>>) = Metered(d, <<stream>>)
  <2> DEFINE a == SubSeq(stream, 1, cut)
             b == SubSeq(stream, cut + 1, Len(stream))
  <2>1. a \in Seq(X) /\ b \in Seq(X) /\ a \o b = stream
    <3>1. /\ Len(stream) \in Nat /\ cut \in Nat /\ cut <= Len(stream)
          /\ a \in Seq(X) /\ Len(a) = cut /\ \A i \in 1 .. cut : a[i] = stream[i]
      OBVIOUS
    <3>2. /\ b \in Seq(X) /\ Len(b) = Len(stream) - cut
          /\ \A i \in 1 .. (Len(stream) - cut) : b[i] = stream[cut + i]
      BY <3>1
    <3> HIDE DEF a, b
    <3> DEFINE u == a \o b
    <3>3. /\ u \in Seq(X) /\ Len(u) = Len(stream)
          /\ \A i \in 1 .. Len(stream) : u[i] = IF i <= cut THEN a[i] ELSE b[i - cut]
      BY <3>1, <3>2
    <3>4. ASSUME NEW i \in 1 .. Len(stream) PROVE u[i] = stream[i]
      <4>1. CASE i <= cut
        BY <3>1, <3>3, <4>1
      <4>2. CASE ~(i <= cut)
        <5>1. i - cut \in 1 .. (Len(stream) - cut) /\ cut + (i - cut) = i
          BY <3>1, <4>2
        <5> QED
          BY <3>2, <3>3, <4>2, <5>1
      <4> QED
        BY <4>1, <4>2
    <3> HIDE DEF u
    <3>5. u = stream
      BY <3>3, <3>4
    <3> QED
      BY <3>1, <3>2, <3>5 DEF u
  <2> HIDE DEF a, b
  <2>2. <<a, b>> \in Seq(Seq(X)) /\ Joined(<<a, b>>) = stream
    <3>1. <<a, b>> \in Seq(Seq(X))
      BY <2>1
    <3> QED
      BY <2>1, <3>1, JoinedOnce
  <2>3. Metered(d, <<a, b>>) = Metered(d, <<stream>>)
    BY <1>0, <2>2, AnyChunksReadTheSame
  <2> QED
    BY <2>3 DEF a, b
<1> QED
  BY <1>1, <1>2 DEF ChunksDoNotMatter

\* Open texts join to an open text.
LEMMA OpenJoined ==
  ASSUME NEW X, NEW b \in Seq(X), NEW chunk \in Seq(X),
         \A i \in DOMAIN b : b[i] # NewLine, \A i \in DOMAIN chunk : chunk[i] # NewLine
  PROVE  /\ b \o chunk \in Seq(X) /\ \A i \in DOMAIN (b \o chunk) : (b \o chunk)[i] # NewLine
         /\ Len(b \o chunk) = Len(b) + Len(chunk)
<1> DEFINE text == b \o chunk
<1>1. DOMAIN b = 1 .. Len(b) /\ Len(b) \in Nat /\ DOMAIN chunk = 1 .. Len(chunk) /\ Len(chunk) \in Nat
  OBVIOUS
<1>2. /\ text \in Seq(X) /\ DOMAIN text = 1 .. (Len(b) + Len(chunk)) /\ Len(text) = Len(b) + Len(chunk)
      /\ \A i \in 1 .. (Len(b) + Len(chunk)) : text[i] = IF i <= Len(b) THEN b[i] ELSE chunk[i - Len(b)]
  BY <1>1
<1> HIDE DEF text
<1>3. ASSUME NEW i \in DOMAIN text PROVE text[i] # NewLine
  <2>1. CASE i <= Len(b)
    BY <1>1, <1>2, <2>1
  <2>2. CASE ~(i <= Len(b))
    <3>1. i - Len(b) \in DOMAIN chunk
      BY <1>1, <1>2, <2>2
    <3> QED
      BY <1>2, <2>2, <3>1
  <2> QED
    BY <2>1, <2>2
<1> QED
  BY <1>2, <1>3 DEF text

\* A text without line breaks adds to the buffer, of which the end is kept.
LEMMA OpenChunk ==
  ASSUME MaxBuffered \in Nat, NEW d, NEW X, NEW state, NEW chunk \in Seq(X), state.buffer \in Seq(X),
         \A i \in DOMAIN state.buffer : state.buffer[i] # NewLine,
         \A i \in DOMAIN chunk : chunk[i] # NewLine
  PROVE  observeSseChunk(d, state, chunk) = [buffer |-> Kept(state.buffer \o chunk), meter |-> state.meter]
<1> DEFINE b == state.buffer
           text == b \o chunk
<1>1. text \in Seq(X) /\ \A i \in DOMAIN text : text[i] # NewLine
  <2>1. b \in Seq(X) /\ \A i \in DOMAIN b : b[i] # NewLine
    OBVIOUS
  <2> HIDE DEF b
  <2> QED
    BY <2>1, OpenJoined
<1>2. Split(text) = [lines |-> <<>>, rest |-> text]
  <2> HIDE DEF text
  <2> QED
    BY <1>1, OpenText
<1>3. observeSseChunk(d, state, chunk) =
        [buffer |-> Kept(Split(text).rest), meter |-> Reading(d, state.meter, Split(text).lines)]
  BY DEF observeSseChunk, Reading
<1> HIDE DEF text
<1>4. Reading(d, state.meter, <<>>) = state.meter
  BY NothingRead
<1>5. observeSseChunk(d, state, chunk) = [buffer |-> Kept(text), meter |-> state.meter]
  BY <1>2, <1>3, <1>4
<1> QED
  BY <1>5 DEF text

\* The end that is kept is as open, and as long as the buffer.
LEMMA KeptIsOpen ==
  ASSUME MaxBuffered \in Nat, NEW X, NEW text \in Seq(X), \A i \in DOMAIN text : text[i] # NewLine
  PROVE  /\ Kept(text) \in Seq(X) /\ \A i \in DOMAIN Kept(text) : Kept(text)[i] # NewLine
         /\ Len(Kept(text)) = IF Len(text) > MaxBuffered THEN MaxBuffered ELSE Len(text)
<1> DEFINE kept == Kept(text)
<1>1. CASE ~(Len(text) > MaxBuffered)
  BY <1>1 DEF Kept
<1>2. CASE Len(text) > MaxBuffered
  <2> DEFINE s == SubSeq(text, Len(text) - MaxBuffered + 1, Len(text))
  <2>1. kept = s
    BY <1>2 DEF Kept
  <2>2. Len(text) \in Nat /\ DOMAIN text = 1 .. Len(text)
    OBVIOUS
  <2>3. /\ s \in Seq(X) /\ Len(s) = MaxBuffered /\ DOMAIN s = 1 .. MaxBuffered
        /\ \A i \in 1 .. MaxBuffered : s[i] = text[Len(text) - MaxBuffered + i]
    BY <1>2, <2>2
  <2>4. \A i \in 1 .. MaxBuffered : Len(text) - MaxBuffered + i \in DOMAIN text
    BY <1>2, <2>2
  <2> HIDE DEF s
  <2>5. \A i \in DOMAIN s : s[i] # NewLine
    BY <2>3, <2>4
  <2> QED
    BY <1>2, <2>1, <2>3, <2>5
<1> QED
  BY <1>1, <1>2

\* What the buffer holds is the end of a line.
LEMMA BufferIsOpen ==
  ASSUME MaxBuffered \in Nat, NEW d, NEW X, NEW text \in Seq(X)
  PROVE  /\ StateAfter(d, <<text>>).buffer \in Seq(X)
         /\ \A i \in DOMAIN StateAfter(d, <<text>>).buffer : StateAfter(d, <<text>>).buffer[i] # NewLine
<1> DEFINE rest == Split(text).rest
           kept == Kept(rest)
<1>1. rest \in Seq(X) /\ \A i \in DOMAIN rest : rest[i] # NewLine
  BY SplitType
<1>2. StateAfter(d, <<text>>).buffer = kept
  <2>1. <<>> \o text = text
    <3>1. Joined(<<text>>) = text
      BY JoinedOnce
    <3>2. <<>> \in Seq(Seq(X)) /\ Append(<<>>, text) = <<text>>
      OBVIOUS
    <3>3. Joined(Append(<<>>, text)) = Joined(<<>>) \o text
      BY <3>2, JoinedGrows
    <3> QED
      BY <3>1, <3>2, <3>3, NothingRead
  <2>2. StateAfter(d, Append(<<>>, text)) = observeSseChunk(d, StateAfter(d, <<>>), text)
    <3> DEFINE Y == Seq(X)
    <3>1. <<>> \in Seq(Y) /\ text \in Y
      OBVIOUS
    <3> HIDE DEF Y
    <3> QED
      BY <3>1, ChunksGrow
  <2>3. Append(<<>>, text) = <<text>>
    OBVIOUS
  <2>4. StateAfter(d, <<text>>) = observeSseChunk(d, NoState, text)
    BY <2>2, <2>3, NothingRead
  <2>5. observeSseChunk(d, NoState, text).buffer = Kept(Split(<<>> \o text).rest)
    BY DEF observeSseChunk, NoState
  <2> QED
    BY <2>1, <2>4, <2>5
<1> HIDE DEF rest
<1>3. kept \in Seq(X) /\ \A i \in DOMAIN kept : kept[i] # NewLine
  BY <1>1, KeptIsOpen
<1> QED
  BY <1>2, <1>3

\* LongLineIsSkipped, for every line longer than an event may be, behind any
\* text: what is charged is what the text in front of it reports.
THEOREM LongLinesAreSkipped ==
  ASSUME MaxEvent \in Nat, MaxBuffered \in Nat, MaxEvent < MaxBuffered, NEW d, NEW X, NewLine \in X,
         NEW before \in Seq(X), NEW long \in Seq(X), \A i \in DOMAIN long : long[i] # NewLine
  PROVE  LongLineIsSkipped(d, before, long)
<1> SUFFICES ASSUME Len(long) > MaxEvent
             PROVE  Metered(d, <<before, long, <<NewLine>>>>) = Metered(d, <<before>>)
  BY DEF LongLineIsSkipped
<1> DEFINE first  == StateAfter(d, <<before>>)
           second == StateAfter(d, <<before, long>>)
           third  == StateAfter(d, <<before, long, <<NewLine>>>>)
           break  == <<NewLine>>
           text   == first.buffer \o long
           line   == Kept(text)
<1>1. /\ <<before>> \in Seq(Seq(X)) /\ <<before, long>> \in Seq(Seq(X)) /\ break \in Seq(X)
      /\ Append(<<before>>, long) = <<before, long>>
      /\ Append(<<before, long>>, break) = <<before, long, break>>
  <2> DEFINE Y == Seq(X)
  <2>1. before \in Y /\ long \in Y /\ break \in Y
    OBVIOUS
  <2> HIDE DEF Y, break
  <2>2. <<before>> \in Seq(Y) /\ <<before, long>> \in Seq(Y)
    BY <2>1
  <2>3. Append(<<before>>, long) = <<before, long>>
    <3> DEFINE u == Append(<<before>>, long)
               v == <<before, long>>
    <3>1. u \in Seq(Y) /\ Len(u) = 2 /\ u[1] = before /\ u[2] = long
      BY <2>1, <2>2
    <3>2. v \in Seq(Y) /\ Len(v) = 2 /\ v[1] = before /\ v[2] = long
      BY <2>1
    <3> HIDE DEF u, v
    <3>3. u = v
      BY <3>1, <3>2
    <3> QED
      BY <3>3 DEF u, v
  <2>4. Append(<<before, long>>, break) = <<before, long, break>>
    <3> DEFINE u == Append(<<before, long>>, break)
               v == <<before, long, break>>
    <3>1. u \in Seq(Y) /\ Len(u) = 3 /\ u[1] = before /\ u[2] = long /\ u[3] = break
      BY <2>1, <2>2
    <3>2. v \in Seq(Y) /\ Len(v) = 3 /\ v[1] = before /\ v[2] = long /\ v[3] = break
      BY <2>1
    <3> HIDE DEF u, v
    <3>3. u = v
      BY <3>1, <3>2
    <3> QED
      BY <3>3 DEF u, v
  <2> QED
    BY <2>1, <2>2, <2>3, <2>4 DEF Y
<1>2. second = observeSseChunk(d, first, long)
  <2>1. StateAfter(d, Append(<<before>>, long)) = observeSseChunk(d, first, long)
    BY <1>1, ChunksGrow
  <2> QED
    BY <1>1, <2>1
<1>3. third = observeSseChunk(d, second, break)
  <2> DEFINE two == <<before, long>>
  <2>1. two \in Seq(Seq(X)) /\ break \in Seq(X)
    BY <1>1
  <2> HIDE DEF two, break
  <2>2. StateAfter(d, Append(two, break)) = observeSseChunk(d, StateAfter(d, two), break)
    BY <2>1, ChunksGrow
  <2> QED
    BY <1>1, <2>2 DEF two, break
<1>4. first.buffer \in Seq(X) /\ \A i \in DOMAIN first.buffer : first.buffer[i] # NewLine
  BY BufferIsOpen
<1> HIDE DEF first, second, third, break
<1>5. second = [buffer |-> line, meter |-> first.meter]
  BY <1>2, <1>4, OpenChunk
<1>6. /\ line \in Seq(X) /\ \A i \in DOMAIN line : line[i] # NewLine
      /\ Len(line) > MaxEvent
  <2> DEFINE b == first.buffer
  <2>1. b \in Seq(X) /\ (\A i \in DOMAIN b : b[i] # NewLine) /\ Len(b) \in Nat /\ Len(long) \in Nat
    BY <1>4
  <2> HIDE DEF b
  <2>2. /\ b \o long \in Seq(X) /\ \A i \in DOMAIN (b \o long) : (b \o long)[i] # NewLine
        /\ Len(b \o long) = Len(b) + Len(long)
    BY <2>1, OpenJoined
  <2>3. text = b \o long
    BY DEF b
  <2> HIDE DEF text
  <2>4. text \in Seq(X) /\ (\A i \in DOMAIN text : text[i] # NewLine) /\ Len(text) = Len(b) + Len(long)
    BY <2>2, <2>3
  <2>5. /\ Kept(text) \in Seq(X) /\ \A i \in DOMAIN Kept(text) : Kept(text)[i] # NewLine
        /\ Len(Kept(text)) = IF Len(text) > MaxBuffered THEN MaxBuffered ELSE Len(text)
    BY <2>4, KeptIsOpen
  <2> QED
    BY <2>1, <2>4, <2>5
<1> HIDE DEF text, line
<1>7. Split(line \o break) = [lines |-> <<line>>, rest |-> <<>>]
  <2>1. line \o break = Append(line, NewLine)
    BY <1>6 DEF break
  <2>2. Split(line) = [lines |-> <<>>, rest |-> line]
    BY <1>6, OpenText
  <2>3. Split(Append(line, NewLine)) = readSymbol(Split(line), NewLine)
    BY <1>6, SplitGrows
  <2>4. Append(<<>>, line) = <<line>>
    BY <1>6
  <2>5. readSymbol([lines |-> <<>>, rest |-> line], NewLine) = [lines |-> Append(<<>>, line), rest |-> <<>>]
    BY DEF readSymbol
  <2> QED
    BY <2>1, <2>2, <2>3, <2>4, <2>5, Zenon
<1>8. Reading(d, first.meter, <<line>>) = first.meter
  <2>1. <<>> \in Seq(Seq(X)) /\ Append(<<>>, line) = <<line>>
    BY <1>6
  <2>2. Reading(d, first.meter, Append(<<>>, line)) = observeLine(d, Reading(d, first.meter, <<>>), line)
    <3> DEFINE Y == Seq(X)
               m == first.meter
               none == <<>>
    <3>1. none \in Seq(Y) /\ line \in Y
      BY <1>6
    <3> HIDE DEF Y, m, none
    <3>2. Reading(d, m, Append(none, line)) = observeLine(d, Reading(d, m, none), line)
      BY <3>1, ReadingGrows
    <3> QED
      BY <3>2 DEF m, none
  <2>3. Len(line) \in Nat /\ ~(Len(line) <= MaxEvent)
    BY <1>6
  <2>4. Events(line) = {}
    BY <2>3 DEF Events
  <2>5. observeLine(d, first.meter, line) = first.meter
    BY <2>4 DEF observeLine
  <2> QED
    BY <2>1, <2>2, <2>5, NothingRead
<1>9. third.meter = Reading(d, second.meter, Split(second.buffer \o break).lines)
  BY <1>3 DEF observeSseChunk, Reading
<1>10. third.meter = first.meter
  <2>1. second.buffer = line /\ second.meter = first.meter
    BY <1>5
  <2>2. Split(line \o break).lines = <<line>>
    BY <1>7
  <2> QED
    BY <1>8, <1>9, <2>1, <2>2
<1>11. \A s : Metered(d, s) = StateAfter(d, s).meter
  BY DEF Metered, StateAfter, NoState
<1> QED
  BY <1>10, <1>11 DEF first, third, break

\* What a payload can report: a count, or none.
Numbers == Nat \cup {Null}
Usages ==
  [input_tokens : Numbers, output_tokens : Numbers, total_tokens : Numbers, prompt_tokens : Numbers,
   completion_tokens : Numbers, cached_tokens : Numbers, cache_read_input_tokens : Numbers,
   reasoning_tokens : Numbers]
Reports(Reasons) ==
  [usage : Usages \cup {Null}, message : Usages \cup {Null},
   choice : Reasons, delta : Reasons, stop : Reasons, status : Reasons]
Meters(Reasons) ==
  [input : Numbers, output : Numbers, total : Numbers, cached : Numbers, thinking : Numbers, reason : Reasons]

\* What observing one makes of a meter.
LEMMA ObserveType ==
  ASSUME Null \notin Nat, Null \notin Usages, NEW Reasons, NEW m \in Meters(Reasons), NEW p \in Reports(Reasons),
         NEW d
  PROVE  /\ usageObject(p) \in Usages \cup {Null}
         /\ observe(d, m, p) \in Meters(Reasons)
         /\ usageObject(p) = Null => /\ observe(d, m, p).input = m.input /\ observe(d, m, p).output = m.output
                                     /\ observe(d, m, p).total = m.total
         /\ usageObject(p) # Null /\ d = "anthropic" =>
              /\ observe(d, m, p).input = observeAnthropic(m, usageObject(p)).input
              /\ observe(d, m, p).output = observeAnthropic(m, usageObject(p)).output
         /\ usageObject(p) # Null /\ d # "anthropic" =>
              observe(d, m, p).total = observeOpenai(m, usageObject(p)).total
<1> DEFINE u == usageObject(p)
           stopped == [m EXCEPT !.reason = Or(readFinishReason(p), @)]
           detailed == [stopped EXCEPT !.cached = Or(u.cache_read_input_tokens, Or(u.cached_tokens, @)),
                                       !.thinking = Or(u.reasoning_tokens, @)]
<1>1. u \in Usages \cup {Null}
  BY DEF Reports, usageObject, Or
<1>2. readFinishReason(p) \in Reasons
  BY DEF Reports, readFinishReason, Or
<1>3. /\ stopped \in Meters(Reasons) /\ stopped.input = m.input /\ stopped.output = m.output
      /\ stopped.total = m.total
  BY <1>2 DEF Meters, Or
<1>4. observe(d, m, p) = IF u = Null THEN stopped
                         ELSE IF d = "anthropic" THEN observeAnthropic(detailed, u) ELSE observeOpenai(detailed, u)
  BY DEF observe
<1> HIDE DEF u, stopped
<1>5. u # Null => /\ detailed \in Meters(Reasons) /\ detailed.input = m.input /\ detailed.output = m.output
                  /\ detailed.total = m.total
  <2> DEFINE cachedNow   == Or(u.cache_read_input_tokens, Or(u.cached_tokens, stopped.cached))
             thinkingNow == Or(u.reasoning_tokens, stopped.thinking)
  <2>1. ASSUME u # Null PROVE cachedNow \in Numbers /\ thinkingNow \in Numbers
    <3>1. u \in Usages
      BY <1>1, <2>1
    <3>2. /\ u.cache_read_input_tokens \in Numbers /\ u.cached_tokens \in Numbers
          /\ u.reasoning_tokens \in Numbers
      BY <3>1 DEF Usages
    <3>3. stopped.cached \in Numbers /\ stopped.thinking \in Numbers
      BY <1>3 DEF Meters
    <3> QED
      BY <3>2, <3>3 DEF Or
  <2>2. detailed = [stopped EXCEPT !.cached = cachedNow, !.thinking = thinkingNow]
    OBVIOUS
  <2> HIDE DEF detailed, cachedNow, thinkingNow
  <2> QED
    BY <1>3, <2>1, <2>2 DEF Meters
<1> HIDE DEF detailed
<1>6. u # Null => /\ observeAnthropic(detailed, u) \in Meters(Reasons)
                  /\ observeAnthropic(detailed, u).input = observeAnthropic(m, u).input
                  /\ observeAnthropic(detailed, u).output = observeAnthropic(m, u).output
  BY <1>1, <1>5 DEF Meters, Usages, observeAnthropic, Numbers
<1>7. u # Null => /\ observeOpenai(detailed, u) \in Meters(Reasons)
                  /\ observeOpenai(detailed, u).total = observeOpenai(m, u).total
  <2> SUFFICES ASSUME u # Null
               PROVE  /\ observeOpenai(detailed, u) \in Meters(Reasons)
                      /\ observeOpenai(detailed, u).total = observeOpenai(m, u).total
    OBVIOUS
  <2> DEFINE inputNow  == Or(prompt(u), detailed.input)
             outputNow == Or(completion(u), detailed.output)
             totalNow(old) == IF u.total_tokens # Null THEN u.total_tokens
                              ELSE IF prompt(u) = Null /\ completion(u) = Null THEN old
                              ELSE Count(prompt(u)) + Count(completion(u))
  <2>1. u \in Usages
    BY <1>1
  <2>2. u.total_tokens \in Numbers /\ prompt(u) \in Numbers /\ completion(u) \in Numbers
    BY <2>1 DEF Usages, prompt, completion, Or
  <2>3. detailed.input \in Numbers /\ detailed.output \in Numbers /\ detailed.total \in Numbers
    BY <1>5 DEF Meters
  <2>4. inputNow \in Numbers /\ outputNow \in Numbers
    BY <2>2, <2>3 DEF Or
  <2>5. Count(prompt(u)) \in Nat /\ Count(completion(u)) \in Nat
    BY <2>2 DEF Count, Numbers
  <2>6. totalNow(detailed.total) \in Numbers
    BY <2>2, <2>3, <2>5 DEF Numbers
  <2>7. observeOpenai(detailed, u) =
          [detailed EXCEPT !.input = inputNow, !.output = outputNow, !.total = totalNow(detailed.total)]
    BY DEF observeOpenai
  <2>8. observeOpenai(m, u).total = totalNow(m.total)
    BY DEF observeOpenai, Meters
  <2>9. totalNow(detailed.total) = totalNow(m.total)
    BY <1>5
  <2> HIDE DEF inputNow, outputNow, totalNow
  <2> QED
    BY <1>5, <2>4, <2>6, <2>7, <2>8, <2>9 DEF Meters
<1>8. CASE u = Null
  BY <1>1, <1>3, <1>4, <1>8 DEF u
<1>9. CASE u # Null
  <2>1. observe(d, m, p) = IF d = "anthropic" THEN observeAnthropic(detailed, u) ELSE observeOpenai(detailed, u)
    BY <1>4, <1>9
  <2> QED
    BY <1>1, <1>6, <1>7, <1>9, <2>1 DEF u
<1> QED
  BY <1>8, <1>9

\* A meter reads numbers and reasons, whatever the payloads.
LEMMA ObservedType ==
  ASSUME Null \notin Nat, Null \notin Usages, NEW Reasons, Null \in Reasons,
         NEW payloads \in Seq(Reports(Reasons)), NEW d
  PROVE  Observed(d, payloads) \in Meters(Reasons)
<1> DEFINE R == Reports(Reasons)
           Good == {n \in Nat : \A s \in Seq(R) : Len(s) = n => Observed(d, s) \in Meters(Reasons)}
<1>1. 0 \in Good
  <2>1. Unread \in Meters(Reasons)
    BY DEF Unread, Meters, Numbers
  <2>2. ASSUME NEW s \in Seq(R), Len(s) = 0 PROVE Observed(d, s) \in Meters(Reasons)
    <3>1. s = <<>>
      BY <2>2
    <3> QED
      BY <2>1, <3>1, NothingRead
  <2> QED
    BY <2>2
<1>2. ASSUME NEW n \in Nat, n \in Good PROVE n + 1 \in Good
  <2>1. ASSUME NEW s \in Seq(R), Len(s) = n + 1 PROVE Observed(d, s) \in Meters(Reasons)
    <3> HIDE DEF R
    <3>1. PICK r \in Seq(R), p \in R : s = Append(r, p) /\ Len(r) = n
      BY <1>2, <2>1, LastTaken
    <3>2. Observed(d, r) \in Meters(Reasons)
      BY <1>2, <3>1
    <3>3. Observed(d, s) = observe(d, Observed(d, r), p)
      BY <3>1, ObservedGrows
    <3>4. observe(d, Observed(d, r), p) \in Meters(Reasons)
      BY <3>2, ObserveType DEF R
    <3> QED
      BY <3>3, <3>4
  <2>2. n + 1 \in Nat
    BY <1>2
  <2> HIDE DEF R
  <2> QED
    BY <2>1, <2>2
<1>3. Nat \subseteq Good
  <2> HIDE DEF Good
  <2> QED
    BY <1>1, <1>2, NumberInduction
<1>4. Len(payloads) \in Good
  BY <1>3
<1> QED
  BY <1>4

\* The places of the payloads that report a count, in the words of each dialect.
Counts(u) == <<prompt(u), completion(u), u.total_tokens>> # <<Null, Null, Null>>
Counting(s) == {i \in DOMAIN s : usageObject(s[i]) # Null /\ Counts(usageObject(s[i]))}
ChargeOf(u) == IF u.total_tokens # Null THEN u.total_tokens ELSE Count(prompt(u)) + Count(completion(u))

\* The total of a meter that observes one more payload.
LEMMA TotalGrows ==
  ASSUME Null \notin Nat, Null \notin Usages, NEW Reasons, NEW m \in Meters(Reasons), NEW p \in Reports(Reasons)
  PROVE  observe("openai", m, p).total =
           IF usageObject(p) # Null /\ Counts(usageObject(p)) THEN ChargeOf(usageObject(p)) ELSE m.total
<1> DEFINE u == usageObject(p)
<1> HIDE DEF u
<1>0. "openai" # "anthropic"
  OBVIOUS
<1>1. u = Null => observe("openai", m, p).total = m.total
  BY ObserveType DEF u
<1>2. u # Null => observe("openai", m, p).total = observeOpenai(m, u).total
  BY <1>0, ObserveType DEF u
<1>3. observeOpenai(m, u).total = IF u.total_tokens # Null THEN u.total_tokens
                                  ELSE IF prompt(u) = Null /\ completion(u) = Null THEN m.total
                                  ELSE Count(prompt(u)) + Count(completion(u))
  BY DEF observeOpenai, Meters
<1>4. Counts(u) <=> u.total_tokens # Null \/ prompt(u) # Null \/ completion(u) # Null
  BY DEF Counts
<1>5. observeOpenai(m, u).total = IF Counts(u) THEN ChargeOf(u) ELSE m.total
  BY <1>3, <1>4 DEF ChargeOf
<1> QED
  BY <1>1, <1>2, <1>5 DEF u

\* What the OpenAI meter charges is the last word of the upstream that counts
\* anything, whatever else it reported before and after; the request keeps its
\* estimate only if it reported nothing.
THEOREM LastWordAlwaysCharged ==
  ASSUME Null \notin Nat, Null \notin Usages, NEW Reasons, Null \in Reasons,
         NEW payloads \in Seq(Reports(Reasons))
  PROVE  LastWordIsCharged(payloads)
<1> DEFINE R == Reports(Reasons)
           LastPlace(s) == CHOOSE i \in Counting(s) : \A j \in Counting(s) : j <= i
           Reads(s) == Observed("openai", s).total =
                           IF Counting(s) = {} THEN Null ELSE ChargeOf(usageObject(s[LastPlace(s)]))
           Good == {n \in Nat : \A s \in Seq(R) : Len(s) = n => Reads(s)}
<1> HIDE DEF R
<1>1. 0 \in Good
  <2> SUFFICES ASSUME NEW s \in Seq(R), Len(s) = 0 PROVE Reads(s)
    OBVIOUS
  <2>1. s = <<>>
    OBVIOUS
  <2>2. Observed("openai", s).total = Null
    BY <2>1, NothingRead DEF Unread
  <2>3. Counting(s) = {}
    BY <2>1 DEF Counting
  <2> QED
    BY <2>2, <2>3
<1>2. ASSUME NEW n \in Nat, n \in Good PROVE n + 1 \in Good
  <2> SUFFICES ASSUME NEW s \in Seq(R), Len(s) = n + 1 PROVE Reads(s)
    BY <1>2
  <2>1. PICK r \in Seq(R), p \in R : s = Append(r, p) /\ Len(r) = n
    BY <1>2, LastTaken
  <2>2. Reads(r)
    BY <1>2, <2>1
  <2>3. /\ DOMAIN r = 1 .. n /\ DOMAIN s = 1 .. (n + 1) /\ s[n + 1] = p
        /\ \A i \in 1 .. n : s[i] = r[i]
    BY <2>1
  <2> DEFINE u == usageObject(p)
             says == u # Null /\ Counts(u)
  <2>4. Observed("openai", s).total = IF says THEN ChargeOf(u) ELSE Observed("openai", r).total
    <3>1. Observed("openai", s) = observe("openai", Observed("openai", r), p)
      BY <2>1, ObservedGrows
    <3>2. Observed("openai", r) \in Meters(Reasons) /\ p \in Reports(Reasons)
      BY <2>1, ObservedType DEF R
    <3>3. observe("openai", Observed("openai", r), p).total = IF says THEN ChargeOf(u) ELSE Observed("openai", r).total
      BY <3>2, TotalGrows
    <3> QED
      BY <3>1, <3>3
  <2>5. Counting(s) = IF says THEN Counting(r) \cup {n + 1} ELSE Counting(r)
    <3>1. \A i : i \in Counting(s) <=> i \in 1 .. (n + 1) /\ usageObject(s[i]) # Null /\ Counts(usageObject(s[i]))
      BY <2>3 DEF Counting
    <3>2. \A i : i \in Counting(r) <=> i \in 1 .. n /\ usageObject(r[i]) # Null /\ Counts(usageObject(r[i]))
      BY <2>3 DEF Counting
    <3>3. n + 1 \in Counting(s) <=> says
      BY <1>2, <2>3, <3>1
    <3>4. \A i \in 1 .. n : i \in Counting(s) <=> i \in Counting(r)
      BY <2>3, <3>1, <3>2
    <3>5. \A i : i \in 1 .. (n + 1) <=> i \in 1 .. n \/ i = n + 1
      BY <1>2
    <3>6. n + 1 \notin 1 .. n
      BY <1>2
    <3> QED
      BY <3>1, <3>2, <3>3, <3>4, <3>5, <3>6
  <2>6. Counting(r) \subseteq 1 .. n
    BY <2>3 DEF Counting
  <2> HIDE DEF u, says
  <2>7. CASE says
    <3>1. n + 1 \in Counting(s) /\ \A j \in Counting(s) : j <= n + 1
      BY <1>2, <2>5, <2>6, <2>7
    <3>2. LastPlace(s) \in Counting(s) /\ \A j \in Counting(s) : j <= LastPlace(s)
      BY <3>1
    <3>3. Counting(s) \subseteq 1 .. (n + 1)
      BY <2>3 DEF Counting
    <3> DEFINE l == LastPlace(s)
    <3>4. l \in 1 .. (n + 1) /\ n + 1 <= l
      BY <3>1, <3>2, <3>3
    <3>5. l = n + 1
      <4> HIDE DEF l
      <4> QED
        BY <1>2, <3>4
    <3>6. usageObject(s[l]) = u /\ Counting(s) # {}
      BY <2>3, <3>1, <3>5 DEF u
    <3> QED
      BY <2>4, <2>7, <3>6
  <2>8. CASE ~says
    <3>1. Counting(s) = Counting(r)
      BY <2>5, <2>8
    <3>2. LastPlace(s) = LastPlace(r)
      BY <3>1
    <3>3. Counting(r) # {} => s[LastPlace(r)] = r[LastPlace(r)]
      <4> SUFFICES ASSUME Counting(r) # {} PROVE s[LastPlace(r)] = r[LastPlace(r)]
        OBVIOUS
      <4>1. Max(Counting(r)) \in Counting(r) /\ \A j \in Counting(r) : j <= Max(Counting(r))
        BY <1>2, <2>6, MaxOfPlaces
      <4>2. LastPlace(r) \in Counting(r)
        BY <4>1
      <4> QED
        BY <2>3, <2>6, <4>2
    <3> QED
      BY <2>2, <2>4, <2>8, <3>1, <3>2, <3>3
  <2> QED
    BY <2>7, <2>8
<1>3. Nat \subseteq Good
  <2> HIDE DEF Good
  <2> QED
    BY <1>1, <1>2, NumberInduction
<1>4. Reads(payloads)
  BY <1>3 DEF R
<1>5. units("openai", Observed("openai", payloads)) = Observed("openai", payloads).total
  BY DEF units
<1>6. Reporting(payloads, LAMBDA u : <<prompt(u), completion(u), u.total_tokens>> # <<Null, Null, Null>>)
        = Counting(payloads)
  BY DEF Reporting, Counting, Counts
<1> QED
  BY <1>4, <1>5, <1>6 DEF LastWordIsCharged, ChargeOf

\* What each payload says of a part, Null if nothing, and the counts said.
InputSaid(s)  == [i \in DOMAIN s |-> IF usageObject(s[i]) = Null THEN Null ELSE usageObject(s[i]).input_tokens]
OutputSaid(s) == [i \in DOMAIN s |-> IF usageObject(s[i]) = Null THEN Null ELSE usageObject(s[i]).output_tokens]
Said(parts)   == {parts[i] : i \in DOMAIN parts} \ {Null}

\* A part of the meter is the largest of the counts said, if any is.
Largest(v, counts) ==
  /\ counts \subseteq Nat
  /\ IF counts = {} THEN v = Null ELSE v \in counts /\ \A n \in counts : n <= v

Grown(old, n) == IF n = Null THEN old ELSE IF Count(old) > n THEN old ELSE n

\* One more count said keeps the part the largest.
LEMMA LargestGrows ==
  ASSUME Null \notin Nat, NEW n \in Numbers, NEW counts, NEW v, Largest(v, counts)
  PROVE  Largest(Grown(v, n), counts \cup ({n} \ {Null}))
<1>1. CASE n = Null
  BY <1>1 DEF Grown
<1>2. CASE n # Null
  <2>1. n \in Nat /\ counts \subseteq Nat /\ counts \cup ({n} \ {Null}) = counts \cup {n}
    BY <1>2 DEF Numbers, Largest
  <2>2. CASE counts = {}
    <3>1. v = Null /\ Count(v) = 0
      BY <2>2 DEF Largest, Count
    <3>2. Grown(v, n) = n
      BY <1>2, <2>1, <3>1 DEF Grown
    <3> QED
      BY <2>1, <2>2, <3>2 DEF Largest
  <2>3. CASE counts # {}
    <3>1. v \in counts /\ v \in Nat /\ \A w \in counts : w <= v /\ w \in Nat
      BY <2>1, <2>3 DEF Largest
    <3>2. Count(v) = v
      BY <3>1 DEF Count
    <3>3. CASE v > n
      <4>1. Grown(v, n) = v
        BY <1>2, <3>2, <3>3 DEF Grown
      <4>2. n <= v /\ v \in counts \cup {n} /\ counts \cup {n} \subseteq Nat
        BY <2>1, <3>1, <3>3
      <4>3. \A w \in counts \cup {n} : w <= v
        BY <3>1, <4>2
      <4> QED
        BY <2>1, <4>1, <4>2, <4>3 DEF Largest
    <3>4. CASE ~(v > n)
      <4>1. Grown(v, n) = n
        BY <1>2, <3>2, <3>4 DEF Grown
      <4>2. \A w \in counts \cup {n} : w <= n
        BY <2>1, <3>1, <3>4
      <4> QED
        BY <2>1, <4>1, <4>2 DEF Largest
    <3> QED
      BY <3>3, <3>4
  <2> QED
    BY <2>2, <2>3
<1> QED
  BY <1>1, <1>2

\* Then it counts as the greatest of them, zero among them.
LEMMA LargestCounts ==
  ASSUME Null \notin Nat, NEW counts, NEW v, Largest(v, counts)
  PROVE  /\ Max(counts \cup {0}) = Count(v)
         /\ v = Null <=> counts = {}
<1>1. Count(v) \in counts \cup {0} /\ \A w \in counts \cup {0} : Count(v) >= w
  <2>1. CASE counts = {}
    <3>1. Count(v) = 0 /\ counts \cup {0} = {0}
      BY <2>1 DEF Largest, Count
    <3> QED
      BY <3>1
  <2>2. CASE counts # {}
    <3>1. v \in counts /\ v \in Nat /\ \A w \in counts : w <= v /\ w \in Nat
      BY <2>2 DEF Largest
    <3>2. Count(v) = v
      BY <3>1 DEF Count
    <3>3. \A w \in counts \cup {0} : v >= w
      BY <3>1
    <3> QED
      BY <3>1, <3>2, <3>3
  <2> QED
    BY <2>1, <2>2
<1>2. counts \cup {0} \subseteq Nat
  BY DEF Largest
<1>3. Max(counts \cup {0}) = Count(v)
  <2> DEFINE all == counts \cup {0}
             c   == Count(v)
  <2>1. c \in all /\ all \subseteq Nat /\ \A w \in all : c >= w
    BY <1>1, <1>2
  <2> HIDE DEF all, c
  <2>2. Max(all) \in all /\ \A w \in all : Max(all) >= w
    BY <2>1 DEF Max
  <2> DEFINE m == Max(all)
  <2>3. m \in Nat /\ c \in Nat /\ m >= c /\ c >= m
    BY <2>1, <2>2
  <2> HIDE DEF m
  <2>4. m = c
    BY <2>3
  <2> QED
    BY <2>4 DEF m, all, c
<1>4. v = Null <=> counts = {}
  BY DEF Largest
<1> QED
  BY <1>3, <1>4

\* One more payload, one more part said.
LEMMA SaidGrows ==
  ASSUME NEW n \in Nat, NEW a, DOMAIN a = 1 .. n, NEW b, DOMAIN b = 1 .. (n + 1),
         \A i \in 1 .. n : a[i] = b[i]
  PROVE  Said(b) = Said(a) \cup ({b[n + 1]} \ {Null})
<1>1. \A i : i \in 1 .. (n + 1) <=> i \in 1 .. n \/ i = n + 1
  OBVIOUS
<1> QED
  BY <1>1 DEF Said

\* The parts of a meter that observes one more payload.
LEMMA PartsGrow ==
  ASSUME Null \notin Nat, Null \notin Usages, NEW Reasons, NEW m \in Meters(Reasons), NEW p \in Reports(Reasons)
  PROVE  LET u == usageObject(p)
         IN  /\ observe("anthropic", m, p).input = Grown(m.input, IF u = Null THEN Null ELSE u.input_tokens)
             /\ observe("anthropic", m, p).output = Grown(m.output, IF u = Null THEN Null ELSE u.output_tokens)
<1> DEFINE u == usageObject(p)
<1> HIDE DEF u
<1>1. u = Null => /\ observe("anthropic", m, p).input = m.input
                  /\ observe("anthropic", m, p).output = m.output
  BY ObserveType DEF u
<1>2. u # Null => /\ observe("anthropic", m, p).input = observeAnthropic(m, u).input
                  /\ observe("anthropic", m, p).output = observeAnthropic(m, u).output
  BY ObserveType DEF u
<1>3. /\ observeAnthropic(m, u).input = Grown(m.input, u.input_tokens)
      /\ observeAnthropic(m, u).output = Grown(m.output, u.output_tokens)
  BY DEF observeAnthropic, Grown, Meters
<1> QED
  BY <1>1, <1>2, <1>3 DEF u, Grown

\* What the Anthropic meter charges is the largest input and the largest output
\* the upstream reported, in whichever order and however often it reported.
THEOREM LargestPartsAlwaysCharged ==
  ASSUME Null \notin Nat, Null \notin Usages, NEW Reasons, Null \in Reasons,
         NEW payloads \in Seq(Reports(Reasons))
  PROVE  LargestPartsAreCharged(payloads)
<1> DEFINE R == Reports(Reasons)
           Reads(s) == /\ Largest(Observed("anthropic", s).input, Said(InputSaid(s)))
                         /\ Largest(Observed("anthropic", s).output, Said(OutputSaid(s)))
           Good == {n \in Nat : \A s \in Seq(R) : Len(s) = n => Reads(s)}
<1> HIDE DEF R
<1>1. 0 \in Good
  <2> SUFFICES ASSUME NEW s \in Seq(R), Len(s) = 0 PROVE Reads(s)
    OBVIOUS
  <2>1. s = <<>> /\ DOMAIN s = {}
    OBVIOUS
  <2>2. Observed("anthropic", s).input = Null /\ Observed("anthropic", s).output = Null
    BY <2>1, NothingRead DEF Unread
  <2>3. Said(InputSaid(s)) = {} /\ Said(OutputSaid(s)) = {}
    BY <2>1 DEF Said, InputSaid, OutputSaid
  <2> QED
    BY <2>2, <2>3 DEF Largest
<1>2. ASSUME NEW n \in Nat, n \in Good PROVE n + 1 \in Good
  <2> SUFFICES ASSUME NEW s \in Seq(R), Len(s) = n + 1 PROVE Reads(s)
    BY <1>2
  <2>1. PICK r \in Seq(R), p \in R : s = Append(r, p) /\ Len(r) = n
    BY <1>2, LastTaken
  <2>2. Reads(r)
    BY <1>2, <2>1
  <2>3. /\ DOMAIN r = 1 .. n /\ DOMAIN s = 1 .. (n + 1) /\ s[n + 1] = p
        /\ \A i \in 1 .. n : r[i] = s[i]
    BY <2>1
  <2> DEFINE u == usageObject(p)
             inputNow  == IF u = Null THEN Null ELSE u.input_tokens
             outputNow == IF u = Null THEN Null ELSE u.output_tokens
  <2>4. Observed("anthropic", s) = observe("anthropic", Observed("anthropic", r), p)
    BY <2>1, ObservedGrows
  <2>5. Observed("anthropic", r) \in Meters(Reasons) /\ p \in Reports(Reasons)
    BY <2>1, ObservedType DEF R
  <2>6. /\ Observed("anthropic", s).input = Grown(Observed("anthropic", r).input, inputNow)
        /\ Observed("anthropic", s).output = Grown(Observed("anthropic", r).output, outputNow)
    BY <2>4, <2>5, PartsGrow
  <2>7. inputNow \in Numbers /\ outputNow \in Numbers
    <3>1. u \in Usages \cup {Null}
      BY <2>5, ObserveType
    <3> QED
      BY <3>1 DEF Usages, Numbers
  <2> HIDE DEF u
  <2>8. Said(InputSaid(s)) = Said(InputSaid(r)) \cup ({inputNow} \ {Null})
    <3>1. DOMAIN InputSaid(r) = 1 .. n /\ DOMAIN InputSaid(s) = 1 .. (n + 1)
      BY <2>3 DEF InputSaid
    <3>2. \A i \in 1 .. n : InputSaid(r)[i] = InputSaid(s)[i]
      BY <1>2, <2>3 DEF InputSaid
    <3>3. InputSaid(s)[n + 1] = inputNow
      BY <1>2, <2>3 DEF InputSaid, u
    <3> HIDE DEF inputNow
    <3> QED
      BY <1>2, <3>1, <3>2, <3>3, SaidGrows
  <2>9. Said(OutputSaid(s)) = Said(OutputSaid(r)) \cup ({outputNow} \ {Null})
    <3>1. DOMAIN OutputSaid(r) = 1 .. n /\ DOMAIN OutputSaid(s) = 1 .. (n + 1)
      BY <2>3 DEF OutputSaid
    <3>2. \A i \in 1 .. n : OutputSaid(r)[i] = OutputSaid(s)[i]
      BY <1>2, <2>3 DEF OutputSaid
    <3>3. OutputSaid(s)[n + 1] = outputNow
      BY <1>2, <2>3 DEF OutputSaid, u
    <3> HIDE DEF outputNow
    <3> QED
      BY <1>2, <3>1, <3>2, <3>3, SaidGrows
  <2> HIDE DEF inputNow, outputNow
  <2>10. Largest(Grown(Observed("anthropic", r).input, inputNow), Said(InputSaid(r)) \cup ({inputNow} \ {Null}))
    BY <2>2, <2>7, LargestGrows
  <2>11. Largest(Grown(Observed("anthropic", r).output, outputNow), Said(OutputSaid(r)) \cup ({outputNow} \ {Null}))
    BY <2>2, <2>7, LargestGrows
  <2> QED
    BY <2>6, <2>8, <2>9, <2>10, <2>11
<1>3. Nat \subseteq Good
  <2> HIDE DEF Good
  <2> QED
    BY <1>1, <1>2, NumberInduction
<1>4. Reads(payloads)
  BY <1>3 DEF R
<1> DEFINE inputs  == {usageObject(payloads[i]).input_tokens :
                         i \in Reporting(payloads, LAMBDA u : u.input_tokens # Null)}
           outputs == {usageObject(payloads[i]).output_tokens :
                         i \in Reporting(payloads, LAMBDA u : u.output_tokens # Null)}
           meter   == Observed("anthropic", payloads)
<1>5. inputs = Said(InputSaid(payloads)) /\ outputs = Said(OutputSaid(payloads))
  BY DEF Reporting, Said, InputSaid, OutputSaid
<1>6. /\ Max(inputs \cup {0}) = Count(meter.input) /\ Max(outputs \cup {0}) = Count(meter.output)
      /\ meter.input = Null <=> inputs = {}
      /\ meter.output = Null <=> outputs = {}
  <2> HIDE DEF inputs, outputs, meter
  <2>1. Largest(meter.input, inputs) /\ Largest(meter.output, outputs)
    BY <1>4, <1>5 DEF meter
  <2> QED
    BY <2>1, LargestCounts
<1>7. units("anthropic", meter) = IF meter.input = Null /\ meter.output = Null THEN Null
                                  ELSE Count(meter.input) + Count(meter.output)
  BY DEF units
<1>8. units("anthropic", meter) = IF inputs \cup outputs = {} THEN Null
                                  ELSE Max(inputs \cup {0}) + Max(outputs \cup {0})
  <2> HIDE DEF inputs, outputs, meter
  <2> QED
    BY <1>6, <1>7
<1> QED
  BY <1>8 DEF LargestPartsAreCharged
=============================================================================
