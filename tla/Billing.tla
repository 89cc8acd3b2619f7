------------------------------ MODULE Billing ------------------------------
(***************************************************************************)
(* The billing of one account (BillingService): plans, subscriptions with  *)
(* timers and stacked token packs, the wallet in tokens and in cents, the  *)
(* ledger, and the reconciliation that turns settled metering rows into    *)
(* ledger entries behind a cursor.  Rows settle in any order: a stream     *)
(* admitted first may end last.                                            *)
(*                                                                         *)
(* Every row the service reads or writes carries the account's id, so one  *)
(* account is modelled.  Each operation is one SQLite transaction.         *)
(***************************************************************************)
EXTENDS Integers, Sequences, FiniteSetsExt

CONSTANTS
  PlanIds,      \* names of the plans
  Definitions,  \* Definitions[p]: what an admin may define plan p to be
  Events,       \* identities of usage_events rows, ordered
  Units,        \* units a request may settle
  Credits,      \* references of admin credits
  CreditTokens, \* tokens an admin credits at a time
  Payments,     \* identities of payments
  TopUps,       \* cents a member may pay for a topup
  CustomPacks,  \* quantities and hours of the packs a member may put together
  RateTokens,   \* tokens the exchange rate gives for what was paid
  Million,      \* tokens that cost the rate of a plan
  Period,       \* ticks of a plan without a duration: 30 days
  Batch,        \* RECONCILE_BATCH
  Retention,    \* ticks metering rows are kept
  MaxSubs,      \* bound: subscriptions ever started
  MaxTime       \* bound: ticks a run lasts

Methods == {"rolling_time", "token_pack", "monetary_pack", "payg"}
Bases   == {"from_payment", "from_first_use"}

\* A plan; duration 0 is NULL, a legacy plan.  The price is the one subscribe
\* charges: price_cents, or monthly_price_cents of a legacy plan.
PlanRecords ==
  [active : BOOLEAN, price : Nat, method : Methods, duration : Nat, basis : Bases,
   included : Nat, rate : Nat, resets : Nat]

ASSUME PlanAssumption == Definitions \in [PlanIds -> SUBSET PlanRecords]
ASSUME CheckoutAssumption ==
  /\ TopUps \subseteq Nat \ {0}
  /\ \A pack \in CustomPacks :
       pack.tokens \in Nat \ {0} /\ pack.tokens % Million = 0 /\ pack.hours \in Nat \ {0}
ASSUME NumbersAssumption ==
  /\ IsFiniteSet(Events) /\ Events \subseteq Nat /\ Units \subseteq Nat /\ CreditTokens \in Nat \ {0}
  /\ RateTokens \in Nat /\ Million \in Nat \ {0} /\ Period \in Nat \ {0} /\ Batch \in Nat \ {0}
  /\ Retention \in Nat /\ MaxSubs \in Nat /\ MaxTime \in Nat

VARIABLES
  plans,    \* plans[p]: the current definition of plan p
  meter,    \* meter[u]: the usage_events row u
  account,  \* the account's subscriptions, wallet, ledger, cursor, envelope
  order,    \* order[x]: the entitlement_snapshot_json of payment x
  settled,  \* payments with a settled_at
  now       \* the clock, in ticks

billingVars == <<plans, meter, account, order, settled, now>>

None == -1
NoPlan == "none"
Lesser(a, b) == IF a < b THEN a ELSE b

\* op applied to base with one element of S after another, in the order of
\* before.
FoldInOrder(op(_, _), base, before(_, _), S) ==
  MapThenFoldSet(LAMBDA x, v : op(v, x), base, LAMBDA x : x,
                 LAMBDA T : CHOOSE x \in T : \A y \in T \ {x} : before(y, x), S)

(***************************************************************************)
(* The ledger: UNIQUE(account, source, reference), INSERT OR IGNORE.  The  *)
(* reference "<id>:unfunded" of source usage is a source of its own here;  *)
(* cents are those moved on the cents axis.                                *)
(***************************************************************************)
Entry(source, ref, toks, cts) == [source |-> source, ref |-> ref, tokens |-> toks, cents |-> cts]

HasEntry(a, source, ref) == \E e \in a.ledger : e.source = source /\ e.ref = ref

recordLedger(a, e) ==
  IF HasEntry(a, e.source, e.ref) THEN a ELSE [a EXCEPT !.ledger = @ \cup {e}]

(***************************************************************************)
(* Subscriptions, in the order they were created.                          *)
(***************************************************************************)
activeSubscriptions(a) == {i \in DOMAIN a.subs : a.subs[i].status \in {"active", "past_due"}}

windowActive(s) ==
  IF s.duration # 0
  THEN s.activated # None /\ s.expires > now
  ELSE s.periodEnd > now

Available(s) == IF s.used < s.included THEN s.included - s.used ELSE 0

Pending(s) == s.basis = "from_first_use" /\ s.activated = None

activateFirstUse(s) ==
  IF Pending(s) /\ s.status = "active"
  THEN [s EXCEPT !.activated = now, !.expires = now + s.duration]
  ELSE s

\* A legacy plan replaces everything, a rolling plan the rolling one.
Replaces(plan, s) ==
  /\ s.status \in {"active", "past_due"}
  /\ plan.duration = 0 \/ (plan.method = "rolling_time" /\ s.method = "rolling_time")

\* mutant: the new row is canceled with the rest
startSubscriptionCancelsLast(a, p) ==
  LET plan == plans[p]
      row  == [plan |-> p, status |-> "active", included |-> plan.included, used |-> 0,
               periodEnd |-> now + Period, method |-> plan.method,
               duration |-> plan.duration, basis |-> plan.basis, activated |-> now,
               expires |-> now + Period, resets |-> plan.resets]
      rows == Append(a.subs, row)
  IN  [a EXCEPT
        !.subs = [i \in DOMAIN rows |-> IF Replaces(plan, rows[i])
                                        THEN [rows[i] EXCEPT !.status = "canceled"] ELSE rows[i]],
        !.ledger = @ \cup {Entry("subscription", Len(rows), plan.included, 0)},
        !.envelope = p]

startSubscription(a, p) ==
  LET plan == plans[p]
      end  == now + IF plan.duration # 0 THEN plan.duration ELSE Period
      paid == plan.basis = "from_payment"
      row  == [plan |-> p, status |-> "active", periodEnd |-> end,
               included |-> plan.included, used |-> 0,
               method |-> plan.method, duration |-> plan.duration, basis |-> plan.basis,
               activated |-> IF paid THEN now ELSE None,
               expires |-> IF paid THEN end ELSE None,
               resets |-> plan.resets]
      kept == [i \in DOMAIN a.subs |->
                 IF Replaces(plan, a.subs[i])
                 THEN [a.subs[i] EXCEPT !.status = "canceled"] ELSE a.subs[i]]
  IN  recordLedger([a EXCEPT !.subs = Append(kept, row), !.envelope = p],
                   Entry("subscription", Len(a.subs) + 1, plan.included, 0))

startDurationPack(a, p, toks, hours) ==
  LET end == now + hours
      row == [plan |-> p, status |-> "active", periodEnd |-> end,
              included |-> toks, used |-> 0, method |-> "token_pack",
              duration |-> hours, basis |-> "from_payment",
              activated |-> now, expires |-> end, resets |-> 0]
  IN  recordLedger([a EXCEPT !.subs = Append(@, row)],
                   Entry("subscription", Len(a.subs) + 1, toks, 0))

\* mutant: a reset is not counted against the budget it has
ResettableUncounted(s) == s.status = "active"

Resettable(s) == s.status = "active" /\ s.resets > 0

resetSubscription(a, i) ==
  LET s == a.subs[i]
  IN  [a EXCEPT !.subs[i] = [s EXCEPT !.activated = now, !.expires = now + s.duration,
                                      !.used = 0, !.resets = @ - 1],
                !.restored = @ + s.used]

(***************************************************************************)
(* Money: tokens for cents and back, at a rate per Million.                *)
(***************************************************************************)
tokensForCents(rate, cts) == (cts * Million) \div rate
centsForTokens(rate, toks) == (toks * rate + Million - 1) \div Million

\* The rate of the oldest live subscription whose plan has one; 0 is none.
paygRatePlan(a) ==
  LET rated == {i \in activeSubscriptions(a) : plans[a.subs[i].plan].rate > 0}
  IN  IF rated = {} THEN 0
      ELSE plans[a.subs[CHOOSE i \in rated : \A j \in rated : i <= j].plan].rate

credit(a, toks, source, ref) ==
  IF HasEntry(a, source, ref) THEN a
  ELSE recordLedger([a EXCEPT !.tokens = @ + toks], Entry(source, ref, toks, 0))

(***************************************************************************)
(* Spending n tokens: the rolling pass, the packs by expiry, the wallet in *)
(* tokens, the wallet in cents; the rest is left unfunded.                 *)
(***************************************************************************)
Expiry(s) == IF s.expires # None THEN s.expires ELSE s.periodEnd

Rolling(a) == {i \in activeSubscriptions(a) : a.subs[i].method = "rolling_time"}
Packs(a)   == {i \in activeSubscriptions(a) : a.subs[i].method = "token_pack"}

Oldest(S) == {i \in S : \A j \in S : i <= j}

\* mutant: one pack pays, like one pass
DrawableOnePack(a) == Oldest(Rolling(a)) \cup Oldest(Packs(a))

\* What pays: one pass, and every pack.
Drawable(a) == Oldest(Rolling(a)) \cup Packs(a)

\* The pass first, then the packs by expiry; ties keep the order of creation.
SpentBefore(a, i, j) ==
  LET s == a.subs[i]
      t == a.subs[j]
  IN  \/ s.method = "rolling_time" /\ t.method = "token_pack"
      \/ /\ s.method = t.method
         /\ Expiry(s) < Expiry(t) \/ (Expiry(s) = Expiry(t) /\ i < j)

\* mutant: the whole allowance is offered again
drawIncluded(spend, i) ==
  LET sub  == activateFirstUse(spend.subs[i])
      part == IF windowActive(sub) THEN Lesser(sub.included, spend.left) ELSE 0
  IN  [spend EXCEPT !.subs[i] = [sub EXCEPT !.used = @ + part],
                    !.left = @ - part,
                    !.drawn = IF part > 0 THEN @ \cup {i} ELSE @]

\* One subscription pays what it can of what is left.
draw(spend, i) ==
  LET sub  == activateFirstUse(spend.subs[i])
      part == IF windowActive(sub) THEN Lesser(Available(sub), spend.left) ELSE 0
  IN  IF spend.left = 0 THEN spend
      ELSE [spend EXCEPT !.subs[i] = [sub EXCEPT !.used = @ + part],
                         !.left = @ - part,
                         !.drawn = IF part > 0 THEN @ \cup {i} ELSE @]

debit(a, n) ==
  LET spend == FoldInOrder(draw, [subs |-> a.subs, left |-> n, drawn |-> {}],
                           LAMBDA i, j : SpentBefore(a, i, j), Drawable(a))
      b     == [a EXCEPT !.subs = spend.subs]
      fromWallet == Lesser(a.tokens, spend.left)
      unpaid == spend.left - fromWallet
      rate   == paygRatePlan(b)
      inCents == IF unpaid > 0 /\ rate > 0
                 THEN Lesser(a.cents, centsForTokens(rate, unpaid)) ELSE 0
      covered == IF inCents > 0 THEN Lesser(tokensForCents(rate, inCents), unpaid) ELSE 0
  IN  [account |-> [b EXCEPT !.tokens = @ - fromWallet, !.cents = @ - inCents],
       left |-> unpaid - covered, cents |-> inCents, drawn |-> spend.drawn]

\* A shortfall marks the subscriptions drawn from, or else the newest one.
MarkPastDue(a, drawn) ==
  LET live == activeSubscriptions(a)
      due  == IF drawn # {} THEN drawn ELSE {i \in live : \A j \in live : j <= i}
  IN  [a EXCEPT !.subs = [i \in DOMAIN @ |->
         IF i \in due THEN [@[i] EXCEPT !.status = "past_due"] ELSE @[i]]]

\* mutant: the debit is not recorded when nothing is left to pay it
applyUsageUnfundedOnly(a, u) ==
  LET n == meter[u].units
      paid == debit(a, n)
  IN  IF paid.left > 0
      THEN MarkPastDue(recordLedger(paid.account, Entry("unfunded", u, paid.left, 0)), paid.drawn)
      ELSE recordLedger(paid.account, Entry("usage", u, n, paid.cents))

applyUsage(a, u) ==
  LET n    == meter[u].units
      paid == debit(a, n)
      booked == recordLedger(paid.account, Entry("usage", u, n - paid.left, paid.cents))
  IN  IF HasEntry(a, "usage", u) THEN a
      ELSE IF n = 0 THEN recordLedger(a, Entry("usage", u, 0, 0))
      ELSE IF paid.left = 0 THEN booked
      ELSE MarkPastDue(recordLedger(booked, Entry("unfunded", u, paid.left, 0)), paid.drawn)

(***************************************************************************)
(* Reconciliation: settled rows from the cursor on that have no entry yet, *)
(* by time of their reservation, a batch at a time.                        *)
(***************************************************************************)
Billed(a, u) == HasEntry(a, "usage", u)

Unbilled(a) ==
  {u \in Events : /\ meter[u].state = "settled"
                  /\ meter[u].at >= a.cursor
                  /\ ~Billed(a, u)}

\* mutant: the batch is taken by id
SelectedById(a) ==
  {u \in Unbilled(a) : Cardinality({v \in Unbilled(a) : v < u}) < Batch}

ReservedBefore(u, v) ==
  meter[u].at < meter[v].at \/ (meter[u].at = meter[v].at /\ u < v)

Selected(a) ==
  {u \in Unbilled(a) : Cardinality({v \in Unbilled(a) : ReservedBefore(v, u)}) < Batch}

reconcile(a) ==
  LET times == {meter[u].at : u \in Selected(a)} \cup {a.cursor}
  IN  [FoldInOrder(applyUsage, a, ReservedBefore, Selected(a)) EXCEPT !.cursor = Max(times)]

\* mutant: cents do not count as capacity
FundedInTokens(a) ==
  \/ \E i \in activeSubscriptions(a) :
        \/ Pending(a.subs[i])
        \/ windowActive(a.subs[i]) /\ Available(a.subs[i]) > 0
  \/ a.tokens > 0

\* assertFunded, after it reconciled
Funded(a) ==
  \/ \E i \in activeSubscriptions(a) :
        \/ Pending(a.subs[i])
        \/ windowActive(a.subs[i]) /\ Available(a.subs[i]) > 0
  \/ a.tokens > 0 \/ a.cents > 0

(***************************************************************************)
(* Payments: what a member buys, and the entitlement a settled payment     *)
(* grants.  The entitlement is fixed at checkout, whatever becomes of the  *)
(* plan until the payment settles.                                         *)
(***************************************************************************)
Entitlement(p, method, toks, cts, hours) ==
  [plan |-> p, method |-> method, tokens |-> toks, cents |-> cts, duration |-> hours]

NoOrder == Entitlement(NoPlan, NoPlan, 0, 0, 0)

\* POST member/subscribe: a monetary pack buys cents, a token pack keeps the
\* shelf life of the plan.
PlanPurchases(p) ==
  LET plan == plans[p]
  IN  IF ~plan.active \/ plan.price = 0 THEN {}
      ELSE {Entitlement(p, plan.method, plan.included,
                        IF plan.method = "monetary_pack" THEN plan.price ELSE 0,
                        IF plan.method = "token_pack" THEN plan.duration ELSE 0)}

\* POST member/topup: cents become wallet tokens at the rate of a plan, which
\* may be one that is no longer sold.
TopUpPurchases(p) ==
  IF plans[p].rate = 0 THEN {}
  ELSE {Entitlement(p, "token_pack", tokensForCents(plans[p].rate, cts), 0, 0) : cts \in TopUps}

\* POST member/custom-topup: whole millions of tokens for some hours.
CustomPurchases(p) ==
  IF plans[p].rate = 0 THEN {}
  ELSE {Entitlement(p, "token_pack", pack.tokens, 0, pack.hours) : pack \in CustomPacks}

\* The snapshot a provider's callback settles: as it was stored, or, from the
\* provider paid in rupiah, with the tokens of the exchange rate where it has none.
Delivered(x) ==
  {order[x]} \cup IF order[x].tokens = 0 THEN {[order[x] EXCEPT !.tokens = RateTokens]} ELSE {}

\* The snapshots settlePaymentSnapshot does not refuse.
Settleable(a, snap) ==
  CASE snap.method = "rolling_time" -> plans[snap.plan].active
    [] snap.method = "token_pack"   -> snap.tokens > 0
    [] OTHER                        -> paygRatePlan(a) > 0 /\ snap.cents > 0

settlePaymentSnapshot(a, x, snap) ==
  IF HasEntry(a, "payment", x) THEN a
  ELSE CASE snap.method = "rolling_time" ->
              recordLedger(startSubscription(a, snap.plan), Entry("payment", x, 0, 0))
         [] snap.method = "token_pack" /\ snap.duration # 0 ->
              startDurationPack(a, snap.plan, snap.tokens, snap.duration)
         [] snap.method = "token_pack" /\ snap.duration = 0 ->
              credit(a, snap.tokens, "payment", x)
         [] OTHER ->
              recordLedger([a EXCEPT !.cents = @ + snap.cents],
                           Entry("payment", x, 0, snap.cents))

(***************************************************************************)
(* The operations.                                                         *)
(***************************************************************************)
Room == Len(account.subs) < MaxSubs

\* POST member/subscribe of a plan without a price.
Subscribe(p) ==
  /\ plans[p].active /\ plans[p].price = 0 /\ Room
  /\ account' = startSubscription(account, p)
  /\ UNCHANGED <<plans, meter, order, settled, now>>

ResetSubscription(i) ==
  /\ Resettable(account.subs[i])
  /\ account' = resetSubscription(account, i)
  /\ UNCHANGED <<plans, meter, order, settled, now>>

AdminCredit(c) ==
  /\ ~HasEntry(account, "admin", c)
  /\ account' = credit(account, CreditTokens, "admin", c)
  /\ UNCHANGED <<plans, meter, order, settled, now>>

\* openInvoice stores the entitlement with the payment.
Checkout(x) ==
  /\ order[x] = NoOrder
  /\ \E p \in PlanIds :
       \E snap \in PlanPurchases(p) \cup TopUpPurchases(p) \cup CustomPurchases(p) :
         order' = [order EXCEPT ![x] = snap]
  /\ UNCHANGED <<plans, meter, account, settled, now>>

\* A payment settles; who makes sure that it does so once is Payments' matter.
PaymentSettles(x) ==
  /\ order[x] # NoOrder /\ x \notin settled
  /\ Room
  /\ \E snap \in Delivered(x) :
       /\ Settleable(account, snap)
       /\ account' = settlePaymentSnapshot(account, x, snap)
  /\ settled' = settled \cup {x}
  /\ UNCHANGED <<plans, meter, order, now>>

\* A dashboard read, or a request that is refused: reconcile and look.
Summary ==
  /\ account' = reconcile(account)
  /\ account' # account
  /\ UNCHANGED <<plans, meter, order, settled, now>>

\* A funded request is admitted: the pipeline reserves its metering row.
Request(u) ==
  /\ meter[u].state = "absent"
  /\ Funded(reconcile(account))
  /\ account' = reconcile(account)
  /\ meter' = [meter EXCEPT ![u] = [state |-> "reserved", units |-> 0, at |-> now]]
  /\ UNCHANGED <<plans, order, settled, now>>

RequestEnds(u) ==
  /\ meter[u].state = "reserved"
  /\ \/ \E n \in Units : meter' = [meter EXCEPT ![u].state = "settled", ![u].units = n]
     \/ meter' = [meter EXCEPT ![u].state = "released"]
  /\ UNCHANGED <<plans, account, order, settled, now>>

\* maintain deletes old metering rows; the ledger keeps its entries.
Maintain ==
  /\ \E u \in Events : meter[u].state = "settled" /\ meter[u].at < now - Retention
  /\ meter' = [u \in Events |->
                 IF meter[u].state = "settled" /\ meter[u].at < now - Retention
                 THEN [meter[u] EXCEPT !.state = "deleted"] ELSE meter[u]]
  /\ UNCHANGED <<plans, account, order, settled, now>>

UpsertPlan(p, def) ==
  /\ plans[p] # def
  /\ plans' = [plans EXCEPT ![p] = def]
  /\ UNCHANGED <<meter, account, order, settled, now>>

Tick ==
  /\ now < MaxTime
  /\ now' = now + 1
  /\ UNCHANGED <<plans, meter, account, order, settled>>

Init ==
  /\ plans \in {f \in [PlanIds -> UNION Range(Definitions)] :
                \A p \in PlanIds : f[p] \in Definitions[p]}
  /\ meter = [u \in Events |-> [state |-> "absent", units |-> 0, at |-> 0]]
  /\ account = [subs |-> <<>>, tokens |-> 0, cents |-> 0, ledger |-> {}, cursor |-> 0,
                envelope |-> NoPlan, restored |-> 0]
  /\ order = [x \in Payments |-> NoOrder]
  /\ settled = {}
  /\ now = 0

Next ==
  \/ \E p \in PlanIds : Subscribe(p) \/ \E def \in Definitions[p] : UpsertPlan(p, def)
  \/ \E i \in DOMAIN account.subs : ResetSubscription(i)
  \/ \E c \in Credits : AdminCredit(c)
  \/ \E x \in Payments : Checkout(x) \/ PaymentSettles(x)
  \/ \E u \in Events : Request(u) \/ RequestEnds(u)
  \/ Summary \/ Maintain \/ Tick

Spec == Init /\ [][Next]_billingVars

-----------------------------------------------------------------------------
(***************************************************************************)
(* Properties.                                                             *)
(***************************************************************************)
SubType ==
  [plan : PlanIds, status : {"active", "past_due", "canceled"}, periodEnd : Nat,
   included : Nat, used : Nat, method : Methods, duration : Nat, basis : Bases,
   activated : Nat \cup {None}, expires : Nat \cup {None}, resets : Nat]

\* Types of the variables; no balance is negative.
BillingTypeOK ==
  /\ plans \in [PlanIds -> PlanRecords]
  /\ meter \in [Events -> [state : {"absent", "reserved", "settled", "released", "deleted"},
                           units : Nat, at : Nat]]
  /\ account.subs \in Seq(SubType)
  /\ account.tokens \in Nat /\ account.cents \in Nat /\ account.cursor \in Nat
  /\ account.restored \in Nat
  /\ account.envelope \in PlanIds \cup {NoPlan}
  /\ \A x \in Payments :
       order[x] \in [plan : PlanIds \cup {NoPlan}, method : Methods \cup {NoPlan}, tokens : Nat,
                    cents : Nat, duration : Nat]
  /\ settled \subseteq Payments
  /\ now \in Nat

Tokens(a, source) ==
  SumFunctionOnSet([e \in a.ledger |-> e.tokens], {e \in a.ledger : e.source = source})
Cents(a, source) ==
  SumFunctionOnSet([e \in a.ledger |-> e.cents], {e \in a.ledger : e.source = source})
Used(a)    == SumFunction([i \in DOMAIN a.subs |-> a.subs[i].used])
Granted(a) == SumFunction([i \in DOMAIN a.subs |-> a.subs[i].included])

\* What usage took from the wallet, from the cents, and what the cents paid for.
FromWallet(a) == Tokens(a, "admin") + Tokens(a, "payment") - a.tokens
InCents(a)    == Cents(a, "payment") - a.cents
Covered(a)    == Tokens(a, "usage") - Used(a) - a.restored - FromWallet(a)

\* The ledger explains every balance, over any interleaving of usage,
\* purchases, resets and shortfalls: allowances come from grants, the wallet is
\* what was credited less what usage took, cents are what was paid in less what
\* usage took, only cents pay for tokens no allowance or wallet gave, and of no
\* allowance more is spent than it holds.
Explained(a) ==
  /\ Tokens(a, "subscription") = Granted(a)
  /\ FromWallet(a) >= 0
  /\ InCents(a) = Cents(a, "usage")
  /\ Covered(a) >= 0
  /\ InCents(a) = 0 => Covered(a) = 0
  /\ \A i \in DOMAIN a.subs : a.subs[i].used <= a.subs[i].included

LedgerExplainsBalances == Explained(account)

\* Prepaid money is touched last: when a step takes tokens or cents from the
\* wallet, no running pass or pack has allowance left.
WalletIsLast ==
  [][account'.tokens < account.tokens \/ account'.cents < account.cents =>
       \A i \in activeSubscriptions(account') :
         LET s == account'.subs[i]
         IN  s.method \in {"rolling_time", "token_pack"} /\ windowActive(s) => Available(s) = 0]_billingVars

\* The cursor passes no row it could have billed: whatever the batch cuts off
\* stays selectable.
CursorPassesOnlyBilled ==
  [][\A u \in Events :
       (/\ meter[u].state = "settled"
        /\ meter[u].at >= account.cursor /\ meter[u].at < account'.cursor)
         => Billed(account', u)]_billingVars

\* A row is billed at most once and never before it settled, and if it is billed,
\* what was debited and what was left unfunded add up to its units, also after
\* the row was deleted.  That a settled row is billed at all is not promised:
\* see LateIsNotFree.
BilledAtMostOnce ==
  /\ \A u \in Events :
       LET of(source) == {e \in account.ledger : e.source = source /\ e.ref = u}
       IN  /\ Cardinality(of("usage")) <= 1
           /\ of("usage") = {} => of("unfunded") = {}
           /\ of("usage") # {} =>
                /\ meter[u].state \in {"settled", "deleted"}
                /\ SumFunctionOnSet([e \in account.ledger |-> e.tokens],
                                    of("usage") \cup of("unfunded")) = meter[u].units

\* An account that is refused has nothing that could have paid.
RefusedHasNothing == ~Funded(account) => debit(account, 1).left = 1

\* The plan whose limits and models a purchase gave the tenant last is one it has
\* a subscription to that was not canceled, run out or not, and no two rolling
\* passes run side by side.  Limits an admin edits directly are not in envelope.
EnvelopeIsHeld ==
  LET held == {account.subs[i].plan : i \in activeSubscriptions(account)}
  IN  /\ account.envelope # NoPlan => account.envelope \in held
      /\ Cardinality(Rolling(account)) <= 1

(***************************************************************************)
(* What a comment says and the code does not do.                           *)
(***************************************************************************)
\* The comment of reconcile: a row can be late without being free.  An
\* unbilled settled row can still be selected.
LateIsNotFree ==
  \A u \in Events : meter[u].state = "settled" /\ ~Billed(account, u) => u \in Unbilled(account)
=============================================================================
