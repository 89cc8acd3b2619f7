-------------------------- MODULE Payments_proofs --------------------------
(***************************************************************************)
(* Proofs about Payments for any set of orders and callbacks.              *)
(*                                                                         *)
(* The inductive invariant adds to the checked invariants that a row is    *)
(* written once (Fresh), that a ledger entry stands for a grant, and that  *)
(* a callback that may settle was signed for a payment in full.            *)
(***************************************************************************)
EXTENDS Payments, TLAPS

\* An invoice that has not been answered has no row: answering it overwrites
\* no settled row.
Fresh == \A o \in Orders : invoice[o] # "done" => row[o] = NoRow

\* An entry of source payment stands for a grant.
LedgerMeansGrant == \A o \in ledger : granted[o] = 1

\* A callback that may settle reports money the provider has.
CallbacksTrue == \A d \in sent : Settles(d) /\ d.enough => money[d.order] = "full"

GrantedWasPaid == \A o \in Orders : granted[o] = 1 => money[o] = "full"

IInv ==
  /\ PaymentTypeOK /\ RowTellsGrant /\ MarkerMeansGrant
  /\ Fresh /\ LedgerMeansGrant /\ CallbacksTrue /\ GrantedWasPaid

\* The invariant holds before anything was bought.
LEMMA InitInv == Init => IInv
<1> SUFFICES ASSUME Init PROVE IInv
  OBVIOUS
<1>1. PaymentTypeOK
  <2>1. NoRow \in [status : Statuses \cup {"none", "open"}, settledAt : BOOLEAN,
                  settlement : {"none", "pending", "settled", "reconciliation_required"}]
    BY DEF NoRow
  <2>2. /\ invoice \in [Orders -> {"none", "creating", "failed", "done"}]
        /\ money \in [Orders -> {"nothing", "short", "full"}]
        /\ granted \in [Orders -> 0..1]
    BY DEF Init
  <2>3. registered = {} /\ sent = {} /\ events = {} /\ ledger = {}
        /\ grantable \subseteq Orders /\ rate \in BOOLEAN
    BY DEF Init
  <2>4. row = [o \in Orders |-> NoRow]
    BY DEF Init
  <2> QED
    BY <2>1, <2>2, <2>3, <2>4 DEF PaymentTypeOK
<1>2. RowTellsGrant /\ Fresh /\ GrantedWasPaid
  BY DEF Init, RowTellsGrant, Fresh, GrantedWasPaid, NoRow
<1>3. MarkerMeansGrant /\ LedgerMeansGrant /\ CallbacksTrue
  BY DEF Init, MarkerMeansGrant, LedgerMeansGrant, CallbacksTrue
<1> QED BY <1>1, <1>2, <1>3 DEF IInv

\* The outcomes of a webhook preserve the invariant.
LEMMA WebhookInv ==
  ASSUME IInv, NEW d \in Callbacks, Webhook(d)
  PROVE  IInv'
<1> DEFINE o == d.order
<1> USE DEF Callbacks
<1>1. o \in Orders /\ d \in sent /\ HasRow(o) /\ (Settles(d) => money[o] = "full") /\ invoice[o] = "done"
  BY DEF Webhook, Accepts, IInv, CallbacksTrue, Fresh, HasRow
<1>2. /\ UNCHANGED <<invoice, registered, money, sent, grantable, rate>>
  BY DEF Webhook, checkoutVars, providerVars, configVars
<1>3. CASE Duplicate(d)
  BY <1>2, <1>3 DEF Duplicate, settlementVars, IInv, PaymentTypeOK, RowTellsGrant, MarkerMeansGrant,
     Fresh, LedgerMeansGrant, CallbacksTrue, GrantedWasPaid
<1>4. CASE AlreadySettled(d)
  <2>1. /\ events' = events \cup {d} /\ UNCHANGED <<ledger, granted>>
        /\ granted[o] = 1 /\ d.status \in PAID_STATUSES /\ row[o].settledAt
    BY <1>1, <1>4 DEF AlreadySettled, IInv, RowTellsGrant, Settles
  <2>2. /\ \A q \in Orders \ {o} : row'[q] = row[q]
        /\ row'[o].settledAt /\ row'[o].settlement = "settled" /\ row'[o].status \in PAID_STATUSES
        /\ row' \in [Orders -> [status : Statuses \cup {"none", "open"}, settledAt : BOOLEAN,
                         settlement : {"none", "pending", "settled", "reconciliation_required"}]]
    BY <1>1, <1>4, <2>1 DEF AlreadySettled, IInv, RowTellsGrant, PaymentTypeOK, Statuses
  <2> QED
    BY <1>1, <1>2, <2>1, <2>2 DEF IInv, PaymentTypeOK, RowTellsGrant, MarkerMeansGrant, Fresh,
       LedgerMeansGrant, CallbacksTrue, GrantedWasPaid
<1>5. CASE Grant(d)
  <2>1. granted[o] = 0 /\ o \notin ledger
    BY <1>1, <1>5 DEF Grant, IInv, RowTellsGrant, PaymentTypeOK, LedgerMeansGrant
  <2>2. /\ events' = events \cup {d}
        /\ row' = [row EXCEPT ![o] = SettledRow(d)]
        /\ granted' = [granted EXCEPT ![o] = 1]
        /\ ledger' \subseteq ledger \cup {o}
        /\ d.status \in PAID_STATUSES /\ money[o] = "full"
    <3>1. granted' = [granted EXCEPT ![o] = granted[o] + 1]
      BY <1>5, <2>1 DEF Grant
    <3>2. granted[o] + 1 = 1
      BY <2>1
    <3>3. granted' = [granted EXCEPT ![o] = 1]
      BY <3>1, <3>2, Zenon
    <3>4. ledger' \subseteq ledger \cup {o} /\ events' = events \cup {d}
          /\ row' = [row EXCEPT ![o] = SettledRow(d)] /\ Settles(d)
      BY <1>5 DEF Grant
    <3> QED
      BY <1>1, <3>3, <3>4 DEF Settles
  <2>3. row'[o] = SettledRow(d) /\ \A q \in Orders \ {o} : row'[q] = row[q]
    BY <1>1, <2>2 DEF IInv, PaymentTypeOK
  <2>4. granted'[o] = 1 /\ \A q \in Orders \ {o} : granted'[q] = granted[q]
    BY <1>1, <2>2 DEF IInv, PaymentTypeOK
  <2>5. PaymentTypeOK'
    BY <1>1, <1>2, <2>2 DEF IInv, PaymentTypeOK, SettledRow, Statuses
  <2>6. RowTellsGrant' /\ Fresh'
    BY <1>1, <1>2, <2>2, <2>3, <2>4 DEF IInv, RowTellsGrant, Fresh, SettledRow
  <2>7. MarkerMeansGrant'
    BY <2>2, <2>4 DEF IInv, MarkerMeansGrant, PaymentTypeOK
  <2>8. LedgerMeansGrant' /\ CallbacksTrue' /\ GrantedWasPaid'
    BY <1>1, <1>2, <2>2, <2>4 DEF IInv, LedgerMeansGrant, CallbacksTrue, GrantedWasPaid, PaymentTypeOK
  <2> QED BY <2>5, <2>6, <2>7, <2>8 DEF IInv
<1>6. CASE GrantFails(d)
  <2>1. /\ row' = [row EXCEPT ![o] = Unsettleable(d)] /\ UNCHANGED <<events, ledger, granted>>
        /\ ~row[o].settledAt /\ granted[o] # 1
    BY <1>1, <1>6 DEF GrantFails, IInv, RowTellsGrant
  <2>2. row'[o] = Unsettleable(d) /\ \A q \in Orders \ {o} : row'[q] = row[q]
    BY <1>1, <2>1 DEF IInv, PaymentTypeOK
  <2>3. PaymentTypeOK'
    BY <1>1, <1>2, <2>1 DEF IInv, PaymentTypeOK, Unsettleable
  <2> QED
    BY <1>1, <1>2, <2>1, <2>2, <2>3 DEF IInv, RowTellsGrant, MarkerMeansGrant, Fresh,
       LedgerMeansGrant, CallbacksTrue, GrantedWasPaid, Unsettleable
<1>7. CASE NotPaid(d)
  <2>1. /\ events' = events \cup {d} /\ UNCHANGED <<ledger, granted>> /\ ~Settles(d)
        /\ \A q \in Orders \ {o} : row'[q] = row[q]
        /\ row'[o].settledAt = row[o].settledAt /\ row'[o].settlement = row[o].settlement
        /\ row[o].settledAt => row'[o] = row[o]
        /\ row' \in [Orders -> [status : Statuses \cup {"none", "open"}, settledAt : BOOLEAN,
                         settlement : {"none", "pending", "settled", "reconciliation_required"}]]
    BY <1>1, <1>7 DEF NotPaid, IInv, PaymentTypeOK
  <2>2. RowTellsGrant' /\ Fresh'
    BY <1>1, <1>2, <2>1 DEF IInv, RowTellsGrant, Fresh
  <2> QED
    BY <1>1, <1>2, <2>1, <2>2 DEF IInv, PaymentTypeOK, MarkerMeansGrant,
       LedgerMeansGrant, CallbacksTrue, GrantedWasPaid
<1> QED
  BY <1>3, <1>4, <1>5, <1>6, <1>7 DEF Webhook

\* Every step preserves the invariant.
LEMMA NextInv == IInv /\ [Next]_paymentVars => IInv'
<1> SUFFICES ASSUME IInv, [Next]_paymentVars PROVE IInv'
  OBVIOUS
<1> USE DEF checkoutVars, providerVars, settlementVars, configVars
<1>1. CASE UNCHANGED paymentVars
  BY <1>1 DEF paymentVars, IInv, PaymentTypeOK, RowTellsGrant, MarkerMeansGrant, Fresh,
     LedgerMeansGrant, CallbacksTrue, GrantedWasPaid
<1>2. ASSUME NEW o \in Cryptomus, OpenCryptomus(o) \/ InvoiceFails(o)
      PROVE  IInv'
  BY <1>2 DEF OpenCryptomus, InvoiceFails, Orders, IInv, PaymentTypeOK, RowTellsGrant,
     MarkerMeansGrant, Fresh, LedgerMeansGrant, CallbacksTrue, GrantedWasPaid
<1>3. ASSUME NEW o \in Cryptomus, CryptomusRegisters(o)
      PROVE  IInv'
  BY <1>3 DEF CryptomusRegisters, Orders, IInv, PaymentTypeOK, RowTellsGrant,
     MarkerMeansGrant, Fresh, LedgerMeansGrant, CallbacksTrue, GrantedWasPaid
<1>4. ASSUME NEW o \in Orders, invoice[o] # "done", invoice' = [invoice EXCEPT ![o] = "done"],
             row' = [row EXCEPT ![o] = NewRow], registered' \subseteq Orders,
             UNCHANGED <<money, sent, events, ledger, granted, grantable, rate>>
      PROVE  IInv'
  <2>1. row[o] = NoRow
    BY <1>4 DEF IInv, Fresh
  <2>2. row'[o] = NewRow /\ \A q \in Orders \ {o} : row'[q] = row[q]
    BY <1>4 DEF IInv, PaymentTypeOK
  <2>3. PaymentTypeOK'
    BY <1>4 DEF IInv, PaymentTypeOK, NewRow
  <2>4. RowTellsGrant'
    BY <1>4, <2>1, <2>2 DEF IInv, RowTellsGrant, NewRow, NoRow
  <2>5. Fresh'
    BY <1>4, <2>2 DEF IInv, Fresh, PaymentTypeOK
  <2> QED
    BY <1>4, <2>3, <2>4, <2>5 DEF IInv, MarkerMeansGrant, LedgerMeansGrant, CallbacksTrue, GrantedWasPaid
<1>5. ASSUME NEW o \in Cryptomus, InvoiceAnswered(o)
      PROVE  IInv'
  BY <1>4, <1>5 DEF InvoiceAnswered, Orders, IInv, PaymentTypeOK
<1>6. ASSUME NEW o \in Leuwongrr, OpenLeuwongrr(o)
      PROVE  IInv'
  BY <1>4, <1>6 DEF OpenLeuwongrr, Orders, IInv, PaymentTypeOK
<1>7. ASSUME NEW o \in Orders, NEW amount \in {"short", "full"}, MemberPays(o, amount)
      PROVE  IInv'
  BY <1>7 DEF MemberPays, IInv, PaymentTypeOK, RowTellsGrant, MarkerMeansGrant, Fresh,
     LedgerMeansGrant, CallbacksTrue, GrantedWasPaid
<1>8. ASSUME NEW d \in Callbacks, Signs(d)
      PROVE  IInv'
  BY <1>8 DEF Signs, IInv, PaymentTypeOK, RowTellsGrant, MarkerMeansGrant, Fresh,
     LedgerMeansGrant, CallbacksTrue, GrantedWasPaid
<1>9. ASSUME NEW o \in Orders, GrantableChanges(o)
      PROVE  IInv'
  BY <1>9 DEF GrantableChanges, IInv, PaymentTypeOK, RowTellsGrant, MarkerMeansGrant, Fresh,
     LedgerMeansGrant, CallbacksTrue, GrantedWasPaid
<1>10. CASE SetExchangeRate
  BY <1>10 DEF SetExchangeRate, IInv, PaymentTypeOK, RowTellsGrant, MarkerMeansGrant, Fresh,
     LedgerMeansGrant, CallbacksTrue, GrantedWasPaid
<1> QED
  BY <1>1, <1>2, <1>3, <1>5, <1>6, <1>7, <1>8, <1>9, <1>10, WebhookInv DEF Next

\* The inductive invariant holds in every reachable state.
LEMMA Invariance == Spec => []IInv
  BY InitInv, NextInv, PTL DEF Spec

\* For any orders and callbacks: types, and no order is granted twice.
THEOREM PaymentTypeCorrect == Spec => []PaymentTypeOK
<1>1. IInv => PaymentTypeOK
  BY DEF IInv
<1> QED BY <1>1, Invariance, PTL

\* A row has a settled_at exactly when its order was granted, and then reads
\* settled and paid; and no failed grant leaves a marker that would turn the
\* provider's retry away.
THEOREM GrantsAreRecorded == Spec => []GrantsRecorded
<1>1. IInv => GrantsRecorded
  BY DEF IInv, GrantsRecorded
<1> QED BY <1>1, Invariance, PTL

-----------------------------------------------------------------------------
(***************************************************************************)
(* Payments implements Purchases.                                          *)
(***************************************************************************)
\* A step of the providers or of a webhook pays an order, delivers a paid one
\* for the first time, or changes neither.
LEMMA StepRefines == IInv /\ [Next]_paymentVars => [Contract!PurchaseNext]_(Contract!purchaseVars)
<1> SUFFICES ASSUME IInv, [Next]_paymentVars
             PROVE  [Contract!PurchaseNext]_(Contract!purchaseVars)
  OBVIOUS
<1> USE DEF checkoutVars, providerVars, settlementVars, configVars, Contract!purchaseVars
<1>1. ASSUME UNCHANGED <<money, granted>>
      PROVE  UNCHANGED Contract!purchaseVars
  BY <1>1
<1>2. ASSUME NEW o \in Orders, NEW amount \in {"short", "full"}, MemberPays(o, amount)
      PROVE  [Contract!PurchaseNext]_(Contract!purchaseVars)
  <2>1. /\ money' = [money EXCEPT ![o] = amount] /\ money[o] # "full" /\ granted' = granted
        /\ money \in [Orders -> {"nothing", "short", "full"}]
    BY <1>2 DEF MemberPays, IInv, PaymentTypeOK
  <2>2. CASE amount = "full"
    <3>1. {q \in Orders : money'[q] = "full"} = {q \in Orders : money[q] = "full"} \cup {o}
      BY <2>1, <2>2
    <3>2. Contract!Pay(o)
      BY <2>1, <3>1 DEF Contract!Pay
    <3> QED BY <3>2 DEF Contract!PurchaseNext
  <2>3. CASE amount = "short"
    <3>1. {q \in Orders : money'[q] = "full"} = {q \in Orders : money[q] = "full"}
      BY <2>1, <2>3
    <3> QED BY <2>1, <3>1
  <2> QED BY <2>2, <2>3
<1>3. ASSUME NEW d \in Callbacks, Webhook(d)
      PROVE  [Contract!PurchaseNext]_(Contract!purchaseVars)
  <2>1. money' = money
    BY <1>3 DEF Webhook
  <2>2. CASE Grant(d)
    <3> DEFINE o == d.order
    <3>1. o \in Orders /\ money[o] = "full"
      BY <1>3, <2>2 DEF Callbacks, Webhook, Accepts, Grant, IInv, CallbacksTrue
    <3>2. granted[o] = 0 /\ o \notin ledger
      BY <2>2, <3>1 DEF Grant, IInv, RowTellsGrant, PaymentTypeOK, LedgerMeansGrant
    <3>3. granted' = [granted EXCEPT ![o] = 0 + 1]
      BY <2>2, <3>2 DEF Grant
    <3>4. Contract!Deliver(o)
      BY <2>1, <3>1, <3>2, <3>3 DEF Contract!Deliver
    <3> QED BY <3>1, <3>4 DEF Contract!PurchaseNext
  <2>3. CASE ~Grant(d)
    <3>1. granted' = granted
      BY <1>3, <2>3 DEF Webhook, Duplicate, AlreadySettled, GrantFails, NotPaid
    <3> QED BY <1>1, <2>1, <3>1
  <2> QED BY <2>2, <2>3
<1>4. ASSUME NEW o \in Cryptomus,
             OpenCryptomus(o) \/ CryptomusRegisters(o) \/ InvoiceAnswered(o) \/ InvoiceFails(o)
      PROVE  [Contract!PurchaseNext]_(Contract!purchaseVars)
  BY <1>1, <1>4 DEF OpenCryptomus, CryptomusRegisters, InvoiceAnswered, InvoiceFails
<1>5. ASSUME NEW o \in Leuwongrr, OpenLeuwongrr(o)
      PROVE  [Contract!PurchaseNext]_(Contract!purchaseVars)
  BY <1>1, <1>5 DEF OpenLeuwongrr
<1>6. ASSUME NEW d \in Callbacks, Signs(d)
      PROVE  [Contract!PurchaseNext]_(Contract!purchaseVars)
  BY <1>1, <1>6 DEF Signs
<1>7. ASSUME NEW o \in Orders, GrantableChanges(o)
      PROVE  [Contract!PurchaseNext]_(Contract!purchaseVars)
  BY <1>1, <1>7 DEF GrantableChanges
<1>8. CASE SetExchangeRate
  BY <1>1, <1>8 DEF SetExchangeRate
<1>9. CASE UNCHANGED paymentVars
  BY <1>1, <1>9 DEF paymentVars
<1> QED
  BY <1>2, <1>3, <1>4, <1>5, <1>6, <1>7, <1>8, <1>9 DEF Next

\* The initial states are initial states of Purchases.
LEMMA InitRefines == Init => Contract!Start
  BY DEF Init, Contract!Start

\* Whatever callbacks are lost, repeated or reordered, and whatever grants
\* fail, an order is delivered only after it was paid in full, once, and never
\* taken back.
THEOREM Refinement == Spec => ImplementsPurchases
<1>1. Spec => Contract!PurchaseSpec
  BY InitRefines, StepRefines, Invariance, PTL DEF Spec, Contract!PurchaseSpec
<1> QED BY <1>1 DEF ImplementsPurchases
=============================================================================
