------------------------------ MODULE Payments ------------------------------
(***************************************************************************)
(* Checkout and settlement: a member opens an invoice with one of two      *)
(* providers, pays it there, and the provider reports with signed          *)
(* callbacks.  Callbacks may come in any order, any number of times, or    *)
(* never; the ones a provider has signed stay in the set sent.             *)
(*                                                                         *)
(* Each webhook handler runs without an await, so it is one action.  What  *)
(* a grant does to the account is the matter of Billing; here an order is  *)
(* grantable as long as Billing's settlePaymentSnapshot would accept it.   *)
(***************************************************************************)
EXTENDS Naturals, FiniteSets

CONSTANTS
  Cryptomus,   \* orders checked out with Cryptomus
  Leuwongrr,   \* orders checked out with leuwongrr.online
  Packs,       \* orders of duration packs, whose grant leaves no payment entry
  Signatures,  \* distinct bodies a provider may sign with one status
  MaxSent      \* bound: callbacks signed in a run

Orders == Cryptomus \cup Leuwongrr

ASSUME ProvidersAssumption == Cryptomus \cap Leuwongrr = {} /\ Packs \subseteq Orders
ASSUME BoundAssumption == MaxSent \in Nat

VARIABLES
  invoice,    \* invoice[o]: progress of openInvoice
  registered, \* orders a provider knows
  money,      \* money[o]: what the provider received for o
  sent,       \* callbacks the providers signed
  row,        \* row[o]: the payments row
  events,     \* digests in payment_events
  ledger,     \* orders with a ledger entry of source payment
  granted,    \* granted[o]: entitlements granted for o (history)
  grantable,  \* orders whose snapshot settlePaymentSnapshot accepts now
  rate        \* an exchange rate is configured

checkoutVars == <<invoice, registered>>
providerVars == <<money, sent>>
settlementVars == <<row, events, ledger, granted>>
configVars == <<grantable, rate>>
paymentVars == <<checkoutVars, providerVars, settlementVars, configVars>>

PAID_STATUSES == {"paid", "paid_over"}
Statuses == PAID_STATUSES \cup {"cancel"}

\* A signed callback; enough: it reports the invoice's amount and currency.
Callbacks == [order : Orders, status : Statuses, enough : BOOLEAN, sign : Signatures]

NoRow == [status |-> "none", settledAt |-> FALSE, settlement |-> "none"]
NewRow == [status |-> "open", settledAt |-> FALSE, settlement |-> "pending"]

HasRow(o) == row[o] # NoRow
Settles(d) == d.status \in PAID_STATUSES

-----------------------------------------------------------------------------
(***************************************************************************)
(* Checkout.                                                               *)
(***************************************************************************)
\* The request to Cryptomus is sent; openInvoice awaits the answer.
OpenCryptomus(o) ==
  /\ invoice[o] = "none"
  /\ invoice' = [invoice EXCEPT ![o] = "creating"]
  /\ UNCHANGED <<registered, providerVars, settlementVars, configVars>>

CryptomusRegisters(o) ==
  /\ invoice[o] \in {"creating", "failed"} /\ o \notin registered
  /\ registered' = registered \cup {o}
  /\ UNCHANGED <<invoice, providerVars, settlementVars, configVars>>

InvoiceAnswered(o) ==
  /\ invoice[o] = "creating" /\ o \in registered
  /\ invoice' = [invoice EXCEPT ![o] = "done"]
  /\ row' = [row EXCEPT ![o] = NewRow]
  /\ UNCHANGED <<registered, providerVars, events, ledger, granted, configVars>>

\* A timeout, a refusal, or the process dies while it waits.
InvoiceFails(o) ==
  /\ invoice[o] = "creating"
  /\ invoice' = [invoice EXCEPT ![o] = "failed"]
  /\ UNCHANGED <<registered, providerVars, settlementVars, configVars>>

OpenLeuwongrr(o) ==
  /\ invoice[o] = "none" /\ rate
  /\ invoice' = [invoice EXCEPT ![o] = "done"]
  /\ registered' = registered \cup {o}
  /\ row' = [row EXCEPT ![o] = NewRow]
  /\ UNCHANGED <<providerVars, events, ledger, granted, configVars>>

-----------------------------------------------------------------------------
(***************************************************************************)
(* The providers.                                                          *)
(***************************************************************************)
MemberPays(o, amount) ==
  /\ o \in registered /\ money[o] # "full" /\ money[o] # amount
  /\ money' = [money EXCEPT ![o] = amount]
  /\ UNCHANGED <<checkoutVars, sent, settlementVars, configVars>>

\* A provider signs that it was paid what it was paid, or a failure notice,
\* which may as well come late.
Signs(d) ==
  /\ d.order \in registered /\ d \notin sent /\ Cardinality(sent) < MaxSent
  /\ Settles(d) => IF d.enough THEN money[d.order] = "full" ELSE money[d.order] = "short"
  /\ ~Settles(d) => ~d.enough
  /\ sent' = sent \cup {d}
  /\ UNCHANGED <<checkoutVars, money, settlementVars, configVars>>

-----------------------------------------------------------------------------
(***************************************************************************)
(* Settlement.  What the transaction of a webhook does to the row, the     *)
(* markers, the ledger and the account.                                    *)
(***************************************************************************)
Duplicate(d) ==
  /\ d \in events
  /\ UNCHANGED settlementVars

\* A second paid status of a settled order; only Cryptomus' handler notes it.
AlreadySettled(d) ==
  /\ d \notin events /\ Settles(d) /\ row[d.order].settledAt
  /\ events' = events \cup {d}
  /\ row' = IF d.order \in Cryptomus
            THEN [row EXCEPT ![d.order].status = d.status, ![d.order].settlement = "settled"]
            ELSE row
  /\ UNCHANGED <<ledger, granted>>

SettledRow(d) == [status |-> d.status, settledAt |-> TRUE, settlement |-> "settled"]

\* mutant: settled_at is not looked at
GrantAgain(d) ==
  /\ d \notin events /\ Settles(d) /\ d.order \in grantable
  /\ events' = events \cup {d}
  /\ row' = [row EXCEPT ![d.order] = SettledRow(d)]
  /\ granted' = IF d.order \in ledger THEN granted ELSE [granted EXCEPT ![d.order] = @ + 1]
  /\ ledger' = IF d.order \in Packs THEN ledger ELSE ledger \cup {d.order}

Grant(d) ==
  /\ d \notin events /\ Settles(d) /\ ~row[d.order].settledAt
  /\ d.order \in grantable
  /\ events' = events \cup {d}
  /\ row' = [row EXCEPT ![d.order] = SettledRow(d)]
  /\ granted' = IF d.order \in ledger THEN granted ELSE [granted EXCEPT ![d.order] = @ + 1]
  /\ ledger' = IF d.order \in Packs THEN ledger ELSE ledger \cup {d.order}

Unsettleable(d) ==
  [status |-> d.status, settledAt |-> FALSE, settlement |-> "reconciliation_required"]

\* mutant: the marker is written outside the transaction
GrantFailsMarked(d) ==
  /\ d \notin events /\ Settles(d) /\ ~row[d.order].settledAt
  /\ d.order \notin grantable
  /\ events' = events \cup {d}
  /\ row' = [row EXCEPT ![d.order] = Unsettleable(d)]
  /\ UNCHANGED <<ledger, granted>>

\* The transaction rolled back, and its marker with it.
GrantFails(d) ==
  /\ d \notin events /\ Settles(d) /\ ~row[d.order].settledAt
  /\ d.order \notin grantable
  /\ row' = [row EXCEPT ![d.order] = Unsettleable(d)]
  /\ UNCHANGED <<events, ledger, granted>>

\* mutant: a late failure notice overwrites the status
NotPaidAlways(d) ==
  /\ d \notin events /\ ~Settles(d)
  /\ events' = events \cup {d}
  /\ row' = [row EXCEPT ![d.order].status = d.status]
  /\ UNCHANGED <<ledger, granted>>

NotPaid(d) ==
  /\ d \notin events /\ ~Settles(d)
  /\ events' = events \cup {d}
  /\ row' = IF row[d.order].settledAt THEN row ELSE [row EXCEPT ![d.order].status = d.status]
  /\ UNCHANGED <<ledger, granted>>

\* mutant: any signed amount settles
AcceptsAny(d) == HasRow(d.order) /\ (Settles(d) /\ d.order \in Leuwongrr => rate)

\* An unknown order, a wrong amount and a missing rate are answered before the
\* transaction and change nothing.
Accepts(d) ==
  /\ HasRow(d.order)
  /\ Settles(d) => d.enough /\ (d.order \in Leuwongrr => rate)

Webhook(d) ==
  /\ d \in sent /\ Accepts(d)
  /\ Duplicate(d) \/ AlreadySettled(d) \/ Grant(d) \/ GrantFails(d) \/ NotPaid(d)
  /\ UNCHANGED <<checkoutVars, providerVars, configVars>>

-----------------------------------------------------------------------------
(***************************************************************************)
(* The surroundings: plans are edited, subscriptions come and go.          *)
(***************************************************************************)
GrantableChanges(o) ==
  /\ grantable' = IF o \in grantable THEN grantable \ {o} ELSE grantable \cup {o}
  /\ UNCHANGED <<checkoutVars, providerVars, settlementVars, rate>>

SetExchangeRate ==
  /\ ~rate
  /\ rate' = TRUE
  /\ UNCHANGED <<checkoutVars, providerVars, settlementVars, grantable>>

Init ==
  /\ invoice = [o \in Orders |-> "none"]
  /\ registered = {}
  /\ money = [o \in Orders |-> "nothing"]
  /\ sent = {}
  /\ row = [o \in Orders |-> NoRow]
  /\ events = {} /\ ledger = {}
  /\ granted = [o \in Orders |-> 0]
  /\ grantable \in SUBSET Orders
  /\ rate = FALSE

Next ==
  \/ \E o \in Cryptomus :
       OpenCryptomus(o) \/ CryptomusRegisters(o) \/ InvoiceAnswered(o) \/ InvoiceFails(o)
  \/ \E o \in Leuwongrr : OpenLeuwongrr(o)
  \/ \E o \in Orders : GrantableChanges(o) \/ \E amount \in {"short", "full"} : MemberPays(o, amount)
  \/ \E d \in Callbacks : Signs(d) \/ Webhook(d)
  \/ SetExchangeRate

Spec == Init /\ [][Next]_paymentVars

\* A provider repeats a signed callback until it is acted upon.
FairSpec == Spec /\ \A d \in Callbacks : WF_paymentVars(Webhook(d))

-----------------------------------------------------------------------------
(***************************************************************************)
(* Properties.                                                             *)
(***************************************************************************)
\* Types; an order is granted at most once.
PaymentTypeOK ==
  /\ invoice \in [Orders -> {"none", "creating", "failed", "done"}]
  /\ registered \subseteq Orders
  /\ money \in [Orders -> {"nothing", "short", "full"}]
  /\ sent \subseteq Callbacks /\ events \subseteq Callbacks
  /\ row \in [Orders -> [status : Statuses \cup {"none", "open"}, settledAt : BOOLEAN,
                         settlement : {"none", "pending", "settled", "reconciliation_required"}]]
  /\ ledger \subseteq Orders /\ grantable \subseteq Orders
  /\ granted \in [Orders -> 0..1]
  /\ rate \in BOOLEAN

\* The row tells the truth: a row with a settled_at reads settled and paid,
\* and it has one exactly when its entitlement was granted - whatever failed,
\* late or repeated callbacks came before or after.
RowTellsGrant ==
  \A o \in Orders :
    /\ row[o].settledAt <=> granted[o] = 1
    /\ row[o].settledAt <=> row[o].settlement = "settled"
    /\ row[o].settledAt => row[o].status \in PAID_STATUSES

\* A paid callback is marked as seen only once its order was granted: a
\* failed grant never turns the provider's retry into a duplicate.
MarkerMeansGrant == \A d \in events : Settles(d) => granted[d.order] = 1

\* Grant, row and marker agree in every state, although a grant may fail in the
\* middle of a settlement and its callback may come again or late.
GrantsRecorded == RowTellsGrant /\ MarkerMeansGrant

\* Two providers, callbacks and rows together do what Purchases promises.
Contract ==
  INSTANCE Purchases WITH
    paid <- {o \in Orders : money[o] = "full"},
    delivered <- granted

ImplementsPurchases == Contract!PurchaseSpec

\* Whoever paid and whose payment the provider reports gets the entitlement,
\* however often the grant failed before, once the plan admits it and a rate
\* exists.
PaidIsGranted ==
  \A o \in Orders :
    (<>[](o \in grantable) /\ <>[]rate) =>
      ((HasRow(o) /\ \E d \in sent : d.order = o /\ Settles(d) /\ d.enough) ~> granted[o] = 1)
=============================================================================
