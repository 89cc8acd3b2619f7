------------------------------ MODULE MCBilling ------------------------------
(***************************************************************************)
(* Instances of Billing for TLC.                                           *)
(***************************************************************************)
EXTENDS Billing, TLC

Plan(method, duration, basis, included, rate, resets, price) ==
  [method |-> method, duration |-> duration, basis |-> basis, included |-> included,
   rate |-> rate, resets |-> resets, active |-> TRUE, price |-> price]

\* A pass that starts with its first use, a pack with a rate.
MCStacked ==
  "pass" :> {Plan("rolling_time", 2, "from_first_use", 2, 0, 1, 0)} @@
  "pack" :> {Plan("token_pack", 2, "from_payment", 2, 2, 0, 0)}

\* With them a balance in cents, a legacy plan, and a pack without a rate or
\* tokens: what is paid for it is what the exchange rate gives.
MCAll ==
  "pass" :> MCStacked["pass"] @@
  "pack" :> MCStacked["pack"] \cup {Plan("token_pack", 2, "from_payment", 0, 0, 0, 2)} @@
  "money" :> {Plan("monetary_pack", 2, "from_payment", 0, 0, 0, 2)} @@
  "legacy" :> {Plan("token_pack", 0, "from_payment", 1, 0, 0, 0)}

MCPacks == {[tokens |-> 3, hours |-> 1]}
=============================================================================
