----------------------------- MODULE Purchases -----------------------------
(***************************************************************************)
(* What checkout promises, without providers, callbacks or rows: what was  *)
(* paid in full may be handed over, once, and is never taken back.         *)
(***************************************************************************)
EXTENDS Naturals

CONSTANT Orders

VARIABLES
  paid,       \* orders whose full price was received
  delivered   \* delivered[o]: entitlements handed over for order o

purchaseVars == <<paid, delivered>>

Start ==
  /\ paid = {}
  /\ delivered = [o \in Orders |-> 0]

Pay(o) ==
  /\ o \notin paid
  /\ paid' = paid \cup {o}
  /\ UNCHANGED delivered

Deliver(o) ==
  /\ o \in paid
  /\ delivered[o] = 0
  /\ delivered' = [delivered EXCEPT ![o] = 1]
  /\ UNCHANGED paid

PurchaseNext == \E o \in Orders : Pay(o) \/ Deliver(o)

PurchaseSpec == Start /\ [][PurchaseNext]_purchaseVars
=============================================================================
