---------------------------- MODULE MCCatalogue ----------------------------
(***************************************************************************)
(* Instances of Catalogue for TLC.                                         *)
(***************************************************************************)
EXTENDS Catalogue, Integers, Sequences, TLC

CONSTANTS t, m1, m2, gold, pass, pack

MCRolling == pass :> "rolling_time"
MCBoth    == pass :> "rolling_time" @@ pack :> "token_pack"

Symmetry == Permutations({m1, m2})

(***************************************************************************)
(* Plans and models are edited through forms: what they take is evaluated  *)
(* here against what the routes take, at the ends of every range.          *)
(***************************************************************************)
Desk == INSTANCE Forms WITH UnitsBound <- 9, PriceBound <- 5, ConcurrentBound <- 2,
                            RateBound <- 4, MaxBulkRows <- 2

Typed ==
  {[is |-> "blank"], [is |-> "word"]}
    \cup [is : {"number"}, value : {-1, 0, 1, 2, 3, 4, 5, 9, 10}, whole : BOOLEAN]

LimitTypings == [Desk!Limits -> Typed]

ASSUME LimitsFormAgrees == Desk!LimitsFormAgrees(LimitTypings)

ASSUME LimitsSetStandsApart == Desk!LimitsSetStandsApart(LimitTypings)

PlanTypings ==
  {l @@ [monthlyPriceCents |-> price, includedTokens |-> tokens, modelGroupId |-> chosen] :
     l \in [Desk!Limits -> {[is |-> "blank"], Desk!Number(0), Desk!Number(2), Desk!Number(10)}],
     price \in Typed, tokens \in Typed, chosen \in {"id", "none chosen"}}

ASSUME PlanWritersKeepEnvelope == Desk!PlanWritersKeepEnvelope(PlanTypings)

Cells ==
  {[is |-> kind] : kind \in {"blank", "dash", "word", "true", "id"}}
    \cup {Desk!Number(n) : n \in {-1, 5, 6}}

Lines ==
  [id : {"comment", "id", "word"},
   cells : {<<>>} \cup {<<x>> : x \in Cells} \cup {<<x, y, x, z>> : x, y, z \in Cells}
             \cup {<<x, x, x, x, x>> : x \in Cells}]

Texts ==
  {<<l>> : l \in Lines}
    \cup {<<l, good, k>> : l \in {x \in Lines : Len(x.cells) < 2}, k \in {x \in Lines : Len(x.cells) < 2},
                           good \in {x \in Lines : x.id = "id" /\ x.cells = <<Desk!Number(5)>>}}

ASSUME BulkPreviewIsAccepted == Desk!BulkPreviewIsAccepted(Texts)

ASSUME NothingDropped == Desk!NothingDropped(Texts)
=============================================================================
