------------------------------- MODULE Forms -------------------------------
(***************************************************************************)
(* What an operator types and what the gateway takes: the limits, plan and *)
(* bulk forms of the admin console (web/src/admin), the operator's command *)
(* line (cli/keys.ts), and the schemas the routes parse with               *)
(* (billing/limit-bounds.ts, billing/plan-input.ts, models/catalog.ts and  *)
(* limitsSchema and BULK_ROW_SCHEMA of http/console.ts).  They are written *)
(* apart and must agree: a form that takes more than its route leaves the  *)
(* operator with a 400, and a writer that takes more sets limits the       *)
(* request path then enforces.                                             *)
(*                                                                         *)
(* What is typed is "blank", a "word", or a "number" with its whole part,  *)
(* and whether it has a fraction or a sign.                                *)
(***************************************************************************)
EXTENDS Integers, Sequences

CONSTANTS
  UnitsBound, PriceBound, \* the greatest daily budget, the greatest price of a model
  ConcurrentBound, RateBound,
  MaxBulkRows             \* rows one bulk request may carry

Number(value) == [is |-> "number", value |-> value, whole |-> TRUE]
NaN == [is |-> "nan"]

IsFinite(n)  == n.is = "number"
IsInteger(n) == n.is = "number" /\ n.whole

\* JavaScript's Number of what is typed: of a blank it is 0.
ToNumber(typed) ==
  CASE typed.is = "number" -> typed
    [] typed.is = "blank" -> Number(0)
    [] OTHER -> NaN

Within(n, bound) == bound.min <= n.value /\ n.value <= bound.max

\* A schema's z.number().finite(), with or without .int().
Finite(n, bound)  == IsFinite(n) /\ Within(n, bound)
Integer(n, bound) == IsInteger(n) /\ Within(n, bound)

DAILY_BUDGET_UNITS == [min |-> 0, max |-> UnitsBound]
MAX_CONCURRENT     == [min |-> 1, max |-> ConcurrentBound]
RATE_LIMIT_RPM     == [min |-> 1, max |-> RateBound]

(***************************************************************************)
(* The limits of a tenant.                                                 *)
(***************************************************************************)
\* A cleared box is no number, so that it is not read as a budget of zero.
parseLimitInput(typed) == IF typed.is = "blank" THEN NaN ELSE ToNumber(typed)

limitsSaveDisabled(l) ==
  \/ ~IsInteger(l.dailyBudgetUnits) \/ ~IsInteger(l.maxConcurrent) \/ ~IsInteger(l.rateLimitRpm)
  \/ ~Within(l.dailyBudgetUnits, DAILY_BUDGET_UNITS)
  \/ ~Within(l.maxConcurrent, MAX_CONCURRENT)
  \/ ~Within(l.rateLimitRpm, RATE_LIMIT_RPM)

\* limitsSchema, of POST /console/api/admin/accounts/limits.
limitsSchema(l) ==
  /\ Integer(l.dailyBudgetUnits, DAILY_BUDGET_UNITS)
  /\ Integer(l.maxConcurrent, MAX_CONCURRENT)
  /\ Integer(l.rateLimitRpm, RATE_LIMIT_RPM)

Limits == {"dailyBudgetUnits", "maxConcurrent", "rateLimitRpm"}

\* The command line's readers fail, for a blank too (requireOption), or give
\* the number.
positiveInteger(typed)    == IF IsInteger(typed) /\ typed.value >= 1 THEN typed ELSE NaN
nonNegativeInteger(typed) == IF IsInteger(typed) /\ typed.value >= 0 THEN typed ELSE NaN
nonNegativePrice(typed)   == IF IsFinite(typed) /\ typed.value >= 0 THEN typed ELSE NaN

\* limits:set writes what the readers give, without a schema.
limitsSet(typed) == \A f \in Limits : IsFinite(positiveInteger(typed[f]))

(***************************************************************************)
(* A plan: its price, its tokens and its limits.                           *)
(***************************************************************************)
Price == [min |-> 0, max |-> PriceBound]

planInputSchema(p) ==
  /\ Finite(p.monthlyPriceCents, Price) /\ Integer(p.includedTokens, DAILY_BUDGET_UNITS)
  /\ limitsSchema(p)
  /\ p.modelGroupId # "empty"

\* The number boxes of PlanEditor read with Number; the price boxes are text
\* and give NaN for what is no price; "no group" is the empty string.
PlanEditor(typed) ==
  [f \in DOMAIN typed |->
     CASE f = "modelGroupId" -> IF typed[f] = "none chosen" THEN "empty" ELSE typed[f]
       [] f = "monthlyPriceCents" -> IF typed[f].is = "blank" THEN NaN ELSE ToNumber(typed[f])
       [] OTHER -> ToNumber(typed[f])]

planSaveDisabled(p) == \E f \in DOMAIN p \ {"modelGroupId"} : ~IsFinite(p[f])

\* plan:upsert reads every flag, names a group always, and parses the schema.
planUpsert(typed) ==
  LET p == [f \in DOMAIN typed |->
              CASE f = "modelGroupId" -> IF typed[f] = "none chosen" THEN "legacy-default" ELSE typed[f]
                [] f = "monthlyPriceCents" -> nonNegativePrice(typed[f])
                [] f \in {"maxConcurrent", "rateLimitRpm"} -> positiveInteger(typed[f])
                [] OTHER -> nonNegativeInteger(typed[f])]
  IN  (\A f \in DOMAIN typed \ {"modelGroupId"} : IsFinite(p[f])) /\ planInputSchema(p)

(***************************************************************************)
(* The bulk edit of models: a line is an id and the cells after it.        *)
(***************************************************************************)
Columns == <<"inputPriceCents", "cacheReadPriceCents", "enabled", "groupId">>
Prices  == {"inputPriceCents", "cacheReadPriceCents"}

\* modelUpdateSchema and the id, as BULK_ROW_SCHEMA.
BULK_ROW_SCHEMA(row) ==
  /\ row.id = "id"
  /\ \A c \in DOMAIN row.changes :
       CASE c \in Prices -> Finite(row.changes[c], Price)
         [] c = "enabled" -> row.changes[c] \in {TRUE, FALSE}
         [] OTHER -> row.changes[c] = "id"

\* The route's answer: every row parsed, then none with its id alone.
bulkAccepts(rows) ==
  /\ Len(rows) \in 1 .. MaxBulkRows
  /\ \A i \in DOMAIN rows : BULK_ROW_SCHEMA(rows[i]) /\ DOMAIN rows[i].changes # {}

Skipped(cell) == cell.is \in {"blank", "dash"}

\* Whether a cell that is not skipped can be read, and as what.
Readable(c, cell) ==
  CASE c \in Prices -> Finite(ToNumber(cell), Price)
    [] c = "enabled" -> cell.is \in {"true", "false"}
    [] OTHER -> cell.is = "id"

Read(c, cell) ==
  CASE c \in Prices -> ToNumber(cell)
    [] c = "enabled" -> cell.is = "true"
    [] OTHER -> cell.is

\* The cells a line fills in, by column.
Filled(line) ==
  {i \in DOMAIN line.cells \cap DOMAIN Columns : ~Skipped(line.cells[i])}

Unreadable(line) == {i \in Filled(line) : ~Readable(Columns[i], line.cells[i])}

Skips(line) == line.id \in {"comment", "blank"}

\* What is wrong with a line, if anything.
Issue(line) ==
  \/ line.id # "id"
  \/ Len(line.cells) \notin 1 .. Len(Columns)
  \/ Unreadable(line) # {} \/ Filled(line) = {}

Row(line) ==
  [id |-> "id",
   changes |-> [c \in {Columns[i] : i \in Filled(line)} |->
                  Read(c, line.cells[CHOOSE i \in Filled(line) : Columns[i] = c])]]

parseBulkModels(lines) ==
  LET read == SelectSeq(lines, LAMBDA l : ~Skips(l))
      rows == SelectSeq(read, LAMBDA l : ~Issue(l))
  IN  [rows |-> [i \in DOMAIN rows |-> Row(rows[i])],
       issues |-> {i \in DOMAIN lines : ~Skips(lines[i]) /\ Issue(lines[i])}]

\* Apply sends what the preview shows, when it shows something.
applyDisabled(parsed) == parsed.rows = <<>>

(***************************************************************************)
(* How they agree.                                                         *)
(***************************************************************************)
\* The limits form saves exactly what the route takes, and a box left empty
\* never becomes a limit (limits-validation.ts 22-34).
LimitsFormAgrees(typings) ==
  \A typed \in typings :
    LET l == [f \in Limits |-> parseLimitInput(typed[f])]
    IN  /\ ~limitsSaveDisabled(l) <=> limitsSchema(l)
        /\ (\E f \in Limits : typed[f].is = "blank") => ~limitsSchema(l)

\* limits:set is the writer that does not share the envelope: it takes a limit
\* above every bound, and refuses the budget of zero that blocks a tenant.
LimitsSetStandsApart(typings) ==
  /\ \E typed \in typings : limitsSet(typed) /\ ~limitsSchema(typed)
  /\ \E typed \in typings :
       /\ typed["dailyBudgetUnits"] = Number(0)
       /\ limitsSchema(typed) /\ ~limitsSet(typed)

\* Whatever plan is stored, by the console or by plan:upsert, its limits are
\* limits the admin route would take, for applyPlanLimits copies them
\* (plan-input.ts 4-22); and the console's form never holds back a plan the
\* schema takes.
PlanWritersKeepEnvelope(typings) ==
  \A typed \in typings :
    /\ planInputSchema(PlanEditor(typed)) =>
         ~planSaveDisabled(PlanEditor(typed)) /\ limitsSchema(PlanEditor(typed))
    /\ planUpsert(typed) => limitsSchema([f \in Limits |-> ToNumber(typed[f])])

\* The preview is the payload the server accepts, up to the number of rows,
\* which the form does not bound (bulk-models.ts 28-31).
BulkPreviewIsAccepted(texts) ==
  \A lines \in texts :
    LET parsed == parseBulkModels(lines)
    IN  ~applyDisabled(parsed) => (bulkAccepts(parsed.rows) <=> Len(parsed.rows) <= MaxBulkRows)

\* No line that says something is dropped in silence: it is a row or an issue.
NothingDropped(texts) ==
  \A lines \in texts :
    LET parsed == parseBulkModels(lines)
    IN  \A i \in DOMAIN lines \ parsed.issues :
          Skips(lines[i]) \/ \E j \in DOMAIN parsed.rows : parsed.rows[j] = Row(lines[i])
=============================================================================
