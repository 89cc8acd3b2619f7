--------------------------- MODULE BudgetAccount ---------------------------
(***************************************************************************)
(* What the daily budget promises, without the machinery that keeps it.    *)
(* Every request has at most one row.  A row is admitted by one atomic     *)
(* test against the limit of its tenant and day, is resolved once - charged*)
(* what was used, or released - and then only disappears with its day.     *)
(***************************************************************************)
EXTENDS Integers, Functions

CONSTANTS
  Rows,        \* identities of the rows
  Tenants,     \* the accounts
  Budget,      \* an account's daily limit
  Actuals,     \* units a request may turn out to have used
  DayLength,   \* ticks of a day
  Retention    \* days a resolved row is kept

VARIABLES
  tenant,  \* tenant[r]: the account of row r
  cost,    \* cost[r]: what row r reserves
  row,     \* row[r]: state, units and tick of row r
  now      \* the clock

accountVars == <<tenant, cost, row, now>>

Absent == [state |-> "absent", units |-> 0, at |-> 0]
DayOf(tick) == tick \div DayLength

Booked(t, day) ==
  {r \in Rows : /\ row[r].state \in {"reserved", "settled"}
                /\ tenant[r] = t
                /\ DayOf(row[r].at) = day}

Fits(r) ==
  SumFunctionOnSet([q \in Rows |-> row[q].units], Booked(tenant[r], DayOf(now))) + cost[r]
    <= Budget[tenant[r]]

Start ==
  /\ tenant \in [Rows -> Tenants]
  /\ cost \in [Rows -> Nat]
  /\ row = [r \in Rows |-> Absent]
  /\ now = 0

Reserve(r) ==
  /\ row[r] = Absent
  /\ Fits(r)
  /\ row' = [row EXCEPT ![r] = [state |-> "reserved", units |-> cost[r], at |-> now]]
  /\ UNCHANGED <<tenant, cost, now>>

\* Reserved and released at once: refused for another reason than the budget.
Void(r) ==
  /\ row[r] = Absent
  /\ Fits(r)
  /\ row' = [row EXCEPT ![r] = [state |-> "released", units |-> 0, at |-> now]]
  /\ UNCHANGED <<tenant, cost, now>>

Released(x) == [x EXCEPT !.state = "released", !.units = 0]
Settled(x, actual) == [x EXCEPT !.state = "settled", !.units = actual]

\* Some open rows are resolved, each one way.
Resolve ==
  /\ \A r \in Rows :
       \/ row'[r] = row[r]
       \/ /\ row[r].state = "reserved"
          /\ \/ row'[r] = Released(row[r])
             \/ \E actual \in Actuals : row'[r] = Settled(row[r], actual)
  /\ row' = [r \in Rows |-> row'[r]]
  /\ UNCHANGED <<tenant, cost, now>>

Purge ==
  /\ row' = [r \in Rows |->
               IF /\ row[r].state \in {"settled", "released"}
                  /\ DayOf(row[r].at) < DayOf(now) - Retention
               THEN Absent ELSE row[r]]
  /\ UNCHANGED <<tenant, cost, now>>

Advance == now' = now + 1 /\ UNCHANGED <<tenant, cost, row>>

Step == (\E r \in Rows : Reserve(r) \/ Void(r)) \/ Resolve \/ Purge \/ Advance

Spec == Start /\ [][Step]_accountVars
=============================================================================
