----------------------------- MODULE Catalogue -----------------------------
(***************************************************************************)
(* What a tenant may call: the catalogue of models and groups, plans and   *)
(* the models they list, subscriptions as far as they carry a group, the   *)
(* per-tenant policies, and resolveCatalogModel, which reads all of them   *)
(* for every request (models/catalog.ts, models/groups.ts,                 *)
(* policy/model-resolver.ts, the admin routes of console.ts, upsertPlan,   *)
(* startSubscription and applyPlanLimits of billing/service.ts).           *)
(*                                                                         *)
(* A handler is one step; the sync awaits the upstream's list, and is not  *)
(* a transaction.  Names, prices, multipliers and capabilities are left    *)
(* out; a tenant with an account is named by its tenant.                   *)
(***************************************************************************)
EXTENDS Naturals, FiniteSets

CONSTANTS
  Tenants,
  Accounts,      \* the tenants that belong to a console account
  ConsoleEnabled,
  Models, Groups,
  LegacyDefault, \* the group 'legacy-default'
  NoGroup,       \* NULL
  Plans,
  Method,        \* Method[p]: "rolling_time", "token_pack", or "legacy" without a duration
  MaxSubs        \* bound: subscriptions

ASSUME CatalogueAssumption ==
  /\ Accounts \subseteq Tenants /\ ConsoleEnabled \in BOOLEAN
  /\ LegacyDefault \in Groups /\ NoGroup \notin Groups
  /\ Method \in [Plans -> {"rolling_time", "token_pack", "legacy"}] /\ MaxSubs \in Nat

VARIABLES
  model,   \* model[m]: the row of the model with that public id
  group,   \* group[g]: "absent", "enabled" or "disabled"
  plan,    \* plan[p]: the plan; its models are those of models_json
  sub,     \* the subscriptions
  policy,  \* model_policies: policy[t][m] is "none", "allow" or "deny"
  syncing  \* a sync awaits the upstream

catalogueVars == <<model, group, plan, sub, policy, syncing>>

Subs    == 1 .. MaxSubs
NoModel == [exists |-> FALSE, enabled |-> FALSE, group |-> NoGroup]
NoPlan  == [exists |-> FALSE, active |-> FALSE, group |-> NoGroup, models |-> {}]
NoSub   == [status |-> "absent", tenant |-> NoGroup, plan |-> NoGroup, group |-> NoGroup,
            rolling |-> FALSE]

HasGroup(g) == g \in Groups /\ group[g] # "absent"

(***************************************************************************)
(* resolveCatalogModel.                                                    *)
(***************************************************************************)
LiveSubs(t) == {i \in Subs : sub[i].status = "live" /\ sub[i].tenant = t}

\* Those that are not canceled; a lapsed one has run out of time.
HeldSubs(t) == {i \in Subs : sub[i].status \in {"live", "lapsed"} /\ sub[i].tenant = t}

\* mutant: the plan's group comes before the subscription's own
EntitledGroupOfPlan(i) ==
  IF plan[sub[i].plan].group # NoGroup THEN plan[sub[i].plan].group ELSE sub[i].group

EntitledGroup(i) == IF sub[i].group # NoGroup THEN sub[i].group ELSE plan[sub[i].plan].group

Available(m) == model[m].exists /\ model[m].enabled /\ HasGroup(model[m].group)
                  /\ group[model[m].group] = "enabled"

EntitledBy(t, m) == {i \in LiveSubs(t) : EntitledGroup(i) = model[m].group}

resolveCatalogModel(t, m) ==
  /\ Available(m)
  /\ IF t \in Accounts THEN EntitledBy(t, m) # {} ELSE policy[t][m] = "allow"
  /\ policy[t][m] # "deny"

\* resolveModel of a request: with the console, a tenant needs an account.
Resolves(t, m) == (t \in Accounts \/ ~ConsoleEnabled) /\ resolveCatalogModel(t, m)

\* GET /v1/models: what the caller is told it may call.
Callable(t) ==
  {m \in Models : model[m].exists /\ model[m].enabled /\ model[m].group # NoGroup /\ Resolves(t, m)}

(***************************************************************************)
(* ModelCatalog and ModelGroupCatalog.                                     *)
(***************************************************************************)
Creatable(m, g) == ~model[m].exists /\ HasGroup(g)

\* What a row of an update may write: the enabled flag or a group.
Changes == [enabled : {"on", "off"}, group : {NoGroup}] \cup [enabled : {"kept"}, group : Groups]

updated(m, change) ==
  [exists |-> TRUE,
   enabled |-> change.enabled = "on" \/ (change.enabled = "kept" /\ model[m].enabled),
   group |-> IF change.group = NoGroup THEN model[m].group ELSE change.group]

\* A row without a group fails, and so does one that names an unknown group.
Accepted(m, change) == model[m].exists => HasGroup(updated(m, change).group)

\* The guard of remove: the models an active plan lists.
Listed(m) == \E p \in Plans : plan[p].exists /\ plan[p].active /\ m \in plan[p].models

WithoutPolicies(ms) ==
  [t \in Tenants |-> [m \in Models |-> IF m \in ms THEN "none" ELSE policy[t][m]]]

CreateModel(m, g, enabled) ==
  /\ Creatable(m, g)
  /\ model' = [model EXCEPT ![m] = [exists |-> TRUE, enabled |-> enabled, group |-> g]]
  /\ UNCHANGED <<group, plan, sub, policy, syncing>>

\* POST models/bulk: all rows or none; rows of models that do not exist are
\* reported and skipped.
UpdateModels(rows) ==
  /\ \A m \in DOMAIN rows : Accepted(m, rows[m])
  /\ model' = [m \in Models |-> IF m \in DOMAIN rows /\ model[m].exists
                                THEN updated(m, rows[m]) ELSE model[m]]
  /\ UNCHANGED <<group, plan, sub, policy, syncing>>

\* PUT models/:id.
UpdateModel(m, change) ==
  /\ model[m].exists /\ Accepted(m, change)
  /\ model' = [model EXCEPT ![m] = updated(m, change)]
  /\ UNCHANGED <<group, plan, sub, policy, syncing>>

remove(m) ==
  /\ model[m].exists /\ ~Listed(m)
  /\ model' = [model EXCEPT ![m] = NoModel]
  /\ policy' = WithoutPolicies({m})

RemoveModel(m) == remove(m) /\ UNCHANGED <<group, plan, sub, syncing>>

Switch(enabled) == IF enabled THEN "enabled" ELSE "disabled"

createGroup(g, enabled) ==
  group[g] = "absent" /\ group' = [group EXCEPT ![g] = Switch(enabled)]

CreateGroup(g, enabled) ==
  createGroup(g, enabled) /\ UNCHANGED <<model, plan, sub, policy, syncing>>

updateGroup(g, enabled) ==
  HasGroup(g) /\ group' = [group EXCEPT ![g] = Switch(enabled)]

UpdateGroup(g, enabled) ==
  updateGroup(g, enabled) /\ UNCHANGED <<model, plan, sub, policy, syncing>>

assignModel(g, m) ==
  HasGroup(g) /\ model[m].exists /\ model' = [model EXCEPT ![m].group = g]

AssignModel(g, m) == assignModel(g, m) /\ UNCHANGED <<group, plan, sub, policy, syncing>>

unassignModel(m) == model[m].exists /\ model' = [model EXCEPT ![m].group = NoGroup]

UnassignModel(m) == unassignModel(m) /\ UNCHANGED <<group, plan, sub, policy, syncing>>

\* mutant: subscriptions are not asked
removeGroupOfSubs(g) ==
  /\ HasGroup(g)
  /\ \A p \in Plans : plan[p].group # g
  /\ \A m \in Models : model[m].group # g
  /\ group' = [group EXCEPT ![g] = "absent"]

removeGroup(g) ==
  /\ HasGroup(g)
  /\ \A p \in Plans : plan[p].group # g
  /\ \A i \in Subs : sub[i].group # g
  /\ \A m \in Models : model[m].group # g
  /\ group' = [group EXCEPT ![g] = "absent"]

RemoveGroup(g) == removeGroup(g) /\ UNCHANGED <<model, plan, sub, policy, syncing>>

(***************************************************************************)
(* The sync with the upstream's list.                                      *)
(***************************************************************************)
SyncBegins ==
  /\ ~syncing
  /\ syncing' = TRUE
  /\ UNCHANGED <<model, group, plan, sub, policy>>

\* mutant: what is imported can be used at once
ImportedEnabled == [exists |-> TRUE, enabled |-> TRUE, group |-> LegacyDefault]

\* The rows a sync may insert: unknown slugs, disabled, in 'legacy-default'.
\* Without that group every insert fails and is skipped.
Imported == [exists |-> TRUE, enabled |-> FALSE, group |-> LegacyDefault]

Importable(list) == {m \in list : Creatable(m, LegacyDefault)}
Removable(list)  == {m \in Models \ list : model[m].exists /\ ~Listed(m)}

\* Every row is a write of its own.  One that fails is skipped, and when the
\* process stops in between, those done stay.
SyncReconciles(list, reset) ==
  /\ syncing
  /\ syncing' = FALSE
  /\ \E added \in SUBSET Importable(list),
        removed \in SUBSET (IF reset THEN Removable(list) ELSE {}) :
       /\ model' = [m \in Models |-> IF m \in added THEN Imported
                                     ELSE IF m \in removed THEN NoModel ELSE model[m]]
       /\ policy' = WithoutPolicies(removed)
  /\ UNCHANGED <<group, plan, sub>>

(***************************************************************************)
(* Plans, subscriptions and policies.                                      *)
(***************************************************************************)
GroupMembers(g) == {m \in Models : model[m].exists /\ model[m].group = g}

\* An omitted group keeps the stored one.  models_json is derived from the
\* group as it is now; a plan that never had one keeps the list it is given.
upsertPlan(p, g, active) ==
  LET kept == IF g = NoGroup THEN plan[p].group ELSE g
  IN  /\ kept = NoGroup \/ HasGroup(kept)
      /\ \E listed \in IF kept = NoGroup THEN SUBSET Models ELSE {GroupMembers(kept)} :
           plan' = [plan EXCEPT ![p] = [exists |-> TRUE, active |-> active, group |-> kept,
                                        models |-> listed]]

\* POST plans, and plan:upsert of the operator.
UpsertPlan(p, g, active) ==
  UNCHANGED <<model, group, sub, policy, syncing>> /\ upsertPlan(p, g, active)

\* applyPlanLimits: every policy row of the tenant is turned into a denial,
\* then the models the plan lists are allowed.
applyPlanLimits(t, p) ==
  [policy EXCEPT ![t] = [m \in Models |->
     IF m \in plan[p].models THEN "allow" ELSE IF @[m] = "none" THEN "none" ELSE "deny"]]

\* A rolling plan replaces the rolling subscription, a legacy one all of them.
Replaces(p, i) ==
  \/ Method[p] = "legacy"
  \/ Method[p] = "rolling_time" /\ sub[i].rolling

Inserted(t, p, g, rolling, replaced) ==
  \E i \in Subs :
    /\ sub[i].status = "absent" /\ \A j \in Subs : j < i => sub[j].status # "absent"
    /\ sub' = [j \in Subs |->
                 IF j = i THEN [status |-> "live", tenant |-> t, plan |-> p, group |-> g,
                                rolling |-> rolling]
                 ELSE IF j \in replaced THEN [sub[j] EXCEPT !.status = "canceled"] ELSE sub[j]]

\* startSubscription: for a free plan, and the subscription's group stays NULL,
\* or to settle a payment with the group g the plan had at checkout, which may
\* have been another one than now; a plan never loses its group.
StartSubscription(t, p, g) ==
  /\ t \in Accounts /\ plan[p].exists /\ plan[p].active
  /\ g # NoGroup => Method[p] # "token_pack" /\ plan[p].group # NoGroup /\ HasGroup(g)
  /\ Inserted(t, p, g, Method[p] = "rolling_time", {i \in HeldSubs(t) : Replaces(p, i)})
  /\ policy' = applyPlanLimits(t, p)
  /\ UNCHANGED <<model, group, plan, syncing>>

\* A pack with hours, bought under a plan of any method: no group of its own,
\* and limits and policies stay.
StartDurationPack(t, p) ==
  /\ t \in Accounts /\ plan[p].exists
  /\ Inserted(t, p, NoGroup, FALSE, {})
  /\ UNCHANGED <<model, group, plan, policy, syncing>>

SubscriptionLapses(i) ==
  /\ sub[i].status = "live"
  /\ sub' = [sub EXCEPT ![i].status = "lapsed"]
  /\ UNCHANGED <<model, group, plan, policy, syncing>>

\* resetSubscription asks for a budget of resets and a subscription that is not
\* canceled, and starts its hours anew, were they over or not.  A legacy one has
\* no hours.
SubscriptionRevives(i) ==
  /\ sub[i].status = "lapsed" /\ Method[sub[i].plan] # "legacy"
  /\ sub' = [sub EXCEPT ![i].status = "live"]
  /\ UNCHANGED <<model, group, plan, policy, syncing>>

\* POST models/policy, model:enable and model:disable; the model is not looked up.
setModelPolicy(t, m, enabled) ==
  policy' = [policy EXCEPT ![t][m] = IF enabled THEN "allow" ELSE "deny"]

SetModelPolicy(t, m, enabled) ==
  /\ setModelPolicy(t, m, enabled)
  /\ UNCHANGED <<model, group, plan, sub, syncing>>

\* After the migrations: one group, with whatever models there were.
Init ==
  /\ \E legacy \in SUBSET Models :
       model = [m \in Models |-> IF m \in legacy
                                 THEN [exists |-> TRUE, enabled |-> TRUE, group |-> LegacyDefault]
                                 ELSE NoModel]
  /\ group = [g \in Groups |-> IF g = LegacyDefault THEN "enabled" ELSE "absent"]
  /\ plan = [p \in Plans |-> NoPlan]
  /\ sub = [i \in Subs |-> NoSub]
  /\ policy = [t \in Tenants |-> [m \in Models |-> "none"]]
  /\ syncing = FALSE

EditCatalogue ==
  \/ \E m \in Models, g \in Groups, enabled \in BOOLEAN : CreateModel(m, g, enabled)
  \* bound: the rows of one bulk update carry the same change
  \/ \E ms \in SUBSET Models \ {{}}, change \in Changes : UpdateModels([m \in ms |-> change])
  \/ \E m \in Models, change \in Changes : UpdateModel(m, change)
  \/ \E m \in Models : RemoveModel(m) \/ UnassignModel(m)
  \/ \E g \in Groups, enabled \in BOOLEAN : CreateGroup(g, enabled) \/ UpdateGroup(g, enabled)
  \/ \E g \in Groups, m \in Models : AssignModel(g, m)
  \/ \E g \in Groups : RemoveGroup(g)

EditPlan == \E p \in Plans, g \in Groups \cup {NoGroup}, active \in BOOLEAN : UpsertPlan(p, g, active)

Sync == \E list \in SUBSET Models, reset \in BOOLEAN : SyncReconciles(list, reset)

Purchase ==
  \E t \in Tenants, p \in Plans :
    \/ \E g \in Groups \cup {NoGroup} : StartSubscription(t, p, g)
    \/ StartDurationPack(t, p)

Next ==
  \/ EditCatalogue \/ EditPlan \/ Purchase
  \/ SyncBegins \/ Sync
  \/ \E i \in Subs : SubscriptionLapses(i) \/ SubscriptionRevives(i)
  \/ \E t \in Tenants, m \in Models, enabled \in BOOLEAN : SetModelPolicy(t, m, enabled)

Spec == Init /\ [][Next]_catalogueVars

-----------------------------------------------------------------------------
(***************************************************************************)
(* Properties.                                                             *)
(***************************************************************************)
Types ==
  /\ model \in [Models -> [exists : BOOLEAN, enabled : BOOLEAN, group : Groups \cup {NoGroup}]]
  /\ group \in [Groups -> {"absent", "enabled", "disabled"}]
  /\ plan \in [Plans -> [exists : BOOLEAN, active : BOOLEAN, group : Groups \cup {NoGroup},
                         models : SUBSET Models]]
  /\ sub \in [Subs -> [status : {"absent", "live", "lapsed", "canceled"}, tenant : Tenants \cup {NoGroup},
                       plan : Plans \cup {NoGroup}, group : Groups \cup {NoGroup},
                       rolling : BOOLEAN]]
  /\ policy \in [Tenants -> [Models -> {"none", "allow", "deny"}]]
  /\ syncing \in BOOLEAN

NamedGroupsExist ==
  /\ \A m \in Models : model[m].group # NoGroup => HasGroup(model[m].group)
  /\ \A p \in Plans : plan[p].group # NoGroup => HasGroup(plan[p].group)
  /\ \A i \in Subs : sub[i].group # NoGroup => HasGroup(sub[i].group)

SoldPlansExist ==
  \A i \in Subs : sub[i].status # "absent" => sub[i].plan \in Plans /\ plan[sub[i].plan].exists

\* Types, and what the foreign keys and the delete guards keep between them: a
\* model, a plan and a subscription, ended ones too, name groups that exist, and
\* a subscription a plan that exists.
CatalogueTypeOK == Types /\ NamedGroupsExist /\ SoldPlansExist

\* A sync can never silently widen an entitlement, and never takes a model an
\* active plan lists, wherever it stops and whatever changed while it waited.
SyncNeverWidens ==
  [][Sync => /\ \A t \in Tenants : Callable(t)' \subseteq Callable(t)
             /\ \A m \in Models : Listed(m) /\ model[m].exists => model'[m].exists
    ]_catalogueVars

\* Editing a plan changes nothing for those who paid for it with a group of
\* their own: what such a subscription lets a tenant call stays callable.
PlanEditKeepsPaid ==
  [][EditPlan =>
       \A t \in Tenants, m \in Models :
         Resolves(t, m) /\ (\E i \in LiveSubs(t) : sub[i].group = model[m].group) => Resolves(t, m)'
    ]_catalogueVars

\* A comment of the resolver: an account may carry a timer and stacked packs,
\* and either group may entitle the model.  So a purchase takes nothing away
\* that a subscription which stays live entitles to.
EitherGroupEntitles ==
  [][Purchase =>
       \A t \in Tenants, m \in Models :
         Resolves(t, m) /\ EntitledBy(t, m) \cap LiveSubs(t)' # {} => Resolves(t, m)'
    ]_catalogueVars
=============================================================================
