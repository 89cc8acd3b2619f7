-------------------------- MODULE Catalogue_proofs --------------------------
(***************************************************************************)
(* What the catalogue promises, for any number of models, groups, plans,   *)
(* subscriptions and tenants.                                              *)
(***************************************************************************)
EXTENDS Catalogue, TLAPS

(***************************************************************************)
(* CatalogueTypeOK is inductive: the guards of RemoveGroup and the foreign *)
(* keys keep each other.                                                   *)
(***************************************************************************)
\* The initial state is well typed and names only the group of the migrations.
LEMMA InitOK == Init => CatalogueTypeOK
<1> SUFFICES ASSUME Init PROVE CatalogueTypeOK
  OBVIOUS
<1> USE CatalogueAssumption DEF Init
<1>1. Types
  <2>1. model \in [Models -> [exists : BOOLEAN, enabled : BOOLEAN, group : Groups \cup {NoGroup}]]
    BY DEF NoModel
  <2>2. plan \in [Plans -> [exists : BOOLEAN, active : BOOLEAN, group : Groups \cup {NoGroup},
                           models : SUBSET Models]]
    BY DEF NoPlan
  <2>3. sub \in [Subs -> [status : {"absent", "live", "lapsed", "canceled"}, tenant : Tenants \cup {NoGroup},
                         plan : Plans \cup {NoGroup}, group : Groups \cup {NoGroup},
                         rolling : BOOLEAN]]
    BY DEF NoSub
  <2>4. /\ group \in [Groups -> {"absent", "enabled", "disabled"}]
        /\ policy \in [Tenants -> [Models -> {"none", "allow", "deny"}]]
        /\ syncing \in BOOLEAN
    OBVIOUS
  <2> QED
    BY <2>1, <2>2, <2>3, <2>4 DEF Types
<1>2. NamedGroupsExist
  BY DEF NamedGroupsExist, HasGroup, NoModel, NoPlan, NoSub
<1>3. SoldPlansExist
  BY DEF SoldPlansExist, NoSub
<1> QED
  BY <1>1, <1>2, <1>3 DEF CatalogueTypeOK

\* Whoever edits the models alone has only to give them groups that exist.
LEMMA ModelStep ==
  ASSUME CatalogueTypeOK,
         UNCHANGED <<group, plan, sub>>, syncing' \in BOOLEAN,
         policy' \in [Tenants -> [Models -> {"none", "allow", "deny"}]],
         model' \in [Models -> [exists : BOOLEAN, enabled : BOOLEAN, group : Groups \cup {NoGroup}]],
         \A m \in Models : model'[m].group # NoGroup => HasGroup(model'[m].group)
  PROVE  CatalogueTypeOK'
<1>1. Types'
  BY DEF CatalogueTypeOK, Types
<1>2. NamedGroupsExist'
  BY DEF CatalogueTypeOK, NamedGroupsExist, HasGroup
<1>3. SoldPlansExist'
  BY DEF CatalogueTypeOK, SoldPlansExist
<1> QED
  BY <1>1, <1>2, <1>3 DEF CatalogueTypeOK

\* The actions that edit the models, the sync's step among them, meet those
\* conditions.
LEMMA WithoutPoliciesType ==
  ASSUME Types, NEW ms
  PROVE  WithoutPolicies(ms) \in [Tenants -> [Models -> {"none", "allow", "deny"}]]
BY DEF Types, WithoutPolicies

LEMMA EditModelsOK ==
  ASSUME CatalogueTypeOK,
         NEW m \in Models, NEW g \in Groups, NEW enabled \in BOOLEAN,
         \/ CreateModel(m, g, enabled)
         \/ RemoveModel(m)
         \/ AssignModel(g, m)
         \/ UnassignModel(m)
  PROVE  CatalogueTypeOK'
<1> USE CatalogueAssumption DEF CatalogueTypeOK, Types, NamedGroupsExist
<1>1. CASE CreateModel(m, g, enabled)
  BY <1>1, ModelStep DEF CreateModel, Creatable
<1>2. CASE RemoveModel(m)
  BY <1>2, ModelStep, WithoutPoliciesType DEF RemoveModel, remove, NoModel
<1>3. CASE AssignModel(g, m)
  BY <1>3, ModelStep DEF AssignModel, assignModel
<1>4. CASE UnassignModel(m)
  BY <1>4, ModelStep DEF UnassignModel, unassignModel
<1> QED
  BY <1>1, <1>2, <1>3, <1>4

\* A row of an update is well typed and names a group that exists.
LEMMA updatedType ==
  ASSUME CatalogueTypeOK, NEW m \in Models, NEW change \in Changes,
         model[m].exists, Accepted(m, change)
  PROVE  /\ updated(m, change) \in [exists : BOOLEAN, enabled : BOOLEAN, group : Groups \cup {NoGroup}]
         /\ HasGroup(updated(m, change).group)
<1>1. HasGroup(updated(m, change).group)
  BY DEF Accepted
<1>2. (change.enabled = "on" \/ (change.enabled = "kept" /\ model[m].enabled)) \in BOOLEAN
  OBVIOUS
<1>3. change.group \in Groups \cup {NoGroup} /\ model[m].group \in Groups \cup {NoGroup}
  BY DEF Changes, CatalogueTypeOK, Types
<1> QED
  BY <1>1, <1>2, <1>3 DEF updated

LEMMA UpdateModelOK ==
  ASSUME CatalogueTypeOK, NEW m \in Models, NEW change \in Changes, UpdateModel(m, change)
  PROVE  CatalogueTypeOK'
<1>1. \A n \in Models : model'[n] = IF n = m THEN updated(m, change) ELSE model[n]
  BY DEF UpdateModel, CatalogueTypeOK, Types
<1>2. /\ updated(m, change) \in [exists : BOOLEAN, enabled : BOOLEAN, group : Groups \cup {NoGroup}]
      /\ HasGroup(updated(m, change).group)
  BY updatedType DEF UpdateModel
<1>3. model' \in [Models -> [exists : BOOLEAN, enabled : BOOLEAN, group : Groups \cup {NoGroup}]]
  BY <1>2 DEF UpdateModel, CatalogueTypeOK, Types
<1>4. \A n \in Models : model'[n].group # NoGroup => HasGroup(model'[n].group)
  BY <1>1, <1>2 DEF CatalogueTypeOK, NamedGroupsExist
<1> QED
  BY <1>3, <1>4, ModelStep DEF UpdateModel, CatalogueTypeOK, Types

LEMMA UpdateModelsOK ==
  ASSUME CatalogueTypeOK,
         NEW ms \in SUBSET Models, NEW change \in Changes,
         UpdateModels([m \in ms |-> change])
  PROVE  CatalogueTypeOK'
<1> DEFINE rows == [m \in ms |-> change]
<1>1. ASSUME NEW m \in Models, m \in DOMAIN rows, model[m].exists
      PROVE  /\ updated(m, rows[m]) \in [exists : BOOLEAN, enabled : BOOLEAN, group : Groups \cup {NoGroup}]
             /\ HasGroup(updated(m, rows[m]).group)
  BY <1>1, updatedType DEF UpdateModels
<1>2. \A m \in Models : model'[m] = IF m \in DOMAIN rows /\ model[m].exists
                                    THEN updated(m, rows[m]) ELSE model[m]
  BY DEF UpdateModels
<1>3. model' = [m \in Models |-> model'[m]]
  BY DEF UpdateModels
<1>4. \A m \in Models : model'[m] \in [exists : BOOLEAN, enabled : BOOLEAN, group : Groups \cup {NoGroup}]
  BY <1>1, <1>2 DEF CatalogueTypeOK, Types
<1>5. \A m \in Models : model'[m].group # NoGroup => HasGroup(model'[m].group)
  BY <1>1, <1>2 DEF CatalogueTypeOK, NamedGroupsExist
<1>6. UNCHANGED <<group, plan, sub, policy, syncing>>
  BY DEF UpdateModels
<1> QED
  BY <1>3, <1>4, <1>5, <1>6, ModelStep DEF CatalogueTypeOK, Types

LEMMA SyncOK ==
  ASSUME CatalogueTypeOK, SyncBegins \/ Sync
  PROVE  CatalogueTypeOK'
<1>1. CASE SyncBegins
  BY <1>1, ModelStep DEF SyncBegins, CatalogueTypeOK, Types, NamedGroupsExist
<1>2. CASE Sync
  <2>1. PICK list \in SUBSET Models, reset \in BOOLEAN : SyncReconciles(list, reset)
    BY <1>2 DEF Sync
  <2>2. PICK added \in SUBSET Importable(list), removed \in SUBSET Removable(list) :
          /\ syncing' = FALSE
          /\ model' = [m \in Models |-> IF m \in added THEN Imported
                                        ELSE IF m \in removed THEN NoModel ELSE model[m]]
          /\ policy' = WithoutPolicies(removed)
          /\ UNCHANGED <<group, plan, sub>>
    BY <2>1 DEF SyncReconciles
  <2>3. \A m \in added : HasGroup(LegacyDefault)
    BY DEF Importable, Creatable
  <2>4. model' \in [Models -> [exists : BOOLEAN, enabled : BOOLEAN, group : Groups \cup {NoGroup}]]
    BY <2>2, CatalogueAssumption DEF Imported, NoModel, CatalogueTypeOK, Types
  <2>5. \A m \in Models : model'[m].group # NoGroup => HasGroup(model'[m].group)
    BY <2>2, <2>3 DEF Imported, NoModel, CatalogueTypeOK, NamedGroupsExist
  <2> QED
    BY <2>2, <2>4, <2>5, ModelStep, WithoutPoliciesType DEF CatalogueTypeOK
<1> QED
  BY <1>1, <1>2

\* Groups: what is created or edited exists, and what is removed is not named.
LEMMA GroupsOK ==
  ASSUME CatalogueTypeOK, NEW g \in Groups, NEW enabled \in BOOLEAN,
         CreateGroup(g, enabled) \/ UpdateGroup(g, enabled) \/ RemoveGroup(g)
  PROVE  CatalogueTypeOK'
<1>1. UNCHANGED <<model, plan, sub, policy, syncing>>
  BY DEF CreateGroup, UpdateGroup, RemoveGroup,
        createGroup, updateGroup, removeGroup, Switch
<1>2. Types'
  <2>1. group' \in [Groups -> {"absent", "enabled", "disabled"}]
    BY DEF CatalogueTypeOK, Types, CreateGroup, UpdateGroup, RemoveGroup,
        createGroup, updateGroup, removeGroup, Switch
  <2> QED
    BY <1>1, <2>1 DEF CatalogueTypeOK, Types
<1>3. NamedGroupsExist'
  <2>1. ASSUME NEW h, h # NoGroup => HasGroup(h), RemoveGroup(g) => h # g
        PROVE  h # NoGroup => HasGroup(h)'
    BY <2>1 DEF HasGroup, CatalogueTypeOK, Types, CreateGroup, UpdateGroup, RemoveGroup,
        createGroup, updateGroup, removeGroup, Switch
  <2>2. RemoveGroup(g) => /\ \A p \in Plans : plan[p].group # g
                          /\ \A i \in Subs : sub[i].group # g
                          /\ \A m \in Models : model[m].group # g
    BY DEF RemoveGroup, removeGroup
  <2>3. ASSUME NEW m \in Models PROVE model[m].group # NoGroup => HasGroup(model[m].group)'
    BY <1>1, <2>1, <2>2 DEF CatalogueTypeOK, NamedGroupsExist
  <2>4. ASSUME NEW p \in Plans PROVE plan[p].group # NoGroup => HasGroup(plan[p].group)'
    BY <1>1, <2>1, <2>2 DEF CatalogueTypeOK, NamedGroupsExist
  <2>5. ASSUME NEW i \in Subs PROVE sub[i].group # NoGroup => HasGroup(sub[i].group)'
    BY <1>1, <2>1, <2>2 DEF CatalogueTypeOK, NamedGroupsExist
  <2> QED
    BY <1>1, <2>3, <2>4, <2>5 DEF NamedGroupsExist
<1>4. SoldPlansExist'
  BY <1>1 DEF CatalogueTypeOK, SoldPlansExist
<1> QED
  BY <1>2, <1>3, <1>4 DEF CatalogueTypeOK

\* A plan takes an existing group, and is never deleted.
LEMMA UpsertPlanOK ==
  ASSUME CatalogueTypeOK, NEW p \in Plans, NEW g \in Groups \cup {NoGroup}, NEW active \in BOOLEAN,
         UpsertPlan(p, g, active)
  PROVE  CatalogueTypeOK'
<1> DEFINE kept == IF g = NoGroup THEN plan[p].group ELSE g
<1>1. kept \in Groups \cup {NoGroup} /\ (kept # NoGroup => HasGroup(kept))
  BY DEF UpsertPlan, upsertPlan, CatalogueTypeOK, Types
<1>2. PICK listed \in SUBSET Models :
        plan' = [plan EXCEPT ![p] = [exists |-> TRUE, active |-> active, group |-> kept,
                                     models |-> listed]]
  BY DEF UpsertPlan, upsertPlan, GroupMembers
<1>3. UNCHANGED <<model, group, sub, policy, syncing>>
  BY DEF UpsertPlan, upsertPlan
<1> HIDE DEF kept
<1>4. Types'
  <2>1. plan' \in [Plans -> [exists : BOOLEAN, active : BOOLEAN, group : Groups \cup {NoGroup},
                            models : SUBSET Models]]
    BY <1>1, <1>2 DEF CatalogueTypeOK, Types
  <2> QED
    BY <1>3, <2>1 DEF CatalogueTypeOK, Types
<1>5. NamedGroupsExist'
  <2>1. \A q \in Plans : plan'[q].group = IF q = p THEN kept ELSE plan[q].group
    BY <1>2 DEF CatalogueTypeOK, Types
  <2> QED
    BY <1>1, <1>3, <2>1 DEF CatalogueTypeOK, NamedGroupsExist, HasGroup
<1>6. SoldPlansExist'
  <2>1. \A q \in Plans : plan[q].exists => plan'[q].exists
    BY <1>2 DEF CatalogueTypeOK, Types
  <2> QED
    BY <1>3, <2>1 DEF CatalogueTypeOK, SoldPlansExist
<1> QED
  BY <1>4, <1>5, <1>6 DEF CatalogueTypeOK

\* A new subscription is of a plan that exists, and names a group that exists;
\* the others keep theirs.
LEMMA InsertedOK ==
  ASSUME CatalogueTypeOK, NEW t \in Tenants, NEW p \in Plans, plan[p].exists,
         NEW g \in Groups \cup {NoGroup}, g # NoGroup => HasGroup(g),
         NEW rolling \in BOOLEAN, NEW replaced \in SUBSET HeldSubs(t),
         Inserted(t, p, g, rolling, replaced), UNCHANGED <<model, group, plan, syncing>>,
         policy' \in [Tenants -> [Models -> {"none", "allow", "deny"}]]
  PROVE  CatalogueTypeOK'
<1> DEFINE new == [status |-> "live", tenant |-> t, plan |-> p, group |-> g,
                   rolling |-> rolling]
           Sub == [status : {"absent", "live", "lapsed", "canceled"}, tenant : Tenants \cup {NoGroup},
                   plan : Plans \cup {NoGroup}, group : Groups \cup {NoGroup},
                   rolling : BOOLEAN]
           canceled(j) == [sub[j] EXCEPT !.status = "canceled"]
<1>1. PICK i \in Subs :
        /\ sub[i].status = "absent"
        /\ \A j \in Subs : j < i => sub[j].status # "absent"
        /\ sub' = [j \in Subs |-> IF j = i THEN new ELSE IF j \in replaced THEN canceled(j) ELSE sub[j]]
  BY DEF Inserted
<1>2. ASSUME NEW j \in Subs
      PROVE  /\ sub'[j] \in Sub
             /\ sub'[j].group \in {g, sub[j].group}
             /\ sub'[j].status # "absent" =>
                  sub'[j].plan = p \/ (sub[j].status # "absent" /\ sub'[j].plan = sub[j].plan)
  <2>1. sub[j] \in Sub /\ new \in Sub
    BY DEF CatalogueTypeOK, Types
  <2>2. canceled(j) \in Sub /\ canceled(j).group = sub[j].group /\ canceled(j).plan = sub[j].plan
    BY <2>1
  <2>3. sub'[j] = IF j = i THEN new ELSE IF j \in replaced THEN canceled(j) ELSE sub[j]
    BY <1>1
  <2>4. new.group = g /\ new.plan = p
    OBVIOUS
  <2>5. j \in replaced => sub[j].status # "absent"
    BY DEF HeldSubs
  <2> HIDE DEF new, canceled, Sub
  <2> QED
    BY <2>1, <2>2, <2>3, <2>4, <2>5
<1>3. sub' \in [Subs -> Sub]
  BY <1>1, <1>2
<1> HIDE DEF new, canceled
<1>4. Types'
  BY <1>3 DEF CatalogueTypeOK, Types
<1>5. NamedGroupsExist'
  BY <1>2 DEF CatalogueTypeOK, NamedGroupsExist, HasGroup
<1>6. SoldPlansExist'
  BY <1>2 DEF CatalogueTypeOK, SoldPlansExist
<1> QED
  BY <1>4, <1>5, <1>6 DEF CatalogueTypeOK

LEMMA applyPlanLimitsType ==
  ASSUME Types, NEW t \in Tenants, NEW p \in Plans
  PROVE  applyPlanLimits(t, p) \in [Tenants -> [Models -> {"none", "allow", "deny"}]]
<1>1. policy \in [Tenants -> [Models -> {"none", "allow", "deny"}]]
  BY DEF Types
<1>2. [m \in Models |-> IF m \in plan[p].models THEN "allow"
                        ELSE IF policy[t][m] = "none" THEN "none" ELSE "deny"]
        \in [Models -> {"none", "allow", "deny"}]
  OBVIOUS
<1> QED
  BY <1>1, <1>2 DEF applyPlanLimits

LEMMA PurchaseOK ==
  ASSUME CatalogueTypeOK, Purchase
  PROVE  CatalogueTypeOK'
<1>1. PICK t \in Tenants, p \in Plans :
        \/ \E g \in Groups \cup {NoGroup} : StartSubscription(t, p, g)
        \/ StartDurationPack(t, p)
  BY DEF Purchase
<1>2. CASE \E g \in Groups \cup {NoGroup} : StartSubscription(t, p, g)
  <2>1. PICK g \in Groups \cup {NoGroup} : StartSubscription(t, p, g)
    BY <1>2
  <2>2. policy' \in [Tenants -> [Models -> {"none", "allow", "deny"}]]
    BY <2>1, applyPlanLimitsType DEF StartSubscription, CatalogueTypeOK
  <2> DEFINE replaced == {i \in HeldSubs(t) : Replaces(p, i)}
  <2>3. /\ plan[p].exists /\ (g # NoGroup => HasGroup(g))
        /\ Inserted(t, p, g, Method[p] = "rolling_time", replaced)
        /\ UNCHANGED <<model, group, plan, syncing>>
    BY <2>1 DEF StartSubscription
  <2>4. replaced \in SUBSET HeldSubs(t)
    OBVIOUS
  <2> HIDE DEF replaced
  <2> QED
    BY <2>2, <2>3, <2>4, InsertedOK
<1>3. CASE StartDurationPack(t, p)
  <2>1. /\ plan[p].exists /\ UNCHANGED <<model, group, plan, syncing>>
        /\ Inserted(t, p, NoGroup, FALSE, {})
        /\ policy' \in [Tenants -> [Models -> {"none", "allow", "deny"}]]
    BY <1>3 DEF StartDurationPack, CatalogueTypeOK, Types
  <2>2. NoGroup \in Groups \cup {NoGroup} /\ FALSE \in BOOLEAN /\ {} \in SUBSET HeldSubs(t)
    OBVIOUS
  <2>3. NoGroup # NoGroup => HasGroup(NoGroup)
    OBVIOUS
  <2> QED
    BY <2>1, <2>2, <2>3, InsertedOK
<1> QED
  BY <1>1, <1>2, <1>3

LEMMA SubscriptionTimeOK ==
  ASSUME CatalogueTypeOK, NEW i \in Subs, SubscriptionLapses(i) \/ SubscriptionRevives(i)
  PROVE  CatalogueTypeOK'
<1>1. \A j \in Subs : /\ sub'[j].group = sub[j].group /\ sub'[j].plan = sub[j].plan
                      /\ sub'[j].status # "absent" => sub[j].status # "absent"
  BY DEF SubscriptionLapses, SubscriptionRevives, CatalogueTypeOK, Types
<1>2. UNCHANGED <<model, group, plan, policy, syncing>>
  BY DEF SubscriptionLapses, SubscriptionRevives
<1>3. Types'
  <2>1. sub' \in [Subs -> [status : {"absent", "live", "lapsed", "canceled"}, tenant : Tenants \cup {NoGroup},
                          plan : Plans \cup {NoGroup}, group : Groups \cup {NoGroup},
                          rolling : BOOLEAN]]
    <3>1. CASE SubscriptionLapses(i)
      BY <3>1 DEF SubscriptionLapses, CatalogueTypeOK, Types
    <3>2. CASE SubscriptionRevives(i)
      BY <3>2 DEF SubscriptionRevives, CatalogueTypeOK, Types
    <3> QED
      BY <3>1, <3>2
  <2> QED
    BY <1>2, <2>1 DEF CatalogueTypeOK, Types
<1>4. NamedGroupsExist'
  BY <1>1, <1>2 DEF CatalogueTypeOK, NamedGroupsExist, HasGroup
<1>5. SoldPlansExist'
  BY <1>1, <1>2 DEF CatalogueTypeOK, SoldPlansExist
<1> QED
  BY <1>3, <1>4, <1>5 DEF CatalogueTypeOK

LEMMA SetModelPolicyOK ==
  ASSUME CatalogueTypeOK, NEW t \in Tenants, NEW m \in Models, NEW enabled \in BOOLEAN,
         SetModelPolicy(t, m, enabled)
  PROVE  CatalogueTypeOK'
BY ModelStep DEF SetModelPolicy, setModelPolicy, CatalogueTypeOK, Types, NamedGroupsExist

\* In every reachable state of the catalogue the types hold, and models, plans
\* and subscriptions name groups and plans that exist, whatever was deleted.
THEOREM CatalogueTypeCorrect == Spec => []CatalogueTypeOK
<1>1. CatalogueTypeOK /\ [Next]_catalogueVars => CatalogueTypeOK'
  <2> SUFFICES ASSUME CatalogueTypeOK, [Next]_catalogueVars PROVE CatalogueTypeOK'
    OBVIOUS
  <2>1. CASE EditCatalogue
    <3>4. ASSUME NEW m \in Models, NEW change \in Changes, UpdateModel(m, change)
          PROVE  CatalogueTypeOK'
      BY <3>4, UpdateModelOK
    <3>1. ASSUME NEW m \in Models, RemoveModel(m) \/ UnassignModel(m) PROVE CatalogueTypeOK'
      BY <3>1, EditModelsOK, CatalogueAssumption
    <3>2. ASSUME NEW g \in Groups, RemoveGroup(g) PROVE CatalogueTypeOK'
      BY <3>2, GroupsOK
    <3>3. ASSUME NEW g \in Groups, NEW m \in Models, AssignModel(g, m) PROVE CatalogueTypeOK'
      BY <3>3, EditModelsOK
    <3> QED
      BY <2>1, <3>1, <3>2, <3>3, <3>4, EditModelsOK, UpdateModelsOK, GroupsOK DEF EditCatalogue
  <2>2. CASE EditPlan
    BY <2>2, UpsertPlanOK DEF EditPlan
  <2>3. CASE Purchase
    BY <2>3, PurchaseOK
  <2>4. CASE SyncBegins \/ Sync
    BY <2>4, SyncOK
  <2>5. CASE \E i \in Subs : SubscriptionLapses(i) \/ SubscriptionRevives(i)
    BY <2>5, SubscriptionTimeOK
  <2>6. CASE \E t \in Tenants, m \in Models, enabled \in BOOLEAN : SetModelPolicy(t, m, enabled)
    BY <2>6, SetModelPolicyOK
  <2>7. CASE UNCHANGED catalogueVars
    <3>1. Types' /\ SoldPlansExist'
      BY <2>7 DEF catalogueVars, CatalogueTypeOK, Types, SoldPlansExist
    <3>2. NamedGroupsExist'
      BY <2>7 DEF catalogueVars, CatalogueTypeOK, NamedGroupsExist, HasGroup
    <3> QED
      BY <3>1, <3>2 DEF CatalogueTypeOK
  <2> QED
    BY <2>1, <2>2, <2>3, <2>4, <2>5, <2>6, <2>7 DEF Next
<1> QED
  BY <1>1, InitOK, PTL DEF Spec

(***************************************************************************)
(* What a tenant may call.                                                 *)
(***************************************************************************)
\* Whatever stops a sync, and whatever was edited while it waited for the
\* upstream: what it leaves callable was callable before, and it takes no model
\* an active plan lists.
THEOREM SyncWidensNothing == Spec => SyncNeverWidens
<1>1. ASSUME Sync
      PROVE  /\ \A t \in Tenants : Callable(t)' \subseteq Callable(t)
             /\ \A m \in Models : Listed(m) /\ model[m].exists => model'[m].exists
  <2>1. PICK list \in SUBSET Models, reset \in BOOLEAN : SyncReconciles(list, reset)
    BY <1>1 DEF Sync
  <2>2. PICK added \in SUBSET Importable(list), removed \in SUBSET Removable(list) :
          /\ model' = [m \in Models |-> IF m \in added THEN Imported
                                        ELSE IF m \in removed THEN NoModel ELSE model[m]]
          /\ policy' = WithoutPolicies(removed)
          /\ UNCHANGED <<group, plan, sub>>
    BY <2>1 DEF SyncReconciles
  <2>3. ASSUME NEW t \in Tenants, NEW m \in Models, Resolves(t, m)'
        PROVE  model'[m] = model[m] /\ Resolves(t, m)
    <3>1. model'[m].exists /\ model'[m].enabled
      BY <2>3 DEF Resolves, resolveCatalogModel, Available
    <3>2. m \notin added /\ m \notin removed /\ model'[m] = model[m]
      BY <2>2, <3>1 DEF Imported, NoModel
    <3>3. policy'[t][m] = policy[t][m]
      BY <2>2, <3>2 DEF WithoutPolicies
    <3>4. Available(m)' <=> Available(m)
      BY <2>2, <3>2 DEF Available, HasGroup
    <3>5. EntitledBy(t, m)' = EntitledBy(t, m)
      BY <2>2, <3>2 DEF EntitledBy, LiveSubs, EntitledGroup
    <3> QED
      BY <2>3, <3>2, <3>3, <3>4, <3>5 DEF Resolves, resolveCatalogModel
  <2>4. ASSUME NEW m \in Models, Listed(m), model[m].exists
        PROVE  model'[m].exists
    BY <2>2, <2>4 DEF Removable, Importable, Creatable
  <2>5. \A t \in Tenants : Callable(t)' \subseteq Callable(t)
    BY <2>3 DEF Callable
  <2> QED
    BY <2>4, <2>5
<1> QED
  BY <1>1, PTL DEF SyncNeverWidens, Spec

\* Editing a plan, its group included, leaves callable what a subscription with
\* a group of its own entitles to.
THEOREM PlanEditsKeepPaid == Spec => PlanEditKeepsPaid
<1>1. ASSUME EditPlan, NEW t \in Tenants, NEW m \in Models, Resolves(t, m),
             NEW i \in LiveSubs(t), sub[i].group = model[m].group
      PROVE  Resolves(t, m)'
  <2>1. UNCHANGED <<model, group, sub, policy>>
    BY <1>1 DEF EditPlan, UpsertPlan, upsertPlan
  <2>2. Available(m)
    BY <1>1 DEF Resolves, resolveCatalogModel
  <2>3. Available(m)'
    BY <2>1, <2>2 DEF Available, HasGroup
  <2>4. sub[i].group # NoGroup
    BY <1>1, <2>2, CatalogueAssumption DEF Available, HasGroup
  <2>5. i \in EntitledBy(t, m)'
    BY <1>1, <2>1, <2>4 DEF EntitledBy, LiveSubs, EntitledGroup
  <2> QED
    BY <1>1, <2>1, <2>3, <2>5 DEF Resolves, resolveCatalogModel
<1>2. EditPlan =>
        \A t \in Tenants, m \in Models :
          Resolves(t, m) /\ (\E i \in LiveSubs(t) : sub[i].group = model[m].group) => Resolves(t, m)'
  BY <1>1
<1> QED
  BY <1>2, PTL DEF PlanEditKeepsPaid, Spec
=============================================================================
