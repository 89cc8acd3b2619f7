---------------------------- MODULE Host_proofs ----------------------------
(***************************************************************************)
(* What is current can start, a reported activation is so, and the last    *)
(* good archive stays: for any number of releases, any migrations and      *)
(* units they bring, and scripts that fail or die at any step, any number  *)
(* of times.                                                               *)
(***************************************************************************)
EXTENDS Host, SequenceTheorems, TLAPS

(***************************************************************************)
(* The inductive invariant.  A link that a script died beside may be       *)
(* swapped in by a later one, so every link but a deploy's candidate must  *)
(* name a release that can start, and none that a deploy may still remove. *)
(***************************************************************************)
Ready(r) == tree[r] = "installed" /\ Schema[r] <= schema

Lasting == Links \ ({"candidate"} \X Releases)

LinksReady == \A n \in Lasting : link[n] # NoRelease => Ready(link[n])

\* A link that carries a release's commit names that release.
OwnNames ==
  \A r \in Releases : /\ link[<<"candidate", r>>] \in {r, NoRelease}
                      /\ link[<<"target", r>>] \in {r, NoRelease}

Busy   == script.kind # "none"
Before == {"unpacking", "installing", "preflight"}

ScriptOK ==
  /\ IF Busy THEN script.target \in Releases /\ script.at # "idle" ELSE script = IdleScript
  /\ script.at \in Before \cup {"undeploying", "stopping", "recording"} => ~script.back
  /\ script.back => script.previous # NoRelease
  /\ script.at \in {"unpacking", "installing"} => script.kind = "deploy"

\* A release is activated once it is ready, and so is the one to go back to.
ActivatedReady ==
  /\ Busy /\ script.at \notin Before => Ready(script.target)
  /\ Busy /\ script.previous # NoRelease => Ready(script.previous)

\* What a deploy may remove is named by no link that it does not look at.
RemovableUnnamed ==
  script.kind = "deploy" =>
    /\ script.previous # script.target
    /\ \A n \in Lasting \ {Shared("current")} : link[n] # script.target
    /\ script.at \in Before => current # script.target

\* How far an activation has come.
Progress ==
  ~script.back =>
    /\ script.at = "swapping" => link[LinkName] = script.target
    /\ script.at \in {"syncing", "reloading", "restarting", "gating", "recording"}
         => current = script.target
    /\ script.at \in {"reloading", "restarting", "gating", "recording"}
         => unit = Unit[script.target]
    /\ script.at \in {"gating", "recording"} => running \in {script.target, NoRelease}

\* systemd has read the unit that is installed.
UnitIsRead == torn \/ loaded = unit \/ script.at = "reloading"

\* The service runs what is current or nothing, but between a swap and the restart.
NotStarted == {"syncing", "reloading", "restarting"}

RunsCurrent ==
  behind \/ script.at \in NotStarted \/ current = NoRelease \/ running \in {current, NoRelease}

ReportIsLast == report # NoReport => ~Busy

HostInv ==
  /\ HostTypes /\ LinksReady /\ OwnNames /\ ScriptOK /\ ActivatedReady
  /\ RemovableUnnamed /\ Progress /\ UnitIsRead /\ RunsCurrent /\ ReportIsLast
  /\ SuccessIsReal

ScriptRow == [kind : {"none", "deploy", "rollback"}, target : Named, previous : Named,
              at : Steps, back : BOOLEAN]

UnitTypes == {unit, loaded} \subseteq Units \cup {NoUnit} /\ {torn, behind} \subseteq BOOLEAN

(***************************************************************************)
(* Names of links.                                                         *)
(***************************************************************************)
\* Which names are which.
LEMMA LinkNames ==
  /\ {Shared("current"), Shared("rollback"), Shared("revert")} \subseteq Lasting
  /\ \A r \in Releases : <<"candidate", r>> \in Links /\ <<"target", r>> \in Lasting
  /\ \A r \in Releases, s \in {"current", "rollback", "revert"} :
       Shared(s) # <<"candidate", r>> /\ Shared(s) # <<"target", r>>
  /\ Shared("current") # Shared("rollback") /\ Shared("current") # Shared("revert")
  /\ \A r \in Releases, n \in Lasting : n # <<"candidate", r>>
  /\ \A n \in Links \ Lasting : \E r \in Releases : n = <<"candidate", r>>
  /\ Lasting \subseteq Links
BY HostAssumption DEF Links, Lasting, Shared

\* The name a script links under is never current; a candidate is linked by a
\* deploy on its way forward.
LEMMA LinkNameIs ==
  ASSUME HostTypes, ScriptOK, Busy
  PROVE  /\ LinkName \in Links /\ LinkName # Shared("current")
         /\ script.back => LinkName \in Lasting
         /\ ~script.back /\ script.kind = "deploy" => LinkName = <<"candidate", script.target>>
         /\ ~script.back /\ script.kind = "rollback"
              => LinkName = <<"target", script.target>> /\ LinkName \in Lasting
         /\ Goal \in Releases
<1>1. script.target \in Releases /\ script.kind \in {"deploy", "rollback"}
  BY DEF ScriptOK, HostTypes, Busy
<1>2. CASE script.back
  <2>1. LinkName \in {Shared("rollback"), Shared("revert")}
    BY <1>2 DEF LinkName
  <2>2. Goal = script.previous /\ script.previous \in Releases
    BY <1>2 DEF Goal, ScriptOK, HostTypes, Named
  <2> QED
    BY <1>2, <2>1, <2>2, LinkNames
<1>3. CASE ~script.back
  <2>1. LinkName = IF script.kind = "deploy" THEN <<"candidate", script.target>>
                   ELSE <<"target", script.target>>
    BY <1>3 DEF LinkName
  <2>2. Goal = script.target
    BY <1>3 DEF Goal
  <2> QED
    BY <1>1, <1>3, <2>1, <2>2, LinkNames
<1> QED
  BY <1>2, <1>3

(***************************************************************************)
(* Steps that leave the links alone.                                       *)
(***************************************************************************)
\* What is ready stays so while it is not removed.
LEMMA ReadyKept ==
  ASSUME HostTypes, NEW r \in Releases, Ready(r), tree'[r] = tree[r],
         schema' \in Nat, schema' >= schema
  PROVE  Ready(r)'
BY HostAssumption DEF Ready, HostTypes

\* Migrations are only added.
LEMMA MigratedIs ==
  ASSUME HostTypes, NEW r \in Releases
  PROVE  Migrated(r) \in Nat /\ Migrated(r) >= schema /\ Schema[r] <= Migrated(r)
BY HostAssumption DEF HostTypes, Migrated, Greater

\* While no release a lasting link names is touched, the links stay ready.
LEMMA LinksKept ==
  ASSUME HostInv, UNCHANGED link, schema' \in Nat, schema' >= schema,
         \A n \in Lasting : link[n] # NoRelease => tree'[link[n]] = tree[link[n]]
  PROVE  LinksReady' /\ OwnNames'
<1>1. ASSUME NEW n \in Lasting, link[n] # NoRelease PROVE Ready(link[n])'
  <2>1. link[n] \in Releases
    BY <1>1, LinkNames DEF HostInv, HostTypes, Named
  <2>2. Ready(link[n])
    BY <1>1 DEF HostInv, LinksReady
  <2>3. tree'[link[n]] = tree[link[n]]
    BY <1>1
  <2>4. \A r \in Releases : Ready(r) /\ tree'[r] = tree[r] => Ready(r)'
    BY ReadyKept DEF HostInv
  <2>5. tree'[link[n]] = "installed" /\ Schema[link[n]] <= schema'
    BY <2>1, <2>2, <2>3, <2>4 DEF Ready
  <2> QED
    BY <2>5 DEF Ready
<1>2. LinksReady'
  BY <1>1 DEF LinksReady, Ready
<1>3. OwnNames'
  BY DEF HostInv, OwnNames
<1> QED
  BY <1>2, <1>3

\* An idle script owes nothing.
LEMMA IdleOK ==
  ASSUME script' = IdleScript
  PROVE  /\ ScriptOK' /\ ActivatedReady' /\ RemovableUnnamed' /\ Progress' /\ ReportIsLast'
         /\ script' \in ScriptRow
BY DEF IdleScript, ScriptOK, ActivatedReady, RemovableUnnamed, Progress, ReportIsLast, Busy, Before,
       ScriptRow, Named, Steps

\* What starts and stops no service, and makes nothing current.
LEMMA RunningKept ==
  ASSUME HostInv, link'[Shared("current")] \in {link[Shared("current")], NoRelease},
         UNCHANGED <<running, unitVars>>,
         script.at \notin NotStarted \/ script'.at \in NotStarted
  PROVE  RunsCurrent'
BY DEF HostInv, RunsCurrent, current, unitVars

\* Removing what a failed deploy unpacked leaves every lasting link ready.
LEMMA CleanupKeeps ==
  ASSUME HostInv, Busy, cleanup_failed_release(script.target, tree), UNCHANGED link,
         schema' \in Nat, schema' >= schema
  PROVE  /\ LinksReady' /\ OwnNames'
         /\ tree' \in [Releases -> {"absent", "partial", "unpacked", "installed"}]
         /\ stray' \subseteq Releases \X Releases
<1>1. script.target \in Releases
  BY DEF HostInv, ScriptOK
<1>2. \/ tree' = tree
      \/ /\ tree' = [tree EXCEPT ![script.target] = "absent"]
         /\ script.kind = "deploy" /\ current # script.target
  BY DEF cleanup_failed_release
<1>3. tree' \in [Releases -> {"absent", "partial", "unpacked", "installed"}]
  BY <1>1, <1>2 DEF HostInv, HostTypes
<1>4. stray' \subseteq stray /\ stray' \subseteq Releases \X Releases
  BY DEF cleanup_failed_release, HostInv, HostTypes
<1>5. ASSUME NEW n \in Lasting, link[n] # NoRelease PROVE tree'[link[n]] = tree[link[n]]
  <2>1. link[n] \in Releases
    BY <1>5, LinkNames DEF HostInv, HostTypes, Named
  <2>2. script.kind = "deploy" /\ current # script.target => link[n] # script.target
    BY DEF HostInv, RemovableUnnamed, current
  <2> QED
    BY <1>2, <2>1, <2>2 DEF HostInv, HostTypes
<1>6. LinksReady' /\ OwnNames'
  BY <1>5, LinksKept
<1> QED
  BY <1>3, <1>4, <1>6

\* A script that ends, whatever it cleans up.
LEMMA ScriptEnds ==
  ASSUME HostInv, Busy, script' = IdleScript, UNCHANGED <<link, report, backupVars>>,
         \/ UnitIsLeft /\ running' = running
         \/ /\ UNCHANGED unitVars /\ script.at \notin NotStarted
            /\ running' \in {running, NoRelease},
         running' \in Named, schema' \in Nat, schema' >= schema,
         cleanup_failed_release(script.target, tree) \/ UNCHANGED <<tree, stray>>
  PROVE  HostInv'
<1>1. LinksReady' /\ OwnNames' /\ stray' \subseteq Releases \X Releases
        /\ tree' \in [Releases -> {"absent", "partial", "unpacked", "installed"}]
  BY CleanupKeeps, LinksKept DEF HostInv, HostTypes
<1>2. UnitTypes' /\ UnitIsRead'
  BY DEF UnitIsLeft, unitVars, UnitTypes, UnitIsRead, HostInv, HostTypes, NotStarted
<1>5. RunsCurrent'
  BY DEF UnitIsLeft, unitVars, RunsCurrent, HostInv, HostTypes, NotStarted, current
<1>3. HostTypes'
  BY <1>1, <1>2, IdleOK DEF HostInv, HostTypes, UnitTypes, ScriptRow, backupVars, unitVars
<1>4. SuccessIsReal'
  BY DEF HostInv, ReportIsLast, SuccessIsReal, NoReport, Report
<1> QED
  BY <1>1, <1>2, <1>3, <1>4, <1>5, IdleOK DEF HostInv

\* A script that goes on, without touching files.
LEMMA ScriptGoesOn ==
  ASSUME HostInv, Busy, UNCHANGED <<fileVars, report, backupVars>>,
         UnitTypes', running' \in Named, schema' \in Nat, schema' >= schema,
         script' \in ScriptRow, script'.kind = script.kind, script'.target = script.target,
         script'.previous = script.previous, ScriptOK',
         script.at \notin Before, script'.at \notin Before
  PROVE  /\ HostTypes' /\ LinksReady' /\ OwnNames' /\ ActivatedReady' /\ RemovableUnnamed'
         /\ ReportIsLast' /\ SuccessIsReal'
<1>1. tree' = tree /\ stray' = stray /\ link' = link
  BY DEF fileVars
<1>2. HostTypes'
  BY <1>1 DEF HostInv, HostTypes, UnitTypes, ScriptRow, backupVars, unitVars
<1>3. LinksReady' /\ OwnNames'
  BY <1>1, LinksKept
<1>4. \A r \in Releases : Ready(r) => tree'[r] = "installed" /\ Schema[r] <= schema'
  BY <1>1, ReadyKept DEF HostInv, Ready
<1>5. script.target \in Releases /\ script.previous \in Named
  BY DEF HostInv, ScriptOK, HostTypes
<1>6. ActivatedReady'
  BY <1>4, <1>5 DEF HostInv, ActivatedReady, Busy, Ready, Named
<1>7. RemovableUnnamed'
  BY <1>1 DEF HostInv, RemovableUnnamed
<1>8. ReportIsLast' /\ SuccessIsReal'
  BY DEF HostInv, ReportIsLast, SuccessIsReal, NoReport, Report, Busy
<1> QED
  BY <1>2, <1>3, <1>6, <1>7, <1>8
(***************************************************************************)
(* Every step keeps the invariant.                                         *)
(***************************************************************************)
\* Before the first deploy there is nothing but the unit bootstrap may have left.
LEMMA InitOK == Init => HostInv
<1> SUFFICES ASSUME Init PROVE HostInv
  OBVIOUS
<1>1. HostTypes
  <2>1. UnitTypes
    BY DEF Init, UnitTypes
  <2>2. script \in ScriptRow
    BY DEF Init, IdleScript, ScriptRow, Named, Steps
  <2> QED
    BY <2>1, <2>2 DEF Init, HostTypes, UnitTypes, ScriptRow, NoReport, Report, Named
<1>2. \A n \in Links : link[n] = NoRelease
  BY DEF Init
<1>3. LinksReady /\ OwnNames
  BY <1>2, LinkNames DEF LinksReady, OwnNames
<1>4. /\ ScriptOK /\ ActivatedReady /\ RemovableUnnamed /\ Progress /\ UnitIsRead /\ RunsCurrent
      /\ ReportIsLast /\ SuccessIsReal
  BY DEF Init, IdleScript, ScriptOK, ActivatedReady, RemovableUnnamed, Progress, UnitIsRead, RunsCurrent,
         current, ReportIsLast, SuccessIsReal, NoReport, Report, Busy, Before
<1> QED
  BY <1>1, <1>3, <1>4 DEF HostInv

\* A deploy begins with a release that is not there, so no lasting link names
\* it.
LEMMA DeployBeginsOK ==
  ASSUME HostInv, NEW r \in Releases, DeployBegins(r)
  PROVE  HostInv'
<1>1. /\ script = IdleScript /\ tree[r] = "absent" /\ tree' = [tree EXCEPT ![r] = "partial"]
      /\ script' = [kind |-> "deploy", target |-> r, previous |-> NoRelease, at |-> "unpacking",
                    back |-> FALSE]
      /\ report' = NoReport /\ UNCHANGED <<stray, link, schema, unitVars, running, backupVars>>
  BY DEF DeployBegins, IdleScript
<1>2. \A n \in Lasting : link[n] # r
  BY <1>1, HostAssumption DEF HostInv, LinksReady, Ready
<1>3. \A n \in Lasting : link[n] # NoRelease => tree'[link[n]] = tree[link[n]]
  BY <1>1, <1>2, LinkNames DEF HostInv, HostTypes, Named
<1>4. LinksReady' /\ OwnNames'
  BY <1>1, <1>3, LinksKept DEF HostInv, HostTypes
<1>5. HostTypes'
  <2>1. script' \in ScriptRow
    BY <1>1 DEF ScriptRow, Named, Steps
  <2>2. tree' \in [Releases -> {"absent", "partial", "unpacked", "installed"}]
    BY <1>1 DEF HostInv, HostTypes
  <2> QED
    BY <1>1, <2>1, <2>2 DEF HostInv, HostTypes, ScriptRow, backupVars, unitVars, Named, NoReport,
       Report
<1>6. RemovableUnnamed'
  BY <1>1, <1>2, LinkNames, HostAssumption DEF RemovableUnnamed, current
<1>7. ScriptOK' /\ ActivatedReady' /\ Progress' /\ UnitIsRead' /\ ReportIsLast'
        /\ SuccessIsReal'
  BY <1>1 DEF HostInv, IdleScript, ScriptOK, ActivatedReady, Progress, UnitIsRead, ReportIsLast,
         SuccessIsReal, NoReport, Report, unitVars, Busy, Before
<1>8. RunsCurrent'
  BY <1>1, RunningKept DEF IdleScript, NotStarted
<1> QED
  BY <1>4, <1>5, <1>6, <1>7, <1>8 DEF HostInv

\* A rollback may go back to what is current when it begins.
LEMMA RollbackBeginsOK ==
  ASSUME HostInv, NEW r \in Releases, RollbackBegins(r)
  PROVE  HostInv'
<1>1. /\ current # NoRelease /\ script = IdleScript
      /\ script' = [kind |-> "rollback", target |-> r, previous |-> current, at |-> "preflight",
                    back |-> FALSE]
      /\ report' = NoReport /\ UNCHANGED <<fileVars, schema, unitVars, running, backupVars>>
  BY DEF RollbackBegins, IdleScript
<1>2. tree' = tree /\ link' = link /\ stray' = stray
  BY <1>1 DEF fileVars
<1>3. current \in Releases /\ Ready(current)
  BY <1>1, LinkNames DEF HostInv, LinksReady, HostTypes, Named, current
<1>4. LinksReady' /\ OwnNames'
  BY <1>1, <1>2, LinksKept DEF HostInv, HostTypes
<1>5. HostTypes'
  <2>1. script' \in ScriptRow
    BY <1>1, <1>3 DEF ScriptRow, Named, Steps
  <2> QED
    BY <1>1, <1>2, <2>1 DEF HostInv, HostTypes, ScriptRow, backupVars, unitVars, Named, NoReport,
       Report
<1>6. ActivatedReady'
  BY <1>1, <1>2, <1>3 DEF ActivatedReady, Ready, Before
<1>7. ScriptOK' /\ RemovableUnnamed' /\ Progress' /\ UnitIsRead' /\ ReportIsLast'
        /\ SuccessIsReal'
  BY <1>1 DEF HostInv, IdleScript, ScriptOK, RemovableUnnamed, Progress, UnitIsRead, ReportIsLast,
         SuccessIsReal, NoReport, Report, unitVars, Busy, Before
<1>8. RunsCurrent'
  BY <1>1, <1>2, RunningKept DEF IdleScript, NotStarted
<1> QED
  BY <1>4, <1>5, <1>6, <1>7, <1>8 DEF HostInv

\* The steps that fill the directory of a deploy's release, which no lasting
\* link names yet.
LEMMA FillsOK ==
  ASSUME HostInv, NEW state \in {"unpacked", "installed"}, NEW step \in {"installing", "preflight"},
         script.at \in {"unpacking", "installing"}, script.kind = "deploy",
         tree' = [tree EXCEPT ![script.target] = state], GoTo(step),
         UNCHANGED <<stray, link, schema, unitVars, running, report, backupVars>>
  PROVE  HostInv'
<1>1. script' = [script EXCEPT !.at = step] /\ script \in ScriptRow /\ step \in Steps
  BY DEF GoTo, HostInv, HostTypes, ScriptRow, Steps
<1>2. /\ script' \in ScriptRow /\ script'.at = step /\ script'.kind = "deploy"
      /\ script'.target = script.target /\ script'.previous = script.previous
      /\ script'.back = script.back
  BY <1>1 DEF ScriptRow
<1>3. script.target \in Releases /\ ~script.back
  BY DEF HostInv, ScriptOK, Busy, Before
<1>4. \A n \in Lasting : link[n] # script.target
  BY DEF HostInv, RemovableUnnamed, Before, current
<1>5. \A n \in Lasting : link[n] # NoRelease => tree'[link[n]] = tree[link[n]]
  BY <1>3, <1>4, LinkNames DEF HostInv, HostTypes, Named
<1>6. LinksReady' /\ OwnNames'
  BY <1>5, LinksKept DEF HostInv, HostTypes
<1>7. HostTypes'
  <2>1. tree' \in [Releases -> {"absent", "partial", "unpacked", "installed"}]
    BY <1>3 DEF HostInv, HostTypes
  <2> QED
    BY <1>2, <2>1 DEF HostInv, HostTypes, ScriptRow, backupVars, unitVars
<1>8. ActivatedReady'
  <2>1. script'.at \in Before
    BY <1>2 DEF Before
  <2>2. script.previous # NoRelease => Ready(script.previous) /\ script.previous \in Releases
                                         /\ script.previous # script.target
    BY <1>2 DEF HostInv, ActivatedReady, RemovableUnnamed, HostTypes, Named, Busy
  <2>3. script.previous # NoRelease => Ready(script.previous)'
    BY <1>2, <1>3, <2>2 DEF Ready, HostInv, HostTypes
  <2> QED
    BY <1>2, <2>1, <2>3 DEF ActivatedReady, Busy, Ready
<1>9. RemovableUnnamed'
  BY <1>2, <1>4, LinkNames DEF HostInv, RemovableUnnamed, current
<1>10. ScriptOK' /\ Progress' /\ UnitIsRead' /\ ReportIsLast'
        /\ SuccessIsReal'
  BY <1>2, <1>3 DEF HostInv, ScriptOK, Progress, UnitIsRead, ReportIsLast, SuccessIsReal, NoReport,
         Report, unitVars, Busy, Before
<1>11. RunsCurrent'
  BY <1>2, RunningKept DEF NotStarted
<1> QED
  BY <1>6, <1>7, <1>8, <1>9, <1>10, <1>11 DEF HostInv

\* What passed the preflight can start, whatever its migrations are.
LEMMA PreflightOK ==
  ASSUME HostInv, run_preflight
  PROVE  HostInv'
<1> DEFINE previous == IF script.kind = "deploy" THEN current ELSE script.previous
<1>1. /\ script.at = "preflight" /\ tree[script.target] = "installed"
      /\ script' = [script EXCEPT !.at = "linking", !.previous = previous]
      /\ schema' = Migrated(script.target)
      /\ UNCHANGED <<fileVars, unitVars, running, report, backupVars>>
  BY DEF run_preflight
<1>2. script.target \in Releases /\ ~script.back /\ Busy
  BY <1>1 DEF HostInv, ScriptOK, Before, IdleScript
<1>3. tree' = tree /\ link' = link /\ stray' = stray
  BY <1>1 DEF fileVars
<1>4. current \in Named /\ (current # NoRelease => Ready(current))
  BY LinkNames DEF HostInv, HostTypes, LinksReady, current
<1>5. /\ previous \in Named
      /\ previous # NoRelease => Ready(previous)
      /\ script.kind = "deploy" => previous # script.target
  BY <1>1, <1>2, <1>4 DEF HostInv, HostTypes, ActivatedReady, RemovableUnnamed, Before
<1> HIDE DEF previous
<1>6. /\ script' \in ScriptRow /\ script'.at = "linking" /\ script'.previous = previous
      /\ script'.kind = script.kind /\ script'.target = script.target /\ ~script'.back
  BY <1>1, <1>2, <1>5 DEF HostInv, HostTypes, ScriptRow, Steps
<1>7. schema' \in Nat /\ schema' >= schema /\ Schema[script.target] <= schema'
  BY <1>1, <1>2, MigratedIs DEF HostInv
<1>8. LinksReady' /\ OwnNames'
  BY <1>3, <1>7, LinksKept
<1>9. HostTypes'
  BY <1>1, <1>3, <1>6, <1>7 DEF HostInv, HostTypes, ScriptRow, backupVars, unitVars
<1>10. ActivatedReady'
  <2>1. Ready(script.target)'
    BY <1>1, <1>3, <1>6, <1>7 DEF Ready
  <2>2. previous # NoRelease => tree'[previous] = "installed" /\ Schema[previous] <= schema'
    BY <1>3, <1>5, <1>7, ReadyKept DEF HostInv, Ready, Named
  <2> QED
    BY <1>6, <2>1, <2>2 DEF ActivatedReady, Ready
<1>11. RemovableUnnamed'
  BY <1>3, <1>5, <1>6 DEF HostInv, RemovableUnnamed, Before
<1>12. ScriptOK' /\ Progress' /\ UnitIsRead' /\ ReportIsLast'
        /\ SuccessIsReal'
  BY <1>1, <1>2, <1>6 DEF HostInv, ScriptOK, Progress, UnitIsRead, ReportIsLast, SuccessIsReal, NoReport,
         Report, unitVars, Busy, Before
<1>13. RunsCurrent'
  BY <1>1, <1>3, RunningKept DEF NotStarted
<1> QED
  BY <1>8, <1>9, <1>10, <1>11, <1>12, <1>13 DEF HostInv

\* What GoTo leaves of a script that is under way.
LEMMA GoToOK ==
  ASSUME HostInv, Busy, NEW step \in Steps \ ({"idle"} \cup Before), GoTo(step),
         step \in {"undeploying", "stopping", "recording"} => ~script.back
  PROVE  /\ script' \in ScriptRow /\ script'.at = step /\ script'.kind = script.kind
         /\ script'.target = script.target /\ script'.previous = script.previous
         /\ script'.back = script.back /\ ScriptOK' /\ script'.at \notin Before
         /\ LinkName' = LinkName /\ Goal' = Goal
<1>1. script' = [script EXCEPT !.at = step] /\ script \in ScriptRow /\ step \in Steps
  BY DEF GoTo, HostInv, HostTypes, ScriptRow
<1>2. /\ script' \in ScriptRow /\ script'.at = step /\ script'.kind = script.kind
      /\ script'.target = script.target /\ script'.previous = script.previous
      /\ script'.back = script.back
  BY <1>1 DEF ScriptRow
<1>3. ScriptOK'
  BY <1>2 DEF HostInv, ScriptOK, Busy, Before
<1> QED
  BY <1>2, <1>3 DEF LinkName, Goal

\* Either the name is free and names the goal, or it is a link that was left
\* over; a candidate that was left over names the goal, too.
LEMMA LinksGoalOK ==
  ASSUME HostInv, LinksGoal
  PROVE  HostInv'
<1>1. script.at = "linking" /\ Busy /\ GoTo("swapping")
        /\ UNCHANGED <<tree, schema, unitVars, running, report, backupVars>>
  BY DEF LinksGoal, HostInv, ScriptOK, IdleScript
<1>2. /\ script' \in ScriptRow /\ script'.at = "swapping" /\ script'.kind = script.kind
      /\ script'.target = script.target /\ script'.previous = script.previous
      /\ script'.back = script.back /\ ScriptOK' /\ LinkName' = LinkName
  BY <1>1, GoToOK DEF Steps, Before
<1>3. /\ LinkName \in Links /\ LinkName # Shared("current") /\ Goal \in Releases
      /\ ~script.back /\ script.kind = "deploy" => LinkName = <<"candidate", script.target>>
      /\ ~script.back /\ script.kind # "deploy" => LinkName = <<"target", script.target>>
  BY <1>1, LinkNameIs DEF HostInv, HostTypes, Busy
<1>4. Ready(Goal) /\ (script.kind = "deploy" /\ script.back => Goal # script.target)
        /\ (~script.back => Goal = script.target) /\ script.target \in Releases
  BY <1>1 DEF HostInv, ScriptOK, ActivatedReady, RemovableUnnamed, Goal, Before
<1>5. \/ link' = [link EXCEPT ![LinkName] = Goal] /\ stray' = stray
      \/ link' = link /\ link[LinkName] # NoRelease /\ link[LinkName] \in Releases
         /\ stray' = stray \cup {<<link[LinkName], Goal>>}
  BY <1>3 DEF LinksGoal, HostInv, HostTypes, Named
<1>6. /\ link' \in [Links -> Named] /\ link'[Shared("current")] = link[Shared("current")]
      /\ \A n \in Links : link'[n] = link[n] \/ (n = LinkName /\ link'[n] = Goal)
  BY <1>3, <1>5, LinkNames DEF HostInv, HostTypes, Named
<1>7. HostTypes'
  BY <1>1, <1>2, <1>3, <1>5, <1>6 DEF HostInv, HostTypes, ScriptRow, backupVars, unitVars
<1>8. \A r : Ready(r) => Ready(r)'
  BY <1>1 DEF Ready
<1>9. LinksReady'
  BY <1>1, <1>4, <1>6, LinkNames DEF HostInv, LinksReady, Ready
<1>10. OwnNames'
  <2>1. ASSUME NEW r \in Releases, script.back
        PROVE  LinkName # <<"candidate", r>> /\ LinkName # <<"target", r>>
    BY <2>1, LinkNames DEF LinkName
  <2>2. ASSUME NEW r \in Releases, ~script.back, LinkName = <<"candidate", r>> \/ LinkName = <<"target", r>>
        PROVE  Goal = r
    BY <1>3, <1>4, <2>2
  <2> QED
    BY <1>6, <2>1, <2>2, LinkNames DEF HostInv, OwnNames
<1>11. ActivatedReady'
  BY <1>1, <1>2 DEF HostInv, ActivatedReady, Busy, Ready, Before
<1>12. RemovableUnnamed'
  <2>1. ASSUME script.kind = "deploy", NEW n \in Lasting \ {Shared("current")}
        PROVE  link'[n] # script.target
    BY <1>3, <1>4, <1>6, <2>1, LinkNames DEF HostInv, RemovableUnnamed
  <2> QED
    BY <1>2, <2>1 DEF HostInv, RemovableUnnamed, Before
<1>13. ~script.back => link'[LinkName] = script.target
  <2>1. ~script.back => link[LinkName] \in {script.target, NoRelease}
    BY <1>3, <1>4 DEF HostInv, OwnNames
  <2> QED
    BY <1>3, <1>4, <1>5, <2>1 DEF HostInv, HostTypes
<1>14. Progress'
  BY <1>2, <1>13 DEF Progress
<1>15. UnitIsRead' /\ ReportIsLast' /\ SuccessIsReal'
  BY <1>1, <1>2 DEF HostInv, UnitIsRead, ReportIsLast, SuccessIsReal, NoReport,
         Report, unitVars, Busy
<1>16. RunsCurrent'
  BY <1>1, <1>6, RunningKept DEF NotStarted
<1> QED
  BY <1>2, <1>7, <1>9, <1>10, <1>11, <1>12, <1>14, <1>15, <1>16 DEF HostInv

\* What is swapped in is the target, or what a lasting link names.
LEMMA SwapsCurrentOK ==
  ASSUME HostInv, SwapsCurrent
  PROVE  HostInv'
<1>1. script.at = "swapping" /\ Busy /\ GoTo("syncing")
        /\ link' = [link EXCEPT ![Shared("current")] = link[LinkName], ![LinkName] = NoRelease]
        /\ UNCHANGED <<tree, stray, schema, unitVars, running, report, backupVars>>
  BY DEF SwapsCurrent, HostInv, ScriptOK, IdleScript
<1>2. /\ script' \in ScriptRow /\ script'.at = "syncing" /\ script'.kind = script.kind
      /\ script'.target = script.target /\ script'.previous = script.previous
      /\ script'.back = script.back /\ ScriptOK'
  BY <1>1, GoToOK DEF Steps, Before
<1>3. /\ LinkName \in Links /\ LinkName # Shared("current")
      /\ script.back => LinkName \in Lasting
  BY <1>1, LinkNameIs DEF HostInv
<1>4. script.target \in Releases /\ Ready(script.target)
        /\ (~script.back => link[LinkName] = script.target)
  BY <1>1 DEF HostInv, ScriptOK, ActivatedReady, Progress, Before
<1>5. link[LinkName] # NoRelease => Ready(link[LinkName])
  BY <1>3, <1>4 DEF HostInv, LinksReady
<1>6. /\ link' \in [Links -> Named] /\ link'[Shared("current")] = link[LinkName]
      /\ \A n \in Links \ {Shared("current")} : link'[n] = link[n] \/ link'[n] = NoRelease
  BY <1>1, <1>3, LinkNames DEF HostInv, HostTypes, Named
<1>7. HostTypes'
  BY <1>1, <1>2, <1>6 DEF HostInv, HostTypes, ScriptRow, backupVars, unitVars
<1>8. LinksReady'
  BY <1>1, <1>5, <1>6, LinkNames DEF HostInv, LinksReady, Ready
<1>9. OwnNames'
  BY <1>6, LinkNames DEF HostInv, OwnNames
<1>10. ActivatedReady'
  BY <1>1, <1>2 DEF HostInv, ActivatedReady, Busy, Ready, Before
<1>11. RemovableUnnamed'
  <2>1. ASSUME script.kind = "deploy", NEW n \in Lasting \ {Shared("current")}
        PROVE  link'[n] # script.target
    BY <1>4, <1>6, <2>1, LinkNames, HostAssumption DEF HostInv, RemovableUnnamed
  <2> QED
    BY <1>2, <2>1 DEF HostInv, RemovableUnnamed, Before
<1>12. Progress' /\ UnitIsRead' /\ ReportIsLast'
        /\ SuccessIsReal'
  BY <1>1, <1>2, <1>4, <1>6 DEF HostInv, Progress, UnitIsRead, ReportIsLast, SuccessIsReal, NoReport,
         Report, unitVars, Busy, current
<1>13. RunsCurrent'
  BY <1>2 DEF RunsCurrent, NotStarted
<1> QED
  BY <1>2, <1>7, <1>8, <1>9, <1>10, <1>11, <1>12, <1>13 DEF HostInv

\* The steps from the swap to the report, which touch no release and no link.
LEMMA OnwardOK ==
  ASSUME HostInv, sync_unit \/ ReloadsUnits \/ RestartsService \/ HealthGatePasses
  PROVE  HostInv'
<1>1. script.at \in {"syncing", "reloading", "restarting", "gating"} /\ script.at \notin Before /\ Busy
  BY DEF sync_unit, ReloadsUnits, RestartsService, HealthGatePasses, Before, HostInv, ScriptOK,
         IdleScript
<1>2. PICK step \in {"reloading", "restarting", "gating", "recording"} :
        GoTo(step) /\ (step = "recording" => ~script.back)
  BY DEF sync_unit, ReloadsUnits, RestartsService, HealthGatePasses
<1>3. /\ script' \in ScriptRow /\ script'.at = step /\ script'.kind = script.kind
      /\ script'.target = script.target /\ script'.previous = script.previous
      /\ script'.back = script.back /\ ScriptOK' /\ script'.at \notin Before
  BY <1>1, <1>2, GoToOK DEF Steps, Before
<1>4. current \in Named /\ Goal \in Releases /\ running \in Named /\ UnitTypes /\ schema \in Nat
  BY <1>1, LinkNames, LinkNameIs DEF HostInv, HostTypes, UnitTypes, current
<1>5. /\ UNCHANGED <<fileVars, report, backupVars>>
      /\ UnitTypes' /\ running' \in Named /\ schema' \in Nat /\ schema' >= schema
  <2>1. CASE sync_unit
    BY <1>4, <2>1 DEF sync_unit, UnitTypes, Units
  <2>2. CASE ReloadsUnits
    <3>1. /\ UNCHANGED <<fileVars, schema, unit, running, report, backupVars>>
          /\ loaded' = unit /\ torn' = FALSE /\ behind' = behind
      BY <2>2 DEF ReloadsUnits, ReadsUnits
    <3>2. UnitTypes'
      BY <1>4, <3>1 DEF UnitTypes
    <3> QED
      BY <1>4, <3>1, <3>2
  <2>3. CASE RestartsService
    <3>1. running' \in Named /\ schema' = IF running' = NoRelease THEN schema ELSE Migrated(running')
      BY <1>4, <2>3 DEF RestartsService, Named
    <3>2. running' # NoRelease => Migrated(running') \in Nat /\ Migrated(running') >= schema
      BY <3>1, MigratedIs DEF HostInv, Named
    <3>3. UnitTypes'
      BY <1>4, <2>3 DEF RestartsService, UnitTypes
    <3> QED
      BY <1>4, <2>3, <3>1, <3>2, <3>3 DEF RestartsService
  <2>4. CASE HealthGatePasses
    BY <1>4, <2>4 DEF HealthGatePasses, UnitTypes, unitVars
  <2> QED
    BY <2>1, <2>2, <2>3, <2>4
<1>6. Progress' /\ UnitIsRead' /\ RunsCurrent'
  <2>1. link' = link /\ current' = current
    BY <1>5 DEF fileVars, current
  <2>2. CASE sync_unit
    <3>1. script.at = "syncing" /\ unit' = Unit[Goal] /\ loaded' = loaded /\ torn' = torn
            /\ behind' = behind /\ running' = running
            /\ \/ unit' = unit /\ script' = [script EXCEPT !.at = "restarting"]
               \/ script' = [script EXCEPT !.at = "reloading"]
      BY <2>2 DEF sync_unit, GoTo
    <3>2. (unit' = unit /\ script'.at = "restarting") \/ script'.at = "reloading"
      BY <3>1 DEF HostInv, HostTypes
    <3> QED
      BY <1>2, <1>3, <2>1, <3>1, <3>2 DEF HostInv, Progress, UnitIsRead, RunsCurrent, NotStarted, Goal
  <2>3. CASE ReloadsUnits
    BY <1>3, <2>1, <2>3 DEF ReloadsUnits, ReadsUnits, HostInv, Progress, UnitIsRead, RunsCurrent,
         NotStarted, GoTo, HostTypes
  <2>4. CASE RestartsService
    BY <1>3, <2>1, <2>4 DEF RestartsService, HostInv, Progress, UnitIsRead, RunsCurrent,
         NotStarted, GoTo, HostTypes
  <2>5. CASE HealthGatePasses
    BY <1>3, <2>1, <2>5 DEF HealthGatePasses, HostInv, Progress, UnitIsRead, RunsCurrent,
         NotStarted, GoTo, HostTypes, unitVars
  <2> QED
    BY <2>2, <2>3, <2>4, <2>5
<1> QED
  BY <1>1, <1>3, <1>5, <1>6, ScriptGoesOn DEF HostInv

\* The gate fails: the script goes back, or takes the first release down.
LEMMA GateFailsOK ==
  ASSUME HostInv, HealthGateFails
  PROVE  HostInv'
<1>1. script.at = "gating" /\ Busy /\ ~script.back /\ script.at \notin Before
        /\ UNCHANGED <<fileVars, schema, unitVars, running, report, backupVars>>
  BY DEF HealthGateFails, HostInv, ScriptOK, IdleScript, Before
<1>2. \/ script' = [script EXCEPT !.back = TRUE, !.at = "linking"] /\ script.previous # NoRelease
      \/ script' = [script EXCEPT !.at = "undeploying"]
  BY DEF HealthGateFails
<1>3. /\ script' \in ScriptRow /\ script'.kind = script.kind
      /\ script'.target = script.target /\ script'.previous = script.previous
      /\ \/ script'.at = "linking" /\ script'.back /\ script.previous # NoRelease
         \/ script'.at = "undeploying" /\ ~script'.back
  BY <1>1, <1>2 DEF HostInv, HostTypes, ScriptRow, Steps
<1>4. ScriptOK' /\ script'.at \notin Before
  BY <1>1, <1>3 DEF HostInv, ScriptOK, Busy, Before
<1>5. Progress' /\ UnitIsRead' /\ RunsCurrent'
  BY <1>1, <1>3 DEF HostInv, Progress, UnitIsRead, RunsCurrent, NotStarted, current, fileVars, unitVars
<1>6. schema' \in Nat /\ schema' >= schema /\ UnitTypes' /\ running' \in Named
  BY <1>1 DEF HostInv, HostTypes, UnitTypes, unitVars
<1> QED
  BY <1>1, <1>3, <1>4, <1>5, <1>6, ScriptGoesOn DEF HostInv

\* Without current nothing starts.
LEMMA RemovesCurrentOK ==
  ASSUME HostInv, RemovesCurrent
  PROVE  HostInv'
<1>1. script.at = "undeploying" /\ Busy /\ ~script.back /\ GoTo("stopping")
        /\ link' = [link EXCEPT ![Shared("current")] = NoRelease]
        /\ UNCHANGED <<tree, stray, schema, unitVars, running, report, backupVars>>
  BY DEF RemovesCurrent, HostInv, ScriptOK, IdleScript, Before
<1>2. /\ script' \in ScriptRow /\ script'.at = "stopping" /\ script'.kind = script.kind
      /\ script'.target = script.target /\ script'.previous = script.previous
      /\ script'.back = script.back /\ ScriptOK'
  BY <1>1, GoToOK DEF Steps, Before
<1>3. /\ link' \in [Links -> Named]
      /\ \A n \in Links : link'[n] = link[n] \/ link'[n] = NoRelease
  BY <1>1, LinkNames DEF HostInv, HostTypes, Named
<1>4. HostTypes'
  BY <1>1, <1>2, <1>3 DEF HostInv, HostTypes, ScriptRow, backupVars, unitVars
<1>5. LinksReady' /\ OwnNames'
  BY <1>1, <1>3, LinkNames DEF HostInv, LinksReady, Ready, OwnNames
<1>6. ActivatedReady'
  BY <1>1, <1>2 DEF HostInv, ActivatedReady, Busy, Ready, Before
<1>7. RemovableUnnamed'
  <2>1. ASSUME script.kind = "deploy", NEW n \in Lasting \ {Shared("current")}
        PROVE  link'[n] # script.target
    BY <1>1, <1>3, <2>1, LinkNames, HostAssumption DEF HostInv, RemovableUnnamed, ScriptOK
  <2> QED
    BY <1>2, <2>1 DEF HostInv, RemovableUnnamed, Before
<1>8. Progress' /\ UnitIsRead' /\ ReportIsLast'
        /\ SuccessIsReal'
  BY <1>1, <1>2 DEF HostInv, Progress, UnitIsRead, ReportIsLast, SuccessIsReal, NoReport,
         Report, unitVars, Busy
<1>9. RunsCurrent'
  BY <1>1, <1>3, LinkNames, RunningKept DEF NotStarted
<1> QED
  BY <1>2, <1>4, <1>5, <1>6, <1>7, <1>8, <1>9 DEF HostInv

\* The ways a script ends without a success.
LEMMA EndsOK ==
  ASSUME HostInv, StopsService \/ RestoreEnds \/ ScriptFails \/ ScriptDies
  PROVE  HostInv'
<1>1. Busy /\ script' = IdleScript /\ UNCHANGED <<link, report, backupVars>>
        /\ \/ UnitIsLeft /\ running' = running
           \/ /\ UNCHANGED unitVars /\ script.at \notin NotStarted
              /\ running' \in {running, NoRelease}
        /\ (cleanup_failed_release(script.target, tree) \/ UNCHANGED <<tree, stray>>)
  BY DEF StopsService, RestoreEnds, ScriptFails, ScriptDies, HostInv, ScriptOK, IdleScript, fileVars,
         NotStarted
<1>2. running' \in Named
  BY DEF StopsService, RestoreEnds, ScriptFails, ScriptDies, HostInv, HostTypes, Named
<1>3. schema' \in Nat /\ schema' >= schema
  <2>1. script.target \in Releases /\ schema \in Nat
    BY <1>1 DEF HostInv, ScriptOK, HostTypes
  <2>2. Migrated(script.target) \in Nat
    BY <2>1, MigratedIs DEF HostInv
  <2>3. CASE ScriptFails
    <3>1. schema' \in schema .. Migrated(script.target) \/ schema' = schema
      BY <2>3 DEF ScriptFails
    <3> QED
      BY <2>1, <2>2, <3>1
  <2>4. CASE StopsService \/ RestoreEnds \/ ScriptDies
    BY <2>1, <2>4 DEF StopsService, RestoreEnds, ScriptDies
  <2> QED
    BY <2>3, <2>4
<1> QED
  BY <1>1, <1>2, <1>3, ScriptEnds

\* The report: what the activation has done is what is reported.
LEMMA RecordsActiveOK ==
  ASSUME HostInv, RecordsActive
  PROVE  HostInv'
<1>1. script.at = "recording" /\ Busy /\ ~script.back
        /\ report' = Report("activated", script.target)
        /\ script' = IdleScript /\ UNCHANGED <<fileVars, schema, unitVars, running, backupVars>>
  BY DEF RecordsActive, HostInv, ScriptOK, IdleScript
<1>2. tree' = tree /\ link' = link /\ stray' = stray /\ script.target \in Releases
  BY <1>1 DEF fileVars, HostInv, ScriptOK
<1>3. LinksReady' /\ OwnNames'
  BY <1>1, <1>2, LinksKept DEF HostInv, HostTypes
<1>4. HostTypes'
  BY <1>1, <1>2, IdleOK DEF HostInv, HostTypes, ScriptRow, backupVars, unitVars, Named, Report
<1>5. SuccessIsReal' /\ UnitIsRead' /\ RunsCurrent'
  BY <1>1, <1>2 DEF HostInv, Progress, UnitIsRead, RunsCurrent, SuccessIsReal, Report, unitVars, current
<1> QED
  BY <1>1, <1>3, <1>4, <1>5, IdleOK DEF HostInv

\* What leaves the files and the script alone, whatever the service does, systemd
\* reads or an idle script reports.
LEMMA FilesStayOK ==
  ASSUME HostInv, UNCHANGED <<fileVars, unit, script, backupVars>>,
         running' \in {running, NoRelease, current}, schema' \in Nat, schema' >= schema,
         UnitTypes', UnitIsRead', (behind' = behind) \/ running' \in {current, NoRelease},
         \/ report' = report
         \/ /\ script = IdleScript /\ current \in Releases
            /\ report' = Report("already_active", current)
  PROVE  HostInv'
<1>1. tree' = tree /\ link' = link /\ stray' = stray /\ LinkName' = LinkName /\ current' = current
  BY DEF fileVars, LinkName, current
<1>2. current \in Named
  BY LinkNames DEF HostInv, HostTypes, current
<1>3. LinksReady' /\ OwnNames'
  BY <1>1, LinksKept
<1>4. HostTypes'
  BY <1>1, <1>2 DEF HostInv, HostTypes, UnitTypes, backupVars, Named, Report
<1>5. ActivatedReady'
  BY <1>1, ReadyKept DEF HostInv, HostTypes, ActivatedReady, ScriptOK, Named, Busy, Ready
<1>6. ScriptOK' /\ RemovableUnnamed'
  BY <1>1 DEF HostInv, ScriptOK, RemovableUnnamed, Busy
<1>7. Progress'
  BY <1>1 DEF HostInv, Progress
<1>8. RunsCurrent'
  BY <1>1 DEF HostInv, RunsCurrent, current
<1>9. ReportIsLast' /\ SuccessIsReal'
  <2>1. CASE report' = report
    <3>1. ReportIsLast'
      BY <2>1 DEF HostInv, ReportIsLast, NoReport, Report, Busy
    <3>2. report # NoReport => script.at = "idle"
      BY DEF HostInv, ReportIsLast, ScriptOK, IdleScript
    <3> QED
      BY <1>1, <2>1, <3>1, <3>2 DEF HostInv, SuccessIsReal, UnitIsRead, NoReport, Report
  <2>2. CASE script = IdleScript /\ current \in Releases
             /\ report' = Report("already_active", current)
    <3>1. script.at = "idle" /\ current \in Releases
      BY <2>2 DEF IdleScript
    <3> QED
      BY <1>1, <1>8, <2>2, <3>1, HostAssumption DEF ReportIsLast, SuccessIsReal, RunsCurrent, NotStarted,
         Report, NoReport, Busy, IdleScript
  <2> QED
    BY <2>1, <2>2
<1> QED
  BY <1>3, <1>4, <1>5, <1>6, <1>7, <1>8, <1>9 DEF HostInv

\* The service stops and starts at any time, and migrates what it opens; the host
\* boots; a rollback finds its target current.
LEMMA ServiceOK ==
  ASSUME HostInv, NEW r, ServiceFails \/ ServiceStarts \/ Boots \/ (r \in Releases /\ AlreadyActive(r))
  PROVE  HostInv'
<1>1. UnitTypes /\ UnitIsRead /\ schema \in Nat
  BY DEF HostInv, HostTypes, UnitTypes
<1>2. CASE ServiceFails \/ ServiceStarts
  <2>1. /\ UNCHANGED <<fileVars, unit, loaded, torn, script, report, backupVars>>
        /\ running' \in {NoRelease, current} /\ behind' \in {behind, FALSE}
    BY <1>2 DEF ServiceFails, ServiceStarts, unitVars
  <2>2. current \in Named
    BY LinkNames DEF HostInv, HostTypes, current
  <2>3. schema' \in Nat /\ schema' >= schema
    <3>1. CASE ServiceFails
      BY <1>1, <3>1 DEF ServiceFails
    <3>2. CASE ServiceStarts
      BY <2>2, <3>2, MigratedIs DEF ServiceStarts, HostInv, Named
    <3> QED
      BY <1>2, <3>1, <3>2
  <2>4. UnitTypes' /\ UnitIsRead'
    BY <1>1, <2>1 DEF UnitTypes, UnitIsRead
  <2> QED
    BY <2>1, <2>3, <2>4, FilesStayOK
<1>3. CASE Boots
  <2>1. /\ UNCHANGED <<fileVars, schema, unit, running, script, report, backupVars>>
        /\ loaded' = unit /\ torn' = FALSE /\ behind' = behind
    BY <1>3 DEF Boots, ReadsUnits
  <2>2. UnitTypes' /\ UnitIsRead'
    BY <1>1, <2>1 DEF UnitTypes, UnitIsRead
  <2> QED
    BY <1>1, <2>1, <2>2, FilesStayOK
<1>4. CASE r \in Releases /\ AlreadyActive(r)
  <2>1. /\ script = IdleScript /\ current = r /\ report' = Report("already_active", r)
        /\ UNCHANGED <<fileVars, schema, unitVars, running, script, backupVars>>
    BY <1>4 DEF AlreadyActive
  <2>2. UnitTypes' /\ UnitIsRead'
    BY <1>1, <2>1 DEF UnitTypes, UnitIsRead, unitVars
  <2> QED
    BY <1>1, <1>4, <2>1, <2>2, FilesStayOK DEF unitVars
<1> QED
  BY <1>2, <1>3, <1>4

(***************************************************************************)
(* backup.sh touches only the archives.                                    *)
(***************************************************************************)
\* Only a backup that is done prunes, and its archive is the newest.
Copies == {"good", "bad"}

ArchivesInv ==
  /\ archives \in Seq(Copies) /\ backup \in {"idle", "pruning"}
  /\ backup = "pruning" => archives # <<>> /\ archives[Len(archives)] = "good"

\* The last element of a concatenation.
LEMMA LastOfConcat ==
  ASSUME NEW S, NEW a \in Seq(S), NEW b \in Seq(S), Len(b) > 0
  PROVE  /\ a \o b \in Seq(S) /\ a \o b # <<>>
         /\ Len(a \o b) \in DOMAIN (a \o b) /\ (a \o b)[Len(a \o b)] = b[Len(b)]
<1>1. Len(a) \in Nat /\ Len(b) \in Nat /\ a \o b \in Seq(S) /\ Len(a \o b) = Len(a) + Len(b)
  BY ConcatProperties
<1>2. Len(a) + Len(b) \in 1 .. Len(a) + Len(b) /\ Len(a) + Len(b) > Len(a)
        /\ (Len(a) + Len(b)) - Len(a) = Len(b)
  BY <1>1
<1>3. (a \o b)[Len(a) + Len(b)] = b[Len(b)]
  BY <1>2, ConcatProperties
<1>4. DOMAIN (a \o b) = 1 .. Len(a \o b)
  BY <1>1
<1> QED
  BY <1>1, <1>2, <1>3, <1>4

\* A part of a sequence, by its positions.
LEMMA Part ==
  ASSUME NEW S, NEW s \in Seq(S), NEW m \in Nat \ {0}, NEW n \in 0 .. Len(s)
  PROVE  /\ SubSeq(s, m, n) \in Seq(S)
         /\ m <= n => Len(SubSeq(s, m, n)) = n - m + 1
         /\ m <= n => SubSeq(s, m, n)[n - m + 1] = s[n]
<1>1. \A j \in m .. n : s[j] \in S
  OBVIOUS
<1>2. /\ SubSeq(s, m, n) \in Seq(S)
      /\ Len(SubSeq(s, m, n)) = IF m <= n THEN n - m + 1 ELSE 0
      /\ \A j \in 1 .. n - m + 1 : SubSeq(s, m, n)[j] = s[m + j - 1]
  BY <1>1, SubSeqProperties
<1>3. m <= n => n - m + 1 \in 1 .. n - m + 1 /\ m + (n - m + 1) - 1 = n
  OBVIOUS
<1> QED
  BY <1>2, <1>3

\* Removing an archive before the last one keeps the last one.
LEMMA LastKept ==
  ASSUME NEW S, NEW s \in Seq(S), NEW i \in DOMAIN s, i + Keep <= Len(s)
  PROVE  LET t == SubSeq(s, 1, i - 1) \o SubSeq(s, i + 1, Len(s))
         IN  t \in Seq(S) /\ t # <<>> /\ Len(t) \in DOMAIN t /\ t[Len(t)] = s[Len(s)]
<1> DEFINE a == SubSeq(s, 1, i - 1)
           b == SubSeq(s, i + 1, Len(s))
<1>1. /\ i \in 1 .. Len(s) /\ Len(s) \in Nat /\ i + 1 \in Nat \ {0} /\ i + 1 <= Len(s)
      /\ i - 1 \in 0 .. Len(s) /\ Len(s) \in 0 .. Len(s) /\ Len(s) - (i + 1) + 1 > 0
  BY HostAssumption
<1>2. a \in Seq(S)
  <2>1. 1 \in Nat \ {0}
    OBVIOUS
  <2> QED
    BY <1>1, <2>1, Part
<1>3. /\ b \in Seq(S) /\ Len(b) = Len(s) - (i + 1) + 1
      /\ b[Len(s) - (i + 1) + 1] = s[Len(s)]
  <2> DEFINE m == i + 1
             n == Len(s)
  <2>1. m \in Nat \ {0} /\ n \in 0 .. Len(s) /\ m <= n
    BY <1>1
  <2> HIDE DEF m, n
  <2>2. /\ SubSeq(s, m, n) \in Seq(S) /\ Len(SubSeq(s, m, n)) = n - m + 1
        /\ SubSeq(s, m, n)[n - m + 1] = s[n]
    BY <2>1, Part
  <2> QED
    BY <2>2 DEF m, n
<1> HIDE DEF a, b
<1>4. Len(b) > 0 /\ b[Len(b)] = s[Len(s)]
  BY <1>1, <1>3
<1>5. /\ a \o b \in Seq(S) /\ a \o b # <<>>
      /\ Len(a \o b) \in DOMAIN (a \o b) /\ (a \o b)[Len(a \o b)] = s[Len(s)]
  BY <1>2, <1>3, <1>4, LastOfConcat
<1> QED
  BY <1>5 DEF a, b

\* Every step keeps the archives in order, and a good one among them.
LEMMA ArchivesStep ==
  ASSUME ArchivesInv, [Next]_hostVars
  PROVE  /\ ArchivesInv'
         /\ (\E i \in DOMAIN archives : DrillPasses(i)) => (\E i \in DOMAIN archives : DrillPasses(i))'
<1>1. CASE Archives
  <2>1. PICK x \in Copies :
          /\ archives' = Append(archives, x)
          /\ x = "good" \/ (backup' = backup /\ backup = "idle")
          /\ backup' \in {"idle", "pruning"}
    BY <1>1 DEF Archives, ArchivesInv, Copies
  <2>2. /\ archives' \in Seq(Copies) /\ Len(archives') = Len(archives) + 1
        /\ archives'[Len(archives')] = x /\ archives' # <<>>
        /\ \A i \in DOMAIN archives : i \in DOMAIN archives' /\ archives'[i] = archives[i]
    <3>1. archives \in Seq(Copies) /\ archives' = Append(archives, x)
      BY <2>1 DEF ArchivesInv
    <3>2. DOMAIN archives = 1 .. Len(archives) /\ Len(archives) \in Nat
      BY <3>1
    <3>3. DOMAIN archives' = 1 .. Len(archives')
      BY <3>1, AppendProperties
    <3> QED
      BY <3>1, <3>2, <3>3, AppendProperties
  <2> QED
    BY <2>1, <2>2 DEF ArchivesInv, DrillPasses
<1>2. CASE Prunes
  <2>1. PICK i \in DOMAIN archives :
          /\ i + Keep <= Len(archives) /\ backup' = backup /\ backup = "pruning"
          /\ archives' = SubSeq(archives, 1, i - 1) \o SubSeq(archives, i + 1, Len(archives))
    BY <1>2 DEF Prunes, Stale
  <2>2. /\ archives' \in Seq(Copies) /\ archives' # <<>>
        /\ archives'[Len(archives')] = archives[Len(archives)] /\ Len(archives') \in DOMAIN archives'
    BY <2>1, LastKept DEF ArchivesInv
  <2> QED
    BY <2>1, <2>2 DEF ArchivesInv, DrillPasses
<1>3. CASE BackupEnds
  BY <1>3 DEF BackupEnds, ArchivesInv, DrillPasses
<1>4. ASSUME UNCHANGED backupVars
      PROVE  /\ ArchivesInv'
             /\ (\E i \in DOMAIN archives : DrillPasses(i))
                   => (\E i \in DOMAIN archives : DrillPasses(i))'
  BY <1>4 DEF backupVars, unitVars, ArchivesInv, DrillPasses
<1>5. \/ Archives \/ Prunes \/ BackupEnds \/ UNCHANGED backupVars
  BY DEF Next, hostVars, Activation, DeployBegins, RollbackBegins, AlreadyActive, Unpacks,
         install_production_dependencies, run_preflight, LinksGoal, SwapsCurrent, sync_unit,
         ReloadsUnits, RestartsService, HealthGatePasses, HealthGateFails, RemovesCurrent, StopsService,
         RestoreEnds, RecordsActive, ScriptFails, ScriptDies, ServiceFails, ServiceStarts,
         Boots
<1> QED
  BY <1>1, <1>2, <1>3, <1>4, <1>5

\* A step of a backup leaves the releases alone.
LEMMA ReleasesAlone ==
  ASSUME HostInv, UNCHANGED releaseVars, ArchivesInv'
  PROVE  HostInv'
<1>1. HostTypes'
  BY DEF HostInv, HostTypes, ArchivesInv, Copies, releaseVars, fileVars, unitVars
<1>2. LinksReady' /\ OwnNames' /\ ScriptOK' /\ ActivatedReady' /\ RemovableUnnamed'
  BY DEF HostInv, LinksReady, OwnNames, ScriptOK, ActivatedReady, RemovableUnnamed, Busy, Ready,
         current, releaseVars, fileVars
<1>3. Progress' /\ UnitIsRead' /\ ReportIsLast'
        /\ SuccessIsReal'
  BY DEF HostInv, Progress, UnitIsRead, ReportIsLast, SuccessIsReal, NoReport,
         Report, unitVars, Busy, LinkName, current, releaseVars, fileVars
<1>4. RunsCurrent'
  BY RunningKept DEF releaseVars, fileVars
<1> QED
  BY <1>1, <1>2, <1>3, <1>4 DEF HostInv

\* Every step keeps the invariant.
LEMMA StepOK ==
  ASSUME HostInv, ArchivesInv, [Next]_hostVars
  PROVE  HostInv'
<1>1. ArchivesInv'
  BY ArchivesStep
<1>2. ASSUME NEW r \in Releases, DeployBegins(r) \/ RollbackBegins(r) \/ AlreadyActive(r)
      PROVE  HostInv'
  BY <1>2, DeployBeginsOK, RollbackBeginsOK, ServiceOK
<1>3. CASE Unpacks \/ install_production_dependencies
  <2>1. script.kind = "deploy"
    BY <1>3 DEF Unpacks, install_production_dependencies, HostInv, ScriptOK
  <2>2. CASE Unpacks
    BY <2>1, <2>2, FillsOK DEF Unpacks
  <2>3. CASE install_production_dependencies
    BY <2>1, <2>3, FillsOK DEF install_production_dependencies
  <2> QED
    BY <1>3, <2>2, <2>3
<1>4. CASE run_preflight
  BY <1>4, PreflightOK
<1>5. CASE Activation
  BY <1>5, LinksGoalOK, SwapsCurrentOK, OnwardOK, GateFailsOK, RemovesCurrentOK, EndsOK,
     RecordsActiveOK DEF Activation
<1>6. CASE ScriptFails \/ ScriptDies
  BY <1>6, EndsOK
<1>7. CASE ServiceFails \/ ServiceStarts \/ Boots
  BY <1>7, ServiceOK
<1>8. CASE Archives \/ Prunes \/ BackupEnds \/ UNCHANGED hostVars
  BY <1>1, <1>8, ReleasesAlone DEF Archives, Prunes, BackupEnds, hostVars
<1> QED
  BY <1>2, <1>3, <1>4, <1>5, <1>6, <1>7, <1>8 DEF Next

(***************************************************************************)
(* Theorems.                                                               *)
(***************************************************************************)
\* The invariant holds in every reachable state.
LEMMA Inductive == Spec => [](HostInv /\ ArchivesInv)
<1>1. Init => HostInv /\ ArchivesInv
  BY InitOK DEF Init, ArchivesInv, Copies
<1>2. HostInv /\ ArchivesInv /\ [Next]_hostVars => (HostInv /\ ArchivesInv)'
  BY StepOK, ArchivesStep
<1> QED
  BY <1>1, <1>2, PTL DEF Spec

\* Whatever dies wherever, current names a complete release whose migrations
\* the database has.
THEOREM CurrentCanStart == Spec => []HostTypeOK
<1>1. HostInv => HostTypeOK
  BY LinkNames DEF HostInv, LinksReady, Ready, HostTypeOK, CurrentIsReady, current
<1> QED
  BY <1>1, Inductive, PTL

\* A reported success is so until the next script begins: what was reported is current,
\* no other release runs unless a script ended between mv and restart, and what was
\* activated runs, or nothing does, with its unit installed, which systemd has read
\* unless a script ended between install and daemon-reload.
THEOREM SuccessHolds == Spec => []SuccessIsReal
<1>1. HostInv => SuccessIsReal
  BY DEF HostInv
<1> QED
  BY <1>1, Inductive, PTL

\* No step takes the last good archive.
THEOREM LastGoodCopyKept == Spec => GoodCopyKept
<1>1. ArchivesInv /\ [Next]_hostVars =>
        [(\E i \in DOMAIN archives : DrillPasses(i)) => (\E i \in DOMAIN archives : DrillPasses(i))']_hostVars
  BY ArchivesStep
<1> QED
  BY <1>1, Inductive, PTL DEF Spec, GoodCopyKept
=============================================================================
