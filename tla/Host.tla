-------------------------------- MODULE Host --------------------------------
(***************************************************************************)
(* The scripts an operator runs on the host: deploy.sh, rollback.sh and    *)
(* backup.sh, with the service they restart and the database its releases  *)
(* migrate.  A step is a command that succeeds, fails or is never reached: *)
(* a script may be killed between any two of them.                         *)
(*                                                                         *)
(* deploy and rollback run one at a time.  Whatever checks the artifact    *)
(* and the configuration before anything is written is a deploy that does  *)
(* not begin.                                                              *)
(***************************************************************************)
EXTENDS Naturals, Sequences

CONSTANTS
  Releases,    \* commits there is a signed artifact of
  NoRelease,
  Schema,      \* Schema[r]: how many of MIGRATIONS release r knows
  Unit,        \* Unit[r]: the systemd unit in release r; releases may share one
  NoUnit,      \* no unit is installed, or one that was cut off
  Keep,        \* BACKUP_KEEP
  MaxArchives  \* bound: archives a backup may start with

\* Migrations are only ever added at the end.
ASSUME HostAssumption ==
  /\ NoRelease \notin Releases /\ Schema \in [Releases -> Nat]
  /\ DOMAIN Unit = Releases /\ \A r \in Releases : Unit[r] # NoUnit
  /\ Keep \in Nat \ {0} /\ MaxArchives \in Nat

VARIABLES
  tree,     \* tree[r]: how far releases/<r> is unpacked and installed
  stray,    \* <<d, r>>: a link named r inside releases/<d>
  link,     \* the symbolic links next to releases
  schema,   \* the migrations applied to the database
  unit,     \* the unit that is installed
  loaded,   \* the unit systemd has read
  torn,     \* history: a script ended between the install of a unit and
            \* daemon-reload, and systemd has read no unit since
  behind,   \* history: a script ended between mv and restart, and the service
            \* was not started since
  running,  \* the release the service process was started from
  script,   \* the deploy or rollback under way
  report,   \* history: the success the last script reported, if none began since
  archives, \* data/backups, oldest first
  backup    \* where backup.sh stands

fileVars    == <<tree, stray, link>>
unitVars    == <<unit, loaded, torn, behind>>
releaseVars == <<fileVars, schema, unitVars, running, script, report>>
backupVars  == <<archives, backup>>
hostVars    == <<releaseVars, backupVars>>

\* Names of links: current, .current-<sha>, .rollback-<sha>, and the two a
\* script restores with.
Shared(name) == <<name, NoRelease>>
Links == {Shared(n) : n \in {"current", "rollback", "revert"}} \cup ({"candidate", "target"} \X Releases)

\* resolve_current, for a link that is not dangling.
current == link[Shared("current")]

IdleScript == [kind |-> "none", target |-> NoRelease, previous |-> NoRelease,
               at |-> "idle", back |-> FALSE]

\* What a script ends its output with when it exits 0: deploy and rollback that
\* went through the health gate, and a rollback to what is current.
Report(says, r) == [says |-> says, release |-> r]
NoReport == Report("nothing", NoRelease)

Units == {Unit[r] : r \in Releases}

Greater(a, b) == IF a >= b THEN a ELSE b

\* Opening the database applies the migrations it lacks and ignores those the
\* release does not know.
Migrated(r) == Greater(schema, Schema[r])

(***************************************************************************)
(* What the scripts are made of.                                           *)
(***************************************************************************)
\* The release the script is about to link, and the name it links it under
\* first.
Goal == IF script.back THEN script.previous ELSE script.target

\* mutant: every script links under one name
LinkNameShared == Shared("rollback")

LinkName ==
  IF script.back THEN Shared(IF script.kind = "deploy" THEN "rollback" ELSE "revert")
  ELSE <<IF script.kind = "deploy" THEN "candidate" ELSE "target", script.target>>

GoTo(step) == script' = [script EXCEPT !.at = step]

\* mutant: what is current is not looked at
cleanupAlways(r, files) ==
  /\ tree' = [files EXCEPT ![r] = "absent"]
  /\ stray' = {s \in stray : s[1] # r}

\* cleanup_failed_release: a release this deploy created, unless it is current.
cleanup_failed_release(r, files) ==
  IF script.kind = "deploy" /\ current # r
  THEN tree' = [files EXCEPT ![r] = "absent"] /\ stray' = {s \in stray : s[1] # r}
  ELSE tree' = files /\ UNCHANGED stray

(***************************************************************************)
(* deploy.sh, up to the activation.                                        *)
(***************************************************************************)
\* The directory is created; one that exists, whoever left it, is refused.
DeployBegins(r) ==
  /\ script = IdleScript /\ tree[r] = "absent"
  /\ tree' = [tree EXCEPT ![r] = "partial"]
  /\ script' = [IdleScript EXCEPT !.kind = "deploy", !.target = r, !.at = "unpacking"]
  /\ report' = NoReport
  /\ UNCHANGED <<stray, link, schema, unitVars, running, backupVars>>

\* The archive is extracted, its manifest and the required files are there.
Unpacks ==
  /\ script.at = "unpacking"
  /\ tree' = [tree EXCEPT ![script.target] = "unpacked"]
  /\ GoTo("installing")
  /\ UNCHANGED <<stray, link, schema, unitVars, running, report, backupVars>>

install_production_dependencies ==
  /\ script.at = "installing"
  /\ tree' = [tree EXCEPT ![script.target] = "installed"]
  /\ GoTo("preflight")
  /\ UNCHANGED <<stray, link, schema, unitVars, running, report, backupVars>>

\* verifyDatabasePreflight opens, and so migrates, the database of the running
\* service, and wants exactly the migrations the release knows.
run_preflight ==
  /\ script.at = "preflight" /\ tree[script.target] = "installed"
  /\ Migrated(script.target) = Schema[script.target]
  /\ schema' = Migrated(script.target)
  /\ script' = [script EXCEPT !.at = "linking",
                              !.previous = IF script.kind = "deploy" THEN current ELSE @]
  /\ UNCHANGED <<fileVars, unitVars, running, report, backupVars>>

(***************************************************************************)
(* rollback.sh, up to the activation.                                      *)
(***************************************************************************)
\* A target whose manifest does not verify is refused before anything begins.
RollbackBegins(r) ==
  /\ script = IdleScript
  /\ current # NoRelease /\ tree[current] # "absent" /\ current # r
  /\ tree[r] \in {"unpacked", "installed"}
  /\ script' = [IdleScript EXCEPT !.kind = "rollback", !.target = r, !.previous = current,
                                  !.at = "preflight"]
  /\ report' = NoReport
  /\ UNCHANGED <<fileVars, schema, unitVars, running, backupVars>>

\* "target already active": a success, whatever the service runs, as only the
\* link is looked at.
AlreadyActive(r) ==
  /\ script = IdleScript /\ current = r /\ tree[r] # "absent"
  /\ report' = Report("already_active", r)
  /\ UNCHANGED <<fileVars, schema, unitVars, running, script, backupVars>>

(***************************************************************************)
(* The activation and the way back, in both scripts.                       *)
(***************************************************************************)
\* ln -s: a name that is a link to a directory is followed, and the link is
\* made inside it; one that dangles, or holds that name already, is an error.
LinksGoal ==
  /\ script.at = "linking"
  /\ \/ /\ link[LinkName] = NoRelease
        /\ link' = [link EXCEPT ![LinkName] = Goal]
        /\ UNCHANGED stray
     \/ LET d == link[LinkName]
        IN  /\ d # NoRelease /\ tree[d] # "absent" /\ <<d, Goal>> \notin stray
            /\ stray' = stray \cup {<<d, Goal>>}
            /\ UNCHANGED link
  /\ GoTo("swapping")
  /\ UNCHANGED <<tree, schema, unitVars, running, report, backupVars>>

\* mv -Tf: rename is atomic.
SwapsCurrent ==
  /\ script.at = "swapping"
  /\ link' = [link EXCEPT ![Shared("current")] = link[LinkName], ![LinkName] = NoRelease]
  /\ GoTo("syncing")
  /\ UNCHANGED <<tree, stray, schema, unitVars, running, report, backupVars>>

\* A unit that differs from the installed one is installed, and only then
\* systemd is told to read its units.
sync_unit ==
  /\ script.at = "syncing"
  /\ unit' = Unit[Goal]
  /\ GoTo(IF unit = Unit[Goal] THEN "restarting" ELSE "reloading")
  /\ UNCHANGED <<fileVars, schema, loaded, torn, behind, running, report, backupVars>>

ReadsUnits == loaded' = unit /\ torn' = FALSE

ReloadsUnits ==
  /\ script.at = "reloading"
  /\ ReadsUnits
  /\ GoTo("restarting")
  /\ UNCHANGED <<fileVars, schema, unit, behind, running, report, backupVars>>

\* systemctl restart, whether or not the process stays up.  It starts the unit
\* systemd has read, and looks for one only if it has none.
RestartsService ==
  /\ script.at = "restarting"
  /\ loaded' \in IF loaded = NoUnit THEN {NoUnit, unit} ELSE {loaded}
  /\ running' \in IF loaded' = NoUnit THEN {NoRelease} ELSE {current, NoRelease}
  /\ schema' = IF running' = NoRelease THEN schema ELSE Migrated(running')
  /\ behind' = FALSE
  /\ GoTo("gating")
  /\ UNCHANGED <<fileVars, unit, torn, report, backupVars>>

\* wait_for_health sees both probes answer: the script reports success.
HealthGatePasses ==
  /\ script.at = "gating" /\ ~script.back /\ running # NoRelease
  /\ GoTo("recording")
  /\ UNCHANGED <<fileVars, schema, unitVars, running, report, backupVars>>

\* The deadline passes.  The first release there is has nothing to go back to.
HealthGateFails ==
  /\ script.at = "gating" /\ ~script.back
  /\ script' = IF script.previous # NoRelease /\ tree[script.previous] # "absent"
               THEN [script EXCEPT !.back = TRUE, !.at = "linking"]
               ELSE [script EXCEPT !.at = "undeploying"]
  /\ UNCHANGED <<fileVars, schema, unitVars, running, report, backupVars>>

RemovesCurrent ==
  /\ script.at = "undeploying"
  /\ link' = [link EXCEPT ![Shared("current")] = NoRelease]
  /\ GoTo("stopping")
  /\ UNCHANGED <<tree, stray, schema, unitVars, running, report, backupVars>>

StopsService ==
  /\ script.at = "stopping"
  /\ running' = NoRelease
  /\ cleanup_failed_release(script.target, tree)
  /\ script' = IdleScript
  /\ UNCHANGED <<link, schema, unitVars, report, backupVars>>

\* Healthy again or not, the script fails.
RestoreEnds ==
  /\ script.at = "gating" /\ script.back
  /\ cleanup_failed_release(script.target, tree)
  /\ script' = IdleScript
  /\ UNCHANGED <<link, schema, unitVars, running, report, backupVars>>

RecordsActive ==
  /\ script.at = "recording"
  /\ report' = Report("activated", script.target)
  /\ script' = IdleScript
  /\ UNCHANGED <<fileVars, schema, unitVars, running, backupVars>>

\* A script that ends in sync_unit may leave half a unit, or one that systemd
\* has not read, and one that ends before the restart another release running.
UnitIsLeft ==
  /\ unit' \in IF script.at = "syncing" /\ unit # Unit[Goal] THEN {unit, NoUnit} ELSE {unit}
  /\ torn' = (torn \/ unit' # unit \/ script.at = "reloading")
  /\ behind' = (behind \/ script.at \in {"syncing", "reloading", "restarting"})
  /\ UNCHANGED loaded

\* set -e: a command outside a condition fails, or the operator interrupts the
\* script.  Some migrations of a failed preflight stay.
ScriptFails ==
  /\ script # IdleScript
  /\ cleanup_failed_release(script.target, tree)
  /\ schema' \in IF script.at = "preflight" THEN schema .. Migrated(script.target) ELSE {schema}
  /\ UnitIsLeft
  /\ script' = IdleScript
  /\ UNCHANGED <<link, running, report, backupVars>>

\* The script is killed and cleans nothing up.
ScriptDies ==
  /\ script # IdleScript
  /\ UnitIsLeft
  /\ script' = IdleScript
  /\ UNCHANGED <<fileVars, schema, running, report, backupVars>>

(***************************************************************************)
(* The service, between the scripts and under them.                        *)
(***************************************************************************)
ServiceFails ==
  /\ running # NoRelease
  /\ running' = NoRelease
  /\ UNCHANGED <<fileVars, schema, unitVars, script, report, backupVars>>

\* The host boots, once what ran on it is gone.
Boots ==
  /\ script = IdleScript /\ running = NoRelease /\ backup = "idle"
  /\ ReadsUnits
  /\ UNCHANGED <<fileVars, schema, unit, behind, running, script, report, backupVars>>

\* Restart=on-failure, or the enabled unit of a host that booted: whatever is
\* current.
ServiceStarts ==
  /\ running = NoRelease /\ loaded # NoUnit
  /\ current # NoRelease /\ tree[current] = "installed"
  /\ running' = current
  /\ schema' = Migrated(current)
  /\ behind' = FALSE
  /\ UNCHANGED <<fileVars, unit, loaded, torn, script, report, backupVars>>

(***************************************************************************)
(* backup.sh, out of the current release.                                  *)
(***************************************************************************)
\* The archive and its checksum are written, or the run stops on the way and
\* leaves an archive that is cut off or has no checksum.
Archives ==
  /\ backup = "idle" /\ current # NoRelease /\ Len(archives) < MaxArchives
  /\ \/ archives' = Append(archives, "good") /\ backup' = "pruning"
     \/ archives' = Append(archives, "bad") /\ UNCHANGED backup
  /\ UNCHANGED releaseVars

\* mutant: the oldest are kept
StaleNewest == {i \in DOMAIN archives : i > Keep}

\* By age, whole or not.
Stale == {i \in DOMAIN archives : i + Keep <= Len(archives)}

Prunes ==
  /\ backup = "pruning"
  /\ \E i \in Stale :
       archives' = SubSeq(archives, 1, i - 1) \o SubSeq(archives, i + 1, Len(archives))
  /\ UNCHANGED <<releaseVars, backup>>

\* Pruned, or stopped on the way.
BackupEnds ==
  /\ backup = "pruning"
  /\ backup' = "idle"
  /\ UNCHANGED <<releaseVars, archives>>

\* restore-drill.sh: the checksum, the manifest and the database are checked.
DrillPasses(i) == archives[i] = "good"

\* vps-bootstrap.sh may have installed a unit, and reloaded.
Init ==
  /\ tree = [r \in Releases |-> "absent"] /\ stray = {}
  /\ link = [n \in Links |-> NoRelease]
  /\ schema = 0 /\ running = NoRelease
  /\ unit \in Units \cup {NoUnit} /\ loaded = unit /\ torn = FALSE /\ behind = FALSE
  /\ script = IdleScript /\ report = NoReport
  /\ archives = <<>> /\ backup = "idle"

Activation ==
  \/ LinksGoal \/ SwapsCurrent \/ sync_unit \/ ReloadsUnits \/ RestartsService
  \/ HealthGatePasses \/ HealthGateFails \/ RemovesCurrent \/ StopsService \/ RestoreEnds
  \/ RecordsActive

Next ==
  \/ \E r \in Releases : DeployBegins(r) \/ RollbackBegins(r) \/ AlreadyActive(r)
  \/ Unpacks \/ install_production_dependencies \/ run_preflight
  \/ Activation
  \/ ScriptFails \/ ScriptDies \/ ServiceFails \/ ServiceStarts \/ Boots
  \/ Archives \/ Prunes \/ BackupEnds

Spec == Init /\ [][Next]_hostVars

-----------------------------------------------------------------------------
(***************************************************************************)
(* Properties.                                                             *)
(***************************************************************************)
Steps == {"idle", "unpacking", "installing", "preflight", "linking", "swapping", "syncing",
          "reloading", "restarting", "gating", "undeploying", "stopping", "recording"}

Named == Releases \cup {NoRelease}

HostTypes ==
  /\ tree \in [Releases -> {"absent", "partial", "unpacked", "installed"}]
  /\ stray \subseteq Releases \X Releases
  /\ link \in [Links -> Named]
  /\ schema \in Nat /\ running \in Named
  /\ {unit, loaded} \subseteq Units \cup {NoUnit} /\ {torn, behind} \subseteq BOOLEAN
  /\ report \in [says : {"nothing", "activated", "already_active"}, release : Named]
  /\ script \in [kind : {"none", "deploy", "rollback"}, target : Named, previous : Named,
                 at : Steps, back : BOOLEAN]
  /\ archives \in Seq({"good", "bad"})
  /\ backup \in {"idle", "pruning"}

\* Whatever dies wherever, the release that starts next is complete, and the
\* database has every migration it knows.
CurrentIsReady ==
  current # NoRelease => tree[current] = "installed" /\ Schema[current] <= schema

\* Types, and that current always names a release that can be started.
HostTypeOK == HostTypes /\ CurrentIsReady

\* A reported success, however many scripts died before it and left links
\* behind.  The release that is reported is current, and the service runs it or
\* nothing, except for "target already active" after a script that ended between
\* mv and restart.  What a deploy or rollback activated has its unit installed,
\* and systemd has read that unit, except after a script that ended between
\* install and daemon-reload: the next one finds the files equal and does not
\* reload.
SuccessIsReal ==
  /\ report # NoReport => current = report.release
  /\ report.says = "already_active" => behind \/ running \in {report.release, NoRelease}
  /\ report.says = "activated" =>
       /\ running \in {report.release, NoRelease}
       /\ unit = Unit[report.release] /\ (torn \/ loaded = unit)

\* The comment of backup.sh: a failed run can never delete the last good copy.
GoodCopyKept ==
  [][(\E i \in DOMAIN archives : DrillPasses(i)) => (\E i \in DOMAIN archives : DrillPasses(i))']_hostVars
=============================================================================
