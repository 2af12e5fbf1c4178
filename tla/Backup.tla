--------------------------------- MODULE Backup ---------------------------------
(***************************************************************************)
(* scripts/backup-prod.sh and the deployment that calls it                 *)
(* (.github/workflows/deploy.yml): which services of                       *)
(* docker-compose.prod.yml run, of which build, on which schema, and what  *)
(* a backup contains.                                                      *)
(*                                                                         *)
(* A script is a process with a step; under set -e the first command that  *)
(* fails ends it, and its EXIT trap starts the services again if the       *)
(* script knows that it stopped them.                                      *)
(***************************************************************************)
EXTENDS Naturals, FiniteSets

CONSTANTS
  MaxVersion,   \* commits that are deployed (a bound)
  MaxWrites     \* writes of the services that are told apart (a bound)

ASSUME BackupAssumption == MaxVersion \in Nat /\ MaxWrites \in Nat

VARIABLES
  running,      \* the app services that run
  container,    \* the version their containers were made from
  checkout,     \* the version in the working tree
  built,        \* the version of the images
  schema,       \* the version the database was migrated to
  writes,       \* writes to database and uploads so far
  script,       \* the scripts: a backup by hand, and a deployment
  knows,        \* the scripts whose SERVICES_STOPPED is 1
  dump,         \* what each script's dump, and its archive, hold
  archive,
  broken        \* what went wrong that the scripts do not undo

backupVars == <<running, container, checkout, built, schema, writes, script, knows,
                dump, archive, broken>>

-------------------------------------------------------------------------------
AppServices == {"backend", "notification-worker"}
Script      == {"backup", "deploy"}
BackupStep  == {"start", "stop", "dump", "archive", "restart", "cleanup"}
DeployStep  == {"build", "migrate", "up"}

\* "overlap": a script was started beside the other; "docker": stopping or
\* starting services failed; "deploy": a deployment failed after its backup.
Trouble == {"overlap", "docker", "deploy"}

Containers == <<running, container>>
Versions   == <<checkout, built, schema>>

BackupInit ==
  /\ running = AppServices /\ container = 0
  /\ checkout = 0 /\ built = 0 /\ schema = 0 /\ writes = 0
  /\ script = [s \in Script |-> "off"] /\ knows = {}
  /\ dump = [s \in Script |-> 0] /\ archive = [s \in Script |-> 0]
  /\ broken = {}

Proceed(s, step) == script' = [script EXCEPT ![s] = step]

\* docker compose up -d: what does not run is started, what runs from an old
\* image is made again.
ComposeUp == running' = AppServices /\ container' = built

\* A service that runs writes, to the database or to the uploads.
ServiceWrites ==
  /\ running # {} /\ writes < MaxWrites
  /\ writes' = writes + 1
  /\ UNCHANGED <<Containers, Versions, script, knows, dump, archive, broken>>

\* Mutant: the images are built before the backup.
PullAndBuild(s) ==
  /\ script[s] = "off"
  /\ Proceed(s, "start")
  /\ IF s = "deploy"
     THEN checkout < MaxVersion /\ checkout' = checkout + 1 /\ built' = checkout + 1
     ELSE UNCHANGED <<checkout, built>>
  /\ broken' = IF \E t \in Script : script[t] # "off" THEN broken \cup {"overlap"} ELSE broken
  /\ UNCHANGED <<Containers, schema, writes, knows, dump, archive>>

\* The backup by hand, or a push to main: git pull, then the backup.
StartScript(s) ==
  /\ script[s] = "off"
  /\ Proceed(s, "start")
  /\ IF s = "deploy"
     THEN checkout < MaxVersion /\ checkout' = checkout + 1
     ELSE UNCHANGED checkout
  /\ broken' = IF \E t \in Script : script[t] # "off" THEN broken \cup {"overlap"} ELSE broken
  /\ UNCHANGED <<Containers, built, schema, writes, knows, dump, archive>>

-------------------------------------------------------------------------------
\* backup-prod.sh

\* The early checks, the directory, the manifest, Postgres.
PrepareBackup(s) ==
  /\ script[s] = "start"
  /\ Proceed(s, "stop")
  /\ UNCHANGED <<Containers, Versions, writes, knows, dump, archive, broken>>

\* Mutant: only the backend is stopped.
StopBackendOnly(s) ==
  /\ script[s] = "stop"
  /\ running' = running \ {"backend"} /\ knows' = knows \cup {s}
  /\ Proceed(s, "dump")
  /\ UNCHANGED <<container, Versions, writes, dump, archive, broken>>

StopServices(s) ==
  /\ script[s] = "stop"
  /\ running' = {} /\ knows' = knows \cup {s}
  /\ Proceed(s, "dump")
  /\ UNCHANGED <<container, Versions, writes, dump, archive, broken>>

DumpPostgres(s) ==
  /\ script[s] = "dump"
  /\ dump' = [dump EXCEPT ![s] = writes]
  /\ Proceed(s, "archive")
  /\ UNCHANGED <<Containers, Versions, writes, knows, archive, broken>>

ArchiveUploads(s) ==
  /\ script[s] = "archive"
  /\ archive' = [archive EXCEPT ![s] = writes]
  /\ Proceed(s, IF s = "backup" THEN "restart" ELSE "cleanup")
  /\ UNCHANGED <<Containers, Versions, writes, knows, dump, broken>>

\* BACKUP_LEAVE_APP_STOPPED=0: the services go on at once, the trap is off.
RestartServices(s) ==
  /\ script[s] = "restart"
  /\ ComposeUp /\ knows' = knows \ {s}
  /\ Proceed(s, "cleanup")
  /\ UNCHANGED <<Versions, writes, dump, archive, broken>>

\* cleanup-backups.sh; for a deployment only now the trap is off.
CleanupBackups(s) ==
  /\ script[s] = "cleanup"
  /\ knows' = knows \ {s}
  /\ Proceed(s, IF s = "deploy" THEN "build" ELSE "off")
  /\ UNCHANGED <<Containers, Versions, writes, dump, archive, broken>>

\* Mutant: the trap is dropped with the failing cleanup of a deployment.
BackupFailsUntrapped(s) ==
  /\ script[s] \in BackupStep
  /\ Proceed(s, "off") /\ knows' = knows \ {s}
  /\ IF s \in knows /\ script[s] # "cleanup" THEN ComposeUp ELSE UNCHANGED Containers
  /\ UNCHANGED <<Versions, writes, dump, archive, broken>>

\* A command fails; restart_app_services runs on the way out.
BackupFails(s) ==
  /\ script[s] \in BackupStep
  /\ Proceed(s, "off") /\ knows' = knows \ {s}
  /\ IF s \in knows THEN ComposeUp ELSE UNCHANGED Containers
  /\ UNCHANGED <<Versions, writes, dump, archive, broken>>

\* docker compose stop fails with some services stopped, before the script knows
\* that it stopped any; or the start of the services fails, at "restart" or in
\* the trap.
DockerFails(s, left) ==
  /\ \/ script[s] = "stop" /\ left \subseteq running
     \/ s \in knows /\ running \subseteq left
  /\ running' = left /\ UNCHANGED container
  /\ Proceed(s, "off") /\ knows' = knows \ {s}
  /\ broken' = broken \cup {"docker"}
  /\ UNCHANGED <<Versions, writes, dump, archive>>

-------------------------------------------------------------------------------
\* deploy.yml after the backup

BuildImages(s) ==
  /\ script[s] = "build"
  /\ built' = checkout
  /\ Proceed(s, "migrate")
  /\ UNCHANGED <<Containers, checkout, schema, writes, knows, dump, archive, broken>>

Migrate(s) ==
  /\ script[s] = "migrate"
  /\ schema' = checkout
  /\ Proceed(s, "up")
  /\ UNCHANGED <<Containers, checkout, built, writes, knows, dump, archive, broken>>

\* Everything is started; what follows changes no service.  A deployment that
\* got here has repaired an earlier one that did not.
StartContainers(s) ==
  /\ script[s] = "up"
  /\ ComposeUp
  /\ Proceed(s, "off")
  /\ broken' = broken \ {"deploy"}
  /\ UNCHANGED <<Versions, writes, knows, dump, archive>>

\* A step fails, set -e ends the deployment: the images may be built, wholly or
\* not, and the migration applied or not.
DeployFails(s, images, migrated) ==
  /\ script[s] \in DeployStep
  /\ images \in {built, checkout} /\ migrated \in {schema, checkout}
  /\ script[s] # "build" => images = built
  /\ script[s] # "migrate" => migrated = schema
  /\ built' = images /\ schema' = migrated
  /\ Proceed(s, "off")
  /\ broken' = broken \cup {"deploy"}
  /\ UNCHANGED <<Containers, checkout, writes, knows, dump, archive>>

BackupNext ==
  \/ ServiceWrites
  \/ \E s \in Script :
       \/ StartScript(s) \/ PrepareBackup(s) \/ StopServices(s) \/ DumpPostgres(s)
       \/ ArchiveUploads(s) \/ RestartServices(s) \/ CleanupBackups(s) \/ BackupFails(s)
       \/ \E left \in SUBSET AppServices : DockerFails(s, left)
       \/ BuildImages(s) \/ Migrate(s) \/ StartContainers(s)
       \/ \E images, migrated \in 0 .. MaxVersion : DeployFails(s, images, migrated)

BackupSpec == BackupInit /\ [][BackupNext]_backupVars

-------------------------------------------------------------------------------
\* Properties

BackupTypeOK ==
  /\ running \subseteq AppServices
  /\ {container, checkout, built, schema} \subseteq 0 .. MaxVersion
  /\ writes \in 0 .. MaxWrites
  /\ script \in [Script -> BackupStep \cup DeployStep \cup {"off"}] /\ knows \subseteq Script
  /\ dump \in [Script -> 0 .. MaxWrites] /\ archive \in [Script -> 0 .. MaxWrites]
  /\ broken \subseteq Trouble

\* "A consistent DB/uploads snapshot": the dump and the archive of a backup show
\* one moment of the shop, unless the two scripts overlapped (backup-prod.sh stops
\* every service that writes before the one and starts none before the other).
SnapshotIsConsistent ==
  "overlap" \notin broken =>
    \A s \in Script :
      script[s] \in {"restart", "cleanup"} \cup DeployStep => dump[s] = archive[s]

\* "Safety net": when the scripts have ended, whichever command of theirs failed, the
\* services run; a failing docker compose leaves them stopped, or a deployment that
\* failed after its backup (restart_app_services, the order of the trap).  A script
\* that is killed runs no trap and is left out.
ServicesComeBack ==
  (\A s \in Script : script[s] = "off") /\ broken = {} => running = AppServices

\* The backend never runs on a schema it was not built for: a backup that fails
\* in a deployment brings the old version back, as deploy.yml says, and migrations
\* run while nothing does.
RunningCodeFitsSchema ==
  broken \cap {"overlap", "deploy"} = {} /\ running # {} => container = schema

-------------------------------------------------------------------------------
\* The inductive invariant behind the three

OwnSteps ==
  /\ script["backup"] \notin DeployStep /\ script["deploy"] # "restart"
  /\ \A s \in Script :
       s \in knows <=> \/ script[s] \in {"dump", "archive", "restart"}
                       \/ s = "deploy" /\ script[s] = "cleanup"

\* A script that holds the services down.
Holds(s) == s \in knows \/ script[s] \in DeployStep

Alone ==
  /\ \A s, t \in Script : script[s] # "off" /\ script[t] # "off" => s = t
  /\ \A s \in Script : Holds(s) => running = {}
  /\ \A s \in Script : script[s] = "archive" => dump[s] = writes
  /\ \A s \in Script :
       script[s] \in {"restart", "cleanup"} \cup DeployStep => dump[s] = archive[s]
  /\ \A s \in Script : script[s] \in {"migrate", "up"} => built = checkout
  /\ \A s \in Script : script[s] = "up" => schema = checkout
  /\ "deploy" \notin broken /\ (\A s \in Script : script[s] \notin {"migrate", "up"})
       => container = built /\ built = schema
  /\ broken = {} /\ (\A s \in Script : ~Holds(s)) => running = AppServices

\* A script knows that it stopped the services exactly while it did; and while no
\* two overlapped they are down, or up on one version, as its step says, whatever
\* fails in it (backup-prod.sh and its trap, deploy.yml).
BackupInv == BackupTypeOK /\ OwnSteps /\ ("overlap" \notin broken => Alone)
===============================================================================
