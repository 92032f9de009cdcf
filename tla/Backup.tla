------------------------------- MODULE Backup -------------------------------
(***************************************************************************)
(* The backup chain of the store: the nightly job                          *)
(* (packaging/ops/backup-aoms-v2.sh), which writes dated generations,      *)
(* copies them to a remote host and prunes old ones, and the watchdog      *)
(* (aoms/ops/backup_status.py), which looks at what the job has left.      *)
(*                                                                         *)
(* A run of the job is a sequence of commands under `set -e` and an ERR    *)
(* trap; each command that leaves something behind is a step, any of them  *)
(* may fail, and a run may be killed between two of them.  The watchdog    *)
(* reads crontab, files, database and remote host one after the other.     *)
(*                                                                         *)
(* Time is counted in days.  A file is its contents: the store it was      *)
(* taken from and how many records that had, or Torn.  A digest is the     *)
(* contents it was taken of.                                               *)
(***************************************************************************)
EXTENDS Integers, FiniteSets

CONSTANTS
  None,
  Torn,            \* contents that were damaged
  Run,             \* runs of the job
  Database,        \* database paths
  Root,            \* directories on the remote host
  Crontabs,        \* the crontab: None, or what the entry of the job assigns
  Environment,     \* what the environment of the watchdog assigns
  DefaultSettings, \* what job and watchdog fall back to
  InUse,           \* the database clients write to
  LastDay,         \* days are 1..LastDay
  Sundays,
  Forces,          \* the values AOMS_FORCE_WEEKLY is set to by hand
  MaxRecords,      \* bound on the records of a store
  LocalDailyKeep, RemoteDailyKeep, WeeklyKeep,
  DailyMaxAge, WeeklyMaxAge,
  WarnDrift, FailDrift,
  MaxFaults        \* bound on what goes wrong

Day  == 1..LastDay
Kind == {"daily", "weekly", "portable"}

(* An assignment of None leaves the variable to the next source.           *)
Settings == [db : Database, host : BOOLEAN, root : Root]
Assigned == [db : Database \cup {None}, host : BOOLEAN, root : Root \cup {None}]

ASSUME BackupAssumption ==
  /\ Crontabs \subseteq Assigned \cup {None}
  /\ Environment \in Assigned
  /\ DefaultSettings \in Settings
  /\ InUse \in Database
  /\ LastDay \in Nat \ {0} /\ MaxRecords \in Nat
  /\ Sundays \subseteq Day
  /\ Forces \subseteq BOOLEAN
  /\ {LocalDailyKeep, RemoteDailyKeep, WeeklyKeep} \subseteq Nat \ {0}
  /\ {DailyMaxAge, WeeklyMaxAge, WarnDrift, FailDrift, MaxFaults} \subseteq Nat

Content == [db : Database, records : 0..MaxRecords] \cup {Torn}
Meta    == [digest : Content, records : 0..MaxRecords, db : Database]

ASSUME NoneIsNothing ==
  /\ None \notin Content \cup Meta \cup Run \cup Day \cup Database \cup Root
  /\ Torn \notin [db : Database, records : 0..MaxRecords]

(* An archive with its two sidecars; each of the three may be missing.     *)
Generation == [archive : Content \cup {None}, written : Day \cup {None},
               sum : Content \cup {None}, meta : Meta \cup {None}]

NoGeneration == [archive |-> None, written |-> None, sum |-> None, meta |-> None]

VARIABLES
  today,
  crontab,
  records,   \* Database -> number of memories
  local,     \* Kind -> Day -> generation on this machine
  remote,    \* Root -> Kind -> Day -> generation on the remote host
  lock,      \* the run that holds the lock file, or None
  run,       \* Run -> where it is
  log,       \* the last decisive line: "success", "error" or None
  watch,     \* the check in progress
  faults,    \* what has gone wrong so far
  kept       \* a run has completed and what it left was not touched since;
             \* only the properties read it

files  == <<local, remote>>
job    == <<lock, run, log>>
world  == <<today, crontab, records, faults>>
vars   == <<world, files, job, watch, kept>>

JobSteps == {"idle", "existing", "snapshot", "archive", "sum", "meta",
             "upload", "confirm", "prune", "prune_remote"}

(* stamp and settings are read once, when the run starts; snapshot is the  *)
(* database file in its temporary directory.                               *)
Job == [step : JobSteps, kind : Kind, stamp : Day, force : BOOLEAN,
        settings : Settings, snapshot : Content \cup {None}]

NoJob == [step |-> "idle", kind |-> "daily", stamp |-> 1, force |-> FALSE,
          settings |-> DefaultSettings, snapshot |-> None]

Checks == {"schedule", "daily", "checksum", "source", "count", "remote", "weekly", "log"}

WatchSteps == {"idle", "checksum", "metadata", "remote", "rest"}

(* began is the day the clock is read on.                                  *)
Watch == [step : WatchSteps, settings : Settings, began : Day, artifact : Day \cup {None},
          digest : Content \cup {None}, failed : SUBSET Checks, warned : BOOLEAN, kept : BOOLEAN]

NoWatch == [step |-> "idle", settings |-> DefaultSettings, began |-> 1, artifact |-> None,
            digest |-> None, failed |-> {}, warned |-> FALSE, kept |-> FALSE]

TypeOK ==
  /\ today \in Day
  /\ crontab \in Crontabs
  /\ records \in [Database -> 0..MaxRecords]
  /\ local \in [Kind -> [Day -> Generation]]
  /\ remote \in [Root -> [Kind -> [Day -> Generation]]]
  /\ lock \in Run \cup {None}
  /\ run \in [Run -> Job]
  /\ \A r \in Run : run[r].step # "idle" => lock = r
  /\ log \in {"success", "error", None}
  /\ watch \in Watch
  /\ watch.step \in {"checksum", "metadata", "remote"} => watch.artifact \in Day
  /\ faults \in 0..MaxFaults
  /\ kept \in BOOLEAN

Init ==
  /\ today = 1
  /\ crontab \in Crontabs
  /\ records = [d \in Database |-> 0]
  /\ local = [k \in Kind |-> [d \in Day |-> NoGeneration]]
  /\ remote = [t \in Root |-> [k \in Kind |-> [d \in Day |-> NoGeneration]]]
  /\ lock = None
  /\ run = [r \in Run |-> NoJob]
  /\ log = None
  /\ watch = NoWatch
  /\ faults = 0
  /\ kept = FALSE

-----------------------------------------------------------------------------
(* Configuration: the first source that assigns a variable wins.           *)

Over(source, settings) ==
  IF source = None THEN settings
  ELSE [db   |-> IF source.db = None THEN settings.db ELSE source.db,
        host |-> source.host \/ settings.host,
        root |-> IF source.root = None THEN settings.root ELSE source.root]

Scheduled == crontab # None

(* The cron entry sets the environment the job is started in; it is edited *)
(* by hand, between the behaviours of this module.                         *)
ScheduledSettings == Over(crontab, DefaultSettings)

(* Seeded fault: the watchdog looks where the documentation says.          *)
DocumentedSettings == Over(Environment, DefaultSettings)

WatchSettings == Over(Environment, ScheduledSettings)

(* The command the watchdog prints as the remedy names host and directory. *)
PrintedSettings ==
  [DefaultSettings EXCEPT !.host = WatchSettings.host, !.root = WatchSettings.root]

-----------------------------------------------------------------------------
(* Generations.                                                            *)

Started(g) == g.archive # None \/ g.sum # None \/ g.meta # None

Complete(g) == g.archive # None /\ g.sum # None /\ g.meta # None

(* verify_checksum and verify_metadata                                     *)
Verified(g) == Complete(g) /\ g.sum = g.archive /\ g.meta.digest = g.archive

Archives(gens) == {d \in Day : gens[d].archive # None}

(* What `sort -r | tail -n +keep+1` leaves to be removed.                  *)
Expired(gens, keep) ==
  {d \in Archives(gens) : Cardinality({e \in Archives(gens) : e > d}) >= keep}

Pruned(gens, keep) == [d \in Day |-> IF d \in Expired(gens, keep) THEN NoGeneration ELSE gens[d]]

(* The newest archive by the time it was written.  Runs take turns, so of  *)
(* two that were written on one day the later date was written later.      *)
Newest(gens) ==
  {d \in Archives(gens) : \A e \in Archives(gens) :
     \/ gens[e].written < gens[d].written
     \/ gens[e].written = gens[d].written /\ e <= d}

-----------------------------------------------------------------------------
(* The job.                                                                *)

Mine(r) == local[run[r].kind][run[r].stamp]

Goto(r, step) == run' = [run EXCEPT ![r] = [@ EXCEPT !.step = step]]

(* What is left under a name on this machine, and on the remote host.      *)
Put(k, d, g) == local' = [local EXCEPT ![k] = [@ EXCEPT ![d] = g]]

Copy(t, k, d, g) ==
  remote' = [remote EXCEPT ![t] = [@ EXCEPT ![k] = [remote[t][k] EXCEPT ![d] = g]]]

Leave(r) ==
  /\ run' = [run EXCEPT ![r] = NoJob]
  /\ lock' = IF lock = r THEN None ELSE lock

(* die, also by the ERR trap: the lock is released with the process.       *)
Die(r) == Leave(r) /\ log' = "error"

(* What a check under way has seen is no longer what the last run left.    *)
Touched == kept' = FALSE /\ watch' = [watch EXCEPT !.kept = FALSE]

(* Seeded fault: nobody looks at the lock.                                 *)
LockIsFreeAlways == TRUE

LockIsFree == lock = None

(* A run that finds the lock taken exits without a trace.                  *)
Start(r) ==
  /\ run[r].step = "idle"
  /\ \E by \in {"cron", "hand"} : \E force \in Forces :
       LET settings == IF by = "cron" THEN ScheduledSettings ELSE PrintedSettings IN
       /\ by = "cron" => Scheduled /\ ~force
       /\ IF ~settings.host
          THEN /\ log' = "error"
               /\ UNCHANGED <<lock, run>>
          ELSE /\ LockIsFree
               /\ lock' = r
               /\ run' = [run EXCEPT ![r] = [NoJob EXCEPT
                                  !.step = "existing", !.stamp = today,
                                  !.force = force, !.settings = settings]]
               /\ UNCHANGED log
  /\ Touched
  /\ UNCHANGED <<world, files>>

(* Seeded fault: a generation of the day is made again.                    *)
ExistingIsRemade(r) ==
  /\ run[r].step = "existing"
  /\ Goto(r, IF run[r].kind = "daily" THEN "snapshot" ELSE "archive")
  /\ UNCHANGED <<world, files, lock, log, watch, kept>>

(* A generation that is there is verified and kept, one that is incomplete *)
(* is never overwritten.                                                   *)
Existing(r) ==
  /\ run[r].step = "existing"
  /\ LET g == Mine(r) IN
     IF ~Started(g)
     THEN Goto(r, IF run[r].kind = "daily" THEN "snapshot" ELSE "archive") /\ UNCHANGED <<lock, log>>
     ELSE IF Verified(g) /\ g.archive # Torn
     THEN Goto(r, "upload") /\ UNCHANGED <<lock, log>>
     ELSE Die(r)
  /\ UNCHANGED <<world, files, watch, kept>>

(* The online backup restarts when the source is written, so what it       *)
(* copies is one state of the store.                                       *)
Snapshot(r) ==
  /\ run[r].step = "snapshot"
  /\ LET db == run[r].settings.db IN
     run' = [run EXCEPT ![r] =
       [@ EXCEPT !.step = "archive", !.snapshot = [db |-> db, records |-> records[db]]]]
  /\ UNCHANGED <<world, files, lock, log, watch, kept>>

(* The database a weekly generation is made of: the snapshot, or the daily *)
(* archive of the same date unpacked.                                      *)
SnapshotDb(r) ==
  IF run[r].snapshot # None THEN run[r].snapshot ELSE local["daily"][run[r].stamp].archive

(* It is there, unpacks, and passes PRAGMA integrity_check.                *)
IsSound(contents) == contents \notin {Torn, None}

(* The archive appears under its name in one step: a rename or a link.     *)
MakeArchive(r) ==
  LET daily == local["daily"][run[r].stamp] IN
  /\ run[r].step = "archive"
  /\ IF run[r].kind = "portable" /\ ~IsSound(SnapshotDb(r))
     THEN Die(r) /\ UNCHANGED local
     ELSE /\ Put(run[r].kind, run[r].stamp,
               [Mine(r) EXCEPT
                  !.archive = IF run[r].kind = "weekly" THEN daily.archive ELSE SnapshotDb(r),
                  !.written = IF run[r].kind = "weekly" THEN daily.written ELSE today])
          /\ Goto(r, "sum")
          /\ UNCHANGED <<lock, log>>
  /\ UNCHANGED <<world, remote, watch, kept>>

MakeSum(r) ==
  /\ run[r].step = "sum"
  /\ Put(run[r].kind, run[r].stamp, [Mine(r) EXCEPT !.sum = Mine(r).archive])
  /\ Goto(r, "meta")
  /\ UNCHANGED <<world, remote, lock, log, watch, kept>>

(* The metadata records the digest of the archive, the count of the        *)
(* database that was verified and the path the run was configured with;    *)
(* then checksum and metadata are verified against the archive.            *)
MakeMeta(r) ==
  LET made == [Mine(r) EXCEPT !.meta =
                 [digest  |-> Mine(r).archive, records |-> SnapshotDb(r).records,
                  db      |-> run[r].settings.db]]
  IN
  /\ run[r].step = "meta"
  /\ IF ~IsSound(SnapshotDb(r))
     THEN Die(r) /\ UNCHANGED local
     ELSE /\ Put(run[r].kind, run[r].stamp, made)
          /\ IF Verified(made) /\ (run[r].kind = "weekly" => made.archive # Torn)
             THEN Goto(r, "upload") /\ UNCHANGED <<lock, log>>
             ELSE Die(r)
  /\ UNCHANGED <<world, remote, watch, kept>>

Upload(r) ==
  /\ run[r].step = "upload"
  /\ Copy(run[r].settings.root, run[r].kind, run[r].stamp, Mine(r))
  /\ Goto(r, "confirm")
  /\ UNCHANGED <<world, local, lock, log, watch, kept>>

WeeklyDue(r) == run[r].stamp \in Sundays \/ run[r].force

(* sha256sum -c on the remote host, then the next generation.              *)
Confirm(r) ==
  LET g == remote[run[r].settings.root][run[r].kind][run[r].stamp]
      next == CASE run[r].kind = "daily" /\ WeeklyDue(r) -> "weekly"
                [] run[r].kind = "weekly" -> "portable"
                [] OTHER -> None
  IN
  /\ run[r].step = "confirm"
  /\ IF g.archive = None \/ g.sum # g.archive
     THEN Die(r)
     ELSE /\ run' = [run EXCEPT ![r] =
               IF next = None THEN [@ EXCEPT !.step = "prune"]
               ELSE [@ EXCEPT !.step = "existing", !.kind = next]]
          /\ UNCHANGED <<lock, log>>
  /\ UNCHANGED <<world, files, watch, kept>>

PruneLocal(r) ==
  /\ run[r].step = "prune"
  /\ local' = [k \in Kind |->
       Pruned(local[k], IF k = "daily" THEN LocalDailyKeep ELSE WeeklyKeep)]
  /\ Goto(r, "prune_remote")
  /\ UNCHANGED <<world, remote, lock, log, watch, kept>>

(* The run is over; what it leaves is the day's generation, here and on    *)
(* the remote host.                                                        *)
PruneRemote(r) ==
  /\ run[r].step = "prune_remote"
  /\ LET root == run[r].settings.root IN
     remote' = [remote EXCEPT ![root] = [k \in Kind |->
       Pruned(remote[root][k], IF k = "daily" THEN RemoteDailyKeep ELSE WeeklyKeep)]]
  /\ Leave(r)
  /\ log' = "success"
  /\ kept' = (/\ run[r].stamp = today
              /\ run[r].settings = ScheduledSettings
              /\ local["daily"][today].meta # None
              /\ local["daily"][today].meta.db = ScheduledSettings.db)
  /\ UNCHANGED <<world, local, watch>>

(* A run is cut short: a command fails, which the ERR trap reports, or the *)
(* process is killed, which nobody does.  A copy that was under way leaves *)
(* a torn archive, an `rm` of three files the sidecars without their       *)
(* archive, an rsync the archive without its sidecars or, with --partial   *)
(* and unless the archive was there already, as much of it as had come.    *)
CutShort(r) ==
  /\ run[r].step # "idle"
  /\ faults < MaxFaults
  /\ faults' = faults + 1
  /\ Leave(r)
  /\ log' \in {log, "error"}
  /\ \/ UNCHANGED files
     \/ /\ run[r].step = "archive" /\ run[r].kind = "weekly"
        /\ Put("weekly", run[r].stamp, [Mine(r) EXCEPT !.archive = Torn, !.written = today])
        /\ UNCHANGED remote
     \/ /\ run[r].step = "prune"
        /\ \E d \in Expired(local["daily"], LocalDailyKeep) :
             Put("daily", d, [local["daily"][d] EXCEPT !.archive = None, !.written = None])
        /\ UNCHANGED remote
     \/ /\ run[r].step = "upload"
        /\ LET root == run[r].settings.root
               there == remote[root][run[r].kind][run[r].stamp]
           IN \E contents \in {Mine(r).archive, Torn} :
                /\ contents # Mine(r).archive => Mine(r).archive \notin {None, there.archive}
                /\ Copy(root, run[r].kind, run[r].stamp,
                        [there EXCEPT !.archive = contents, !.written = Mine(r).written])
        /\ UNCHANGED local
  /\ Touched
  /\ UNCHANGED <<today, crontab, records>>

JobNext(r) ==
  \/ Start(r) \/ Existing(r) \/ Snapshot(r) \/ MakeArchive(r) \/ MakeSum(r)
  \/ MakeMeta(r) \/ Upload(r) \/ Confirm(r)
  \/ PruneLocal(r) \/ PruneRemote(r) \/ CutShort(r)

-----------------------------------------------------------------------------
(* The watchdog.                                                           *)

Look(step, failed, warned) ==
  watch' = [watch EXCEPT !.step = step, !.failed = @ \cup failed, !.warned = @ \/ warned]

If(c, check) == IF c THEN {check} ELSE {}

(* Configuration, schedule, and the newest daily archive: without one the  *)
(* checks that need an archive are left out.                               *)
BeginCheck ==
  LET started == [NoWatch EXCEPT !.settings = WatchSettings, !.began = today, !.kept = kept,
                                 !.failed = If(~Scheduled, "schedule")]
  IN
  /\ watch.step = "idle"
  /\ \/ /\ Newest(local["daily"]) = {}
        /\ watch' = [started EXCEPT !.step = "rest", !.failed = @ \cup {"daily"}]
     \/ \E d \in Newest(local["daily"]) :
          watch' = [started EXCEPT
            !.step = "checksum", !.artifact = d,
            !.failed = @ \cup If(today - local["daily"][d].written > DailyMaxAge, "daily")]
  /\ UNCHANGED <<world, files, job, kept>>

Artifact == local["daily"][watch.artifact]

(* Seeded fault: the recorded digest is taken for the digest of the file.  *)
CheckChecksumOnPaper ==
  /\ watch.step = "checksum"
  /\ IF Artifact.sum = None THEN Look("metadata", {"checksum"}, FALSE)
     ELSE watch' = [watch EXCEPT !.step = "metadata", !.digest = Artifact.sum]
  /\ UNCHANGED <<world, files, job, kept>>

(* A file that went while it was looked at ends the program.               *)
CheckChecksum ==
  /\ watch.step = "checksum"
  /\ IF Artifact.sum = None THEN Look("metadata", {"checksum"}, FALSE)
     ELSE IF Artifact.archive = None THEN watch' = NoWatch
     ELSE watch' = [watch EXCEPT !.step = "metadata", !.digest = Artifact.archive,
                       !.failed = @ \cup If(Artifact.sum # Artifact.archive, "checksum")]
  /\ UNCHANGED <<world, files, job, kept>>

LiveCount == records[watch.settings.db]

Drift == IF LiveCount > Artifact.meta.records THEN LiveCount - Artifact.meta.records
         ELSE Artifact.meta.records - LiveCount

(* check_source_store and check_record_count, on one read of the metadata. *)
CheckMetadata ==
  /\ watch.step = "metadata"
  /\ \E readable \in BOOLEAN :
       IF Artifact.meta = None THEN Look("remote", {"source", "count"}, FALSE)
       ELSE Look("remote",
                 If(Artifact.meta.db # watch.settings.db, "source")
                   \cup If(readable /\ Drift > FailDrift, "count"),
                 ~readable \/ Drift > WarnDrift)
  /\ UNCHANGED <<world, files, job, kept>>

(* What ssh finds under the name of the artifact.                          *)
RemoteCopy == remote[watch.settings.root]["daily"][watch.artifact].archive

(* The host may not answer, or the probe may be skipped by request.        *)
CheckRemote ==
  /\ watch.step = "remote"
  /\ \E reachable \in BOOLEAN :
       IF ~reachable \/ ~watch.settings.host THEN Look("rest", {}, TRUE)
       ELSE IF RemoteCopy = None THEN Look("rest", {"remote"}, FALSE)
       ELSE IF watch.digest = None THEN Look("rest", {}, TRUE)
       ELSE Look("rest", If(RemoteCopy # watch.digest, "remote"), FALSE)
  /\ UNCHANGED <<world, files, job, kept>>

(* The newest portable export, and the last decisive line of the log.      *)
ExportIsStale ==
  \A d \in Newest(local["portable"]) : watch.began - local["portable"][d].written > WeeklyMaxAge

Failed == watch.failed \cup If(ExportIsStale, "weekly") \cup If(log = "error", "log")
Warned == watch.warned \/ log = None

(* The worst of the results.  A failure, and nothing else, leaves the      *)
(* alert file behind and makes the exit code 1.                            *)
Verdict == IF Failed # {} THEN "FAIL" ELSE IF Warned THEN "WARN" ELSE "PASS"

Conclude ==
  /\ watch.step = "rest"
  /\ watch' = NoWatch
  /\ UNCHANGED <<world, files, job, kept>>

Watchdog == BeginCheck \/ CheckChecksum \/ CheckMetadata \/ CheckRemote \/ Conclude

-----------------------------------------------------------------------------
(* The world around them.                                                  *)

(* Clients store memories.                                                 *)
Write ==
  /\ records[InUse] < MaxRecords
  /\ records' = [records EXCEPT ![InUse] = @ + 1]
  /\ UNCHANGED <<today, crontab, faults, files, job, watch, kept>>

NextDay ==
  /\ today < LastDay
  /\ today' = today + 1
  /\ Touched
  /\ UNCHANGED <<crontab, records, faults, files, job>>

(* Between runs and checks a disk damages a daily archive or the remote    *)
(* host loses one.                                                         *)
Damage ==
  /\ watch.step = "idle" /\ lock = None
  /\ faults < MaxFaults
  /\ faults' = faults + 1
  /\ \/ \E d \in Archives(local["daily"]) :
          /\ Put("daily", d, [local["daily"][d] EXCEPT !.archive = Torn])
          /\ UNCHANGED remote
     \/ \E t \in Root : \E d \in Archives(remote[t]["daily"]) :
          /\ Copy(t, "daily", d, NoGeneration)
          /\ UNCHANGED local
  /\ Touched
  /\ UNCHANGED <<today, crontab, records, job>>

Next ==
  \/ \E r \in Run : JobNext(r)
  \/ Watchdog
  \/ Write \/ NextDay \/ Damage

Spec == Init /\ [][Next]_vars

-----------------------------------------------------------------------------
(* Properties.                                                             *)

(* A generation with all its parts is what its sidecars say, unless a disk *)
(* has damaged it since: two runs never write into one generation, and a   *)
(* run that was cut short leaves none that looks finished.                 *)
SealedGenerationsVerify ==
  \A k \in Kind, d \in Day : LET g == local[k][d] IN
    Complete(g) /\ g.archive # Torn => Verified(g) /\ g.meta.records = g.archive.records

(* A date names one snapshot: an archive that the remote host holds whole  *)
(* under a name is the one this machine holds under it, unless that was    *)
(* damaged, however often runs of the day were cut short, repeated and     *)
(* uploaded.                                                               *)
ADateNamesOneSnapshot ==
  \A t \in Root, k \in Kind, d \in Day :
    {local[k][d].archive, remote[t][k][d].archive} \cap {None, Torn} = {}
      => local[k][d].archive = remote[t][k][d].archive

(* There is a fresh copy of the database the watchdog calls live, sound    *)
(* here and on the remote host.                                            *)
Recoverable(settings) ==
  \E d \in Day : LET g == local["daily"][d] IN
    /\ Verified(g)
    /\ g.meta.db = settings.db
    /\ watch.began - g.written <= DailyMaxAge
    /\ \E t \in Root : remote[t]["daily"][d].archive = g.archive

(* A later run has meanwhile taken another database, and may have pruned   *)
(* the generation the check has looked at.                                 *)
TakenOver(settings) ==
  \E d \in Day : LET g == local["daily"][d] IN
    d > watch.artifact /\ Verified(g) /\ g.meta.db # settings.db

(* A check that passes is right about the day it was started, although the *)
(* job, its pruning and its crashes went on while it looked from one place *)
(* to the next.                                                            *)
PassMeansRecoverable ==
  [][Conclude /\ Verdict = "PASS"
       => Recoverable(watch.settings) \/ TakenOver(watch.settings)]_vars

(* What the environment of the watchdog assigns is what the crontab does.  *)
Aligned == Over(Environment, ScheduledSettings) = ScheduledSettings

(* After a run under the settings of the crontab has completed, a check of *)
(* the same day finds nothing wrong with what the run leaves: it looks     *)
(* where the run wrote, the pruning spared it and the log says so.         *)
CompletedRunIsHealthy ==
  [][Conclude /\ watch.kept /\ Aligned
       => Failed \subseteq {"weekly", "count", "schedule"}]_vars

-----------------------------------------------------------------------------
(* Why a sealed generation verifies: the one run there is writes only into *)
(* the generations of its date, which it found untouched, and it writes    *)
(* them all from one snapshot.                                             *)
Making(r) == run[r].step \in {"archive", "sum", "meta"}

DailyIsMade(r) ==
  \/ run[r].kind = "daily" /\ run[r].step \in {"sum", "meta", "upload", "confirm"}
  \/ run[r].kind # "daily" /\ run[r].step \in {"existing", "archive", "sum", "meta",
                                               "upload", "confirm"}

RunFits(r) ==
  /\ run[r].kind = "daily" /\ run[r].step \in {"existing", "snapshot"} => run[r].snapshot = None
  /\ run[r].kind = "daily" /\ Making(r) => run[r].snapshot # None
  /\ DailyIsMade(r) /\ run[r].snapshot # None =>
       local["daily"][run[r].stamp].archive = run[r].snapshot
  /\ run[r].step = "snapshot" => run[r].kind = "daily"
  /\ run[r].step \in {"snapshot", "archive"} => ~Started(Mine(r))
  /\ run[r].step \in {"sum", "meta"} => Mine(r).archive = SnapshotDb(r) /\ Mine(r).meta = None
  /\ run[r].step = "sum" => Mine(r).sum = None
  /\ run[r].step = "meta" => Mine(r).sum = Mine(r).archive

(* Why a date names one snapshot: what is under way has the latest date    *)
(* there is, so it is not pruned, and what was pruned here and not there   *)
(* is older and never made again.                                          *)
DatesFit(latest) ==
  /\ \A k \in Kind, d \in Day : Started(local[k][d]) => d <= latest
  /\ \A t \in Root, k \in Kind, d \in Day : remote[t][k][d].archive # None =>
       d <= latest /\ (Started(local[k][d]) \/ d < latest)

BackupInv ==
  /\ SealedGenerationsVerify
  /\ ADateNamesOneSnapshot
  /\ DatesFit(today)
  /\ \A r \in Run : run[r].step # "idle" =>
       run[r].stamp <= today /\ DatesFit(run[r].stamp) /\ RunFits(r)

-----------------------------------------------------------------------------
(* Why a check can be trusted: what it has seen is kept, or a later date   *)
(* has a generation that is as good and was written since it began.        *)

(* Later dates are written later, on no day but the date or one after it.  *)
InOrder ==
  /\ \A d \in Archives(local["daily"]) :
       LET day == local["daily"][d].written IN day \in Day /\ d <= day /\ day <= today
  /\ \A d, e \in Archives(local["daily"]) :
       d < e => local["daily"][d].written <= local["daily"][e].written
  /\ \A d \in Day : local["daily"][d].sum # Torn

IsCopied(d) ==
  \E t \in Root : remote[t]["daily"][d].archive = local["daily"][d].archive

Stored(d) == Verified(local["daily"][d]) /\ IsCopied(d)

(* From its upload on, a run holds a sound daily generation of its date,   *)
(* and once that is confirmed a copy of it.                                *)
DailyIsSafe(r) ==
  LET g == local["daily"][run[r].stamp]
      daily == run[r].kind = "daily"
      copied == remote[run[r].settings.root]["daily"][run[r].stamp].archive = g.archive
  IN
  /\ run[r].snapshot # Torn
  /\ daily /\ run[r].step \in {"upload", "confirm"} => Verified(g)
  /\ daily /\ run[r].step = "confirm" => copied
  /\ ~daily \/ run[r].step \in {"prune", "prune_remote"} => Verified(g) /\ copied

(* What a check that has found no fault so far has seen of its artifact.   *)
Seen ==
  LET g == local["daily"][watch.artifact] IN
  /\ g.archive # None
  /\ watch.began - g.written <= DailyMaxAge
  /\ watch.step \in {"metadata", "remote", "rest"} =>
       g.archive = watch.digest /\ g.sum = watch.digest
  /\ watch.step \in {"remote", "rest"} => g.meta # None /\ g.meta.db = watch.settings.db
  /\ watch.step = "rest" => IsCopied(watch.artifact)

Replaced == \E d \in Day : d > watch.artifact /\ Stored(d)

CheckFits ==
  /\ watch.began <= today
  /\ watch.artifact = None => "daily" \in watch.failed
  /\ watch.artifact # None =>
       /\ \A d \in Archives(local["daily"]) :
            d > watch.artifact => local["daily"][d].written >= watch.began
       /\ watch.failed = {} /\ ~watch.warned => Seen \/ Replaced

(* What a completed run has left, and what the check has made of it.       *)
KeptFits ==
  LET g == local["daily"][today] IN
  /\ lock = None /\ log = "success"
  /\ Verified(g) /\ g.meta.db = ScheduledSettings.db
  /\ remote[ScheduledSettings.root]["daily"][today].archive = g.archive

CheckOfKeptFits ==
  /\ kept
  /\ watch.settings = WatchSettings /\ watch.artifact = today
  /\ Aligned => watch.failed \subseteq {"schedule", "count"}
  /\ watch.step \in {"metadata", "remote"} => watch.digest = local["daily"][today].archive

HealthInv ==
  /\ InOrder
  /\ \A r \in Run : run[r].step # "idle" => DailyIsSafe(r)
  /\ watch.step # "idle" => CheckFits
  /\ kept => KeptFits
  /\ watch.kept => watch.step # "idle" /\ CheckOfKeptFits
=============================================================================
