---------------------------- MODULE Backup_proofs ----------------------------
(***************************************************************************)
(* Proofs about the nightly job: for any number of runs, days, databases   *)
(* and remote directories, any retention of at least one generation, and   *)
(* wherever runs fail or are killed, a generation with all its parts is    *)
(* what its sidecars say, and a date names one snapshot here and on the    *)
(* remote host.                                                            *)
(***************************************************************************)
EXTENDS Backup, FiniteSetTheorems, TLAPS

Archive == Content \cup {None}

LEMMA NothingIsNone ==
  /\ None \notin Content /\ None \notin Meta /\ None \notin Run /\ None \notin Day
  /\ None \notin Database /\ None \notin Root
  /\ Torn \in Content /\ Torn \notin [db : Database, records : 0 .. MaxRecords]
BY NoneIsNothing DEF Content

LEMMA DaysAreNumbers ==
  /\ Day \subseteq Int /\ LastDay \in Int /\ 1 \in Day
  /\ \A d \in Day : d < LastDay => d + 1 \in Day
BY BackupAssumption DEF Day

LEMMA DaysAreOrdered ==
  /\ \A d \in Day : d <= d /\ ~(d < d)
  /\ \A d, e \in Day : d <= e /\ e <= d => d = e
  /\ \A d, e \in Day : d <= e <=> d < e \/ d = e
  /\ \A d, e \in Day : ~(d <= e) <=> e < d
  /\ \A d, e, f \in Day : d <= e /\ e <= f => d <= f
BY DaysAreNumbers

LEMMA CountsFit ==
  MaxRecords \in Nat /\ MaxFaults \in Nat /\ InUse \in Database
  /\ LocalDailyKeep \in Nat \ {0} /\ RemoteDailyKeep \in Nat \ {0} /\ WeeklyKeep \in Nat \ {0}
BY BackupAssumption

LEMMA NoGenerationFits ==
  /\ NoGeneration \in Generation
  /\ NoGeneration.archive = None /\ NoGeneration.sum = None /\ NoGeneration.meta = None
  /\ ~ Started(NoGeneration)
BY DEF NoGeneration, Generation, Started

LEMMA NoJobFits ==
  NoJob \in Job /\ NoJob.step = "idle" /\ NoJob.kind = "daily" /\ NoJob.snapshot = None
BY BackupAssumption, DaysAreNumbers DEF NoJob, Job, JobSteps, Kind

LEMMA NoWatchFits == NoWatch \in Watch /\ NoWatch.step = "idle"
BY BackupAssumption, DaysAreNumbers DEF NoWatch, Watch, WatchSteps

(* The parts of the type invariant.                                        *)
WorldTypes ==
  /\ today \in Day
  /\ crontab \in Crontabs
  /\ records \in [Database -> 0 .. MaxRecords]
  /\ faults \in 0 .. MaxFaults

FileTypes ==
  /\ local \in [Kind -> [Day -> Generation]]
  /\ remote \in [Root -> [Kind -> [Day -> Generation]]]

JobTypes ==
  /\ lock \in Run \cup {None}
  /\ run \in [Run -> Job]
  /\ \A r \in Run : run[r].step # "idle" => lock = r
  /\ log \in {"success", "error", None}
  /\ kept \in BOOLEAN

WatchTypes ==
  /\ watch \in Watch
  /\ watch.step \in {"checksum", "metadata", "remote"} => watch.artifact \in Day

LEMMA TypeParts == TypeOK <=> WorldTypes /\ FileTypes /\ JobTypes /\ WatchTypes
BY DEF TypeOK, WorldTypes, FileTypes, JobTypes, WatchTypes

LEMMA TypePartsNext == TypeOK' <=> WorldTypes' /\ FileTypes' /\ JobTypes' /\ WatchTypes'
BY DEF TypeOK, WorldTypes, FileTypes, JobTypes, WatchTypes

LEMMA OverIsSettings ==
  ASSUME NEW source \in Assigned \cup {None}, NEW settings \in Settings
  PROVE  Over(source, settings) \in Settings
BY DEF Over, Assigned, Settings

LEMMA ConfigurationsFit ==
  ASSUME WorldTypes
  PROVE  /\ ScheduledSettings \in Settings /\ WatchSettings \in Settings
         /\ PrintedSettings \in Settings
<1>1. crontab \in Assigned \cup {None} /\ Environment \in Assigned /\ DefaultSettings \in Settings
  BY BackupAssumption DEF WorldTypes
<1>2. ScheduledSettings \in Settings
  BY <1>1, OverIsSettings DEF ScheduledSettings
<1>3. WatchSettings \in Settings
  BY <1>1, <1>2, OverIsSettings DEF WatchSettings
<1>4. PrintedSettings \in Settings
  BY <1>1, <1>3 DEF PrintedSettings, Settings
<1> QED
  BY <1>2, <1>3, <1>4

-----------------------------------------------------------------------------
(* What a step does to the files.                                          *)

LEMMA PutIsLocal ==
  ASSUME FileTypes, NEW k \in Kind, NEW d \in Day, NEW g \in Generation, Put(k, d, g)
  PROVE  /\ local' \in [Kind -> [Day -> Generation]]
         /\ local'[k][d] = g
         /\ \A j \in Kind, e \in Day : j # k \/ e # d => local'[j][e] = local[j][e]
<1>1. local \in [Kind -> [Day -> Generation]] /\ local[k] \in [Day -> Generation]
  BY DEF FileTypes
<1>2. [local[k] EXCEPT ![d] = g] \in [Day -> Generation]
  BY <1>1
<1>3. local' = [local EXCEPT ![k] = [local[k] EXCEPT ![d] = g]]
  BY DEF Put
<1> QED
  BY <1>1, <1>2, <1>3

LEMMA CopyIsRemote ==
  ASSUME FileTypes, NEW t \in Root, NEW k \in Kind, NEW d \in Day, NEW g \in Generation,
         Copy(t, k, d, g)
  PROVE  /\ remote' \in [Root -> [Kind -> [Day -> Generation]]]
         /\ remote'[t][k][d] = g
         /\ \A u \in Root, j \in Kind, e \in Day :
              u # t \/ j # k \/ e # d => remote'[u][j][e] = remote[u][j][e]
<1>1. /\ remote \in [Root -> [Kind -> [Day -> Generation]]]
      /\ remote[t] \in [Kind -> [Day -> Generation]] /\ remote[t][k] \in [Day -> Generation]
  BY DEF FileTypes
<1>2. [remote[t][k] EXCEPT ![d] = g] \in [Day -> Generation]
  BY <1>1
<1>3. [remote[t] EXCEPT ![k] = [remote[t][k] EXCEPT ![d] = g]] \in [Kind -> [Day -> Generation]]
  BY <1>1, <1>2
<1>4. remote' = [remote EXCEPT ![t] = [remote[t] EXCEPT ![k] = [remote[t][k] EXCEPT ![d] = g]]]
  BY DEF Copy
<1>5. remote'[t] = [remote[t] EXCEPT ![k] = [remote[t][k] EXCEPT ![d] = g]]
  BY <1>1, <1>4
<1>6. remote' \in [Root -> [Kind -> [Day -> Generation]]]
  BY <1>1, <1>3, <1>4
<1>7. remote'[t][k][d] = g
  BY <1>1, <1>5
<1>8. \A j \in Kind, e \in Day : j # k \/ e # d => remote'[t][j][e] = remote[t][j][e]
  BY <1>1, <1>5
<1>9. \A u \in Root \ {t} : remote'[u] = remote[u]
  BY <1>1, <1>4
<1> QED
  BY <1>6, <1>7, <1>8, <1>9

(* What is pruned is older than something that stays.                      *)
LEMMA ExpiredIsOld ==
  ASSUME NEW gens \in [Day -> Generation], NEW keep \in Nat \ {0},
         NEW d \in Expired(gens, keep)
  PROVE  d \in Day /\ \E e \in Day : e > d /\ Started(gens[e]) /\ gens[e].archive # None
<1> DEFINE later == {e \in Archives(gens) : e > d}
<1>1. Cardinality(later) >= keep /\ d \in Day
  BY DEF Expired, Archives
<1>2. later # {}
  BY <1>1, FS_EmptySet
<1> QED
  BY <1>1, <1>2 DEF Archives, Started

LEMMA PrunedFits ==
  ASSUME NEW gens \in [Day -> Generation], NEW keep \in Nat \ {0}
  PROVE  /\ Pruned(gens, keep) \in [Day -> Generation]
         /\ \A d \in Day :
              \/ Pruned(gens, keep)[d] = gens[d]
              \/ /\ Pruned(gens, keep)[d] = NoGeneration
                 /\ \E e \in Day : e > d /\ Started(gens[e]) /\ gens[e].archive # None
BY ExpiredIsOld, NoGenerationFits DEF Pruned

-----------------------------------------------------------------------------
(* Types.                                                                  *)

LEMMA JobFields ==
  ASSUME FileTypes, JobTypes, NEW p \in Run
  PROVE  /\ run[p] \in Job
         /\ run[p].step \in JobSteps /\ run[p].kind \in Kind /\ run[p].stamp \in Day
         /\ run[p].settings \in Settings /\ run[p].snapshot \in Archive
         /\ run[p].settings.db \in Database /\ run[p].settings.root \in Root
         /\ Mine(p) \in Generation /\ SnapshotDb(p) \in Archive
         /\ local["daily"][run[p].stamp] \in Generation
         /\ remote[run[p].settings.root][run[p].kind][run[p].stamp] \in Generation
<1>1. /\ run[p] \in Job
      /\ run[p].step \in JobSteps /\ run[p].kind \in Kind /\ run[p].stamp \in Day
      /\ run[p].settings \in Settings /\ run[p].snapshot \in Archive
  BY DEF JobTypes, Job, Archive
<1>2. run[p].settings.db \in Database /\ run[p].settings.root \in Root
  BY <1>1 DEF Settings
<1>3. local["daily"][run[p].stamp] \in Generation /\ Mine(p) \in Generation
  BY <1>1 DEF FileTypes, Mine, Kind
<1>4. SnapshotDb(p) \in Archive
  BY <1>1, <1>3 DEF SnapshotDb, Generation, Archive
<1>5. remote[run[p].settings.root][run[p].kind][run[p].stamp] \in Generation
  BY <1>1, <1>2 DEF FileTypes
<1> QED
  BY <1>1, <1>2, <1>3, <1>4, <1>5

LEMMA NobodyElse ==
  ASSUME JobTypes, NEW p \in Run, run[p].step # "idle"
  PROVE  lock = p /\ \A q \in Run \ {p} : run[q].step = "idle"
BY DEF JobTypes

LEMMA JobGoesOn ==
  ASSUME JobTypes, NEW p \in Run, run[p].step # "idle",
         NEW j \in Job, j.step # "idle", run' = [run EXCEPT ![p] = j],
         lock' = lock, log' = log, kept' = kept
  PROVE  JobTypes' /\ run'[p] = j /\ \A q \in Run \ {p} : run'[q].step = "idle"
BY NobodyElse DEF JobTypes

LEMMA JobGoesTo ==
  ASSUME JobTypes, NEW p \in Run, run[p].step # "idle",
         NEW step \in JobSteps \ {"idle"}, Goto(p, step),
         lock' = lock, log' = log, kept' = kept
  PROVE  /\ JobTypes' /\ run'[p].step = step
         /\ run'[p].kind = run[p].kind /\ run'[p].stamp = run[p].stamp
         /\ run'[p].snapshot = run[p].snapshot /\ run'[p].settings = run[p].settings
         /\ \A q \in Run \ {p} : run'[q].step = "idle"
<1>1. run[p] \in Job
  BY DEF JobTypes
<1>2. PICK j \in Job : j = [run[p] EXCEPT !.step = step]
  BY <1>1 DEF Job
<1>3. run' = [run EXCEPT ![p] = j]
  BY <1>2 DEF Goto
<1>4. /\ j.step = step /\ j.kind = run[p].kind /\ j.stamp = run[p].stamp
      /\ j.snapshot = run[p].snapshot /\ j.settings = run[p].settings
  BY <1>1, <1>2 DEF Job
<1> QED
  BY <1>3, <1>4, JobGoesOn

LEMMA JobLeaves ==
  ASSUME JobTypes, NEW p \in Run, run[p].step # "idle", Leave(p),
         log' \in {"success", "error", None}, kept' \in BOOLEAN
  PROVE  JobTypes' /\ \A q \in Run : run'[q].step = "idle"
BY NobodyElse, NoJobFits DEF JobTypes, Leave

LEMMA TouchedFits ==
  ASSUME WatchTypes, Touched
  PROVE  WatchTypes' /\ kept' \in BOOLEAN
<1>1. watch' = [watch EXCEPT !.kept = FALSE] /\ kept' = FALSE
  BY DEF Touched
<1>2. watch' \in Watch /\ watch'.step = watch.step /\ watch'.artifact = watch.artifact
  BY <1>1 DEF WatchTypes, Watch
<1> QED
  BY <1>1, <1>2 DEF WatchTypes

-----------------------------------------------------------------------------
(* What keeps the generations right.                                       *)

LEMMA NothingTouched ==
  ASSUME BackupInv, UNCHANGED <<files, run, today>>
  PROVE  BackupInv'
<1>1. UNCHANGED <<local, remote, run, today>>
  BY DEF files
<1>2. SealedGenerationsVerify' /\ ADateNamesOneSnapshot'
  BY <1>1 DEF BackupInv, SealedGenerationsVerify, ADateNamesOneSnapshot
<1>3. DatesFit(today)'
  BY <1>1 DEF BackupInv, DatesFit
<1>4. ASSUME NEW r \in Run, run'[r].step # "idle"
      PROVE  run'[r].stamp <= today' /\ DatesFit(run[r].stamp)' /\ RunFits(r)'
  <2>1. run[r].stamp <= today /\ DatesFit(run[r].stamp) /\ RunFits(r)
    BY <1>1, <1>4 DEF BackupInv
  <2> QED
    BY <1>1, <2>1 DEF DatesFit, RunFits, Making, DailyIsMade, Mine, SnapshotDb
<1> QED
  BY <1>1, <1>2, <1>3, <1>4 DEF BackupInv

LEMMA FilesUntouched ==
  ASSUME BackupInv, UNCHANGED files, NEW s \in Day, DatesFit(s)
  PROVE  SealedGenerationsVerify' /\ ADateNamesOneSnapshot' /\ DatesFit(s)'
BY DEF BackupInv, files, SealedGenerationsVerify, ADateNamesOneSnapshot, DatesFit

LEMMA UnderWay ==
  ASSUME BackupInv, NEW p \in Run, run[p].step # "idle"
  PROVE  /\ run[p].stamp <= today /\ DatesFit(run[p].stamp) /\ RunFits(p)
         /\ SealedGenerationsVerify /\ ADateNamesOneSnapshot
BY DEF BackupInv

(* After a step of the one run there is.                                   *)
LEMMA StepDone ==
  ASSUME WorldTypes, NEW p \in Run, NEW s \in Day, s <= today, today' = today,
         SealedGenerationsVerify', ADateNamesOneSnapshot', DatesFit(s)',
         \A q \in Run \ {p} : run'[q].step = "idle",
         run'[p].step # "idle" => run'[p].stamp = s /\ RunFits(p)'
  PROVE  BackupInv'
<1>1. DatesFit(today)'
  BY DaysAreNumbers DEF WorldTypes, DatesFit
<1>2. ASSUME NEW r \in Run, run'[r].step # "idle"
      PROVE  run'[r].stamp <= today' /\ DatesFit(run[r].stamp)' /\ RunFits(r)'
  <2>1. r = p
    BY <1>2
  <2>2. run'[p].stamp = s /\ RunFits(p)'
    BY <1>2, <2>1
  <2>3. DatesFit(run[r].stamp)'
    BY <2>1, <2>2 DEF DatesFit
  <2> QED
    BY <2>1, <2>2, <2>3
<1> QED
  BY <1>1, <1>2 DEF BackupInv

LEMMA PutFits ==
  ASSUME FileTypes, SealedGenerationsVerify, ADateNamesOneSnapshot,
         NEW k \in Kind, NEW s \in Day, NEW g \in Generation, DatesFit(s),
         Put(k, s, g), remote' = remote,
         Complete(g) /\ g.archive # Torn => Verified(g) /\ g.meta.records = g.archive.records,
         Started(local[k][s]) => Started(g) /\ g.archive = local[k][s].archive
  PROVE  SealedGenerationsVerify' /\ ADateNamesOneSnapshot' /\ DatesFit(s)'
<1>1. /\ local'[k][s] = g
      /\ \A j \in Kind, e \in Day : j # k \/ e # s => local'[j][e] = local[j][e]
  BY PutIsLocal
<1>2. SealedGenerationsVerify'
  <2> SUFFICES ASSUME NEW j \in Kind, NEW e \in Day
               PROVE  Complete(local'[j][e]) /\ local'[j][e].archive # Torn =>
                        /\ Verified(local'[j][e])
                        /\ local'[j][e].meta.records = local'[j][e].archive.records
    BY DEF SealedGenerationsVerify
  <2>1. CASE j = k /\ e = s
    BY <1>1, <2>1
  <2>2. CASE j # k \/ e # s
    BY <1>1, <2>2 DEF SealedGenerationsVerify
  <2> QED
    BY <2>1, <2>2
<1>3. \A t \in Root : remote[t][k][s].archive # None => Started(local[k][s])
  BY DaysAreNumbers DEF DatesFit
<1>4. ADateNamesOneSnapshot'
  <2> SUFFICES ASSUME NEW t \in Root, NEW j \in Kind, NEW e \in Day,
                      {local'[j][e].archive, remote[t][j][e].archive} \cap {None, Torn} = {}
               PROVE  local'[j][e].archive = remote[t][j][e].archive
    BY DEF ADateNamesOneSnapshot
  <2>1. CASE j = k /\ e = s
    BY <1>1, <1>3, <2>1, ZenonT(40) DEF ADateNamesOneSnapshot
  <2>2. CASE j # k \/ e # s
    BY <1>1, <2>2 DEF ADateNamesOneSnapshot
  <2> QED
    BY <2>1, <2>2
<1>5. DatesFit(s)'
  <2>1. \A j \in Kind, e \in Day : Started(local'[j][e]) => e <= s
    BY <1>1, DaysAreNumbers DEF DatesFit
  <2>2. ASSUME NEW t \in Root, NEW j \in Kind, NEW e \in Day, remote[t][j][e].archive # None
        PROVE  e <= s /\ (Started(local'[j][e]) \/ e < s)
    <3>1. e <= s /\ (Started(local[j][e]) \/ e < s)
      BY <2>2 DEF DatesFit
    <3>2. CASE j = k /\ e = s
      BY <1>1, <1>3, <2>2, <3>1, <3>2
    <3>3. CASE j # k \/ e # s
      BY <1>1, <3>1, <3>3
    <3> QED
      BY <3>2, <3>3
  <2> QED
    BY <2>1, <2>2 DEF DatesFit
<1> QED
  BY <1>2, <1>4, <1>5

LEMMA CopyFits ==
  ASSUME FileTypes, SealedGenerationsVerify, ADateNamesOneSnapshot,
         NEW t \in Root, NEW k \in Kind, NEW s \in Day, NEW g \in Generation, DatesFit(s),
         Copy(t, k, s, g), local' = local,
         g.archive = local[k][s].archive \/ (g.archive = Torn /\ local[k][s].archive # None)
  PROVE  SealedGenerationsVerify' /\ ADateNamesOneSnapshot' /\ DatesFit(s)'
<1>1. /\ remote'[t][k][s] = g
      /\ \A u \in Root, j \in Kind, e \in Day :
           u # t \/ j # k \/ e # s => remote'[u][j][e] = remote[u][j][e]
  BY CopyIsRemote
<1>2. SealedGenerationsVerify'
  BY DEF SealedGenerationsVerify
<1>3. ADateNamesOneSnapshot'
  <2> SUFFICES ASSUME NEW u \in Root, NEW j \in Kind, NEW e \in Day,
                      {local[j][e].archive, remote'[u][j][e].archive} \cap {None, Torn} = {}
               PROVE  local[j][e].archive = remote'[u][j][e].archive
    BY DEF ADateNamesOneSnapshot
  <2>1. CASE u = t /\ j = k /\ e = s
    BY <1>1, <2>1
  <2>2. CASE u # t \/ j # k \/ e # s
    BY <1>1, <2>2 DEF ADateNamesOneSnapshot
  <2> QED
    BY <2>1, <2>2
<1>4. g.archive # None => Started(local[k][s])
  BY DEF Started
<1>5. DatesFit(s)'
  <2>1. \A j \in Kind, e \in Day : Started(local'[j][e]) => e <= s
    BY DEF DatesFit
  <2>2. ASSUME NEW u \in Root, NEW j \in Kind, NEW e \in Day, remote'[u][j][e].archive # None
        PROVE  e <= s /\ (Started(local'[j][e]) \/ e < s)
    <3>1. CASE u = t /\ j = k /\ e = s
      BY <1>1, <1>4, <2>2, <3>1, DaysAreNumbers
    <3>2. CASE u # t \/ j # k \/ e # s
      BY <1>1, <2>2, <3>2 DEF DatesFit
    <3> QED
      BY <3>1, <3>2
  <2> QED
    BY <2>1, <2>2 DEF DatesFit
<1> QED
  BY <1>2, <1>3, <1>5

(* Pruning, damage and an unfinished archive only take away: what they     *)
(* leave has no archive, or a torn one.                                    *)
Spoils(g, h, d, s) ==
  /\ h.archive \in {None, Torn}
  /\ Started(h) => d <= s
  /\ Started(h) \/ d < s

LEMMA FilesSpoil ==
  ASSUME SealedGenerationsVerify, ADateNamesOneSnapshot, NEW s \in Day, DatesFit(s),
         \A k \in Kind, d \in Day :
           \/ local'[k][d] = local[k][d]
           \/ Spoils(local[k][d], local'[k][d], d, s),
         \A t \in Root, k \in Kind, d \in Day :
           \/ remote'[t][k][d] = remote[t][k][d]
           \/ remote'[t][k][d].archive = None
  PROVE  SealedGenerationsVerify' /\ ADateNamesOneSnapshot' /\ DatesFit(s)'
<1>1. SealedGenerationsVerify'
  BY DEF SealedGenerationsVerify, Spoils, Complete
<1>2. ADateNamesOneSnapshot'
  <2> SUFFICES ASSUME NEW t \in Root, NEW k \in Kind, NEW d \in Day,
                      {local'[k][d].archive, remote'[t][k][d].archive} \cap {None, Torn} = {}
               PROVE  local'[k][d].archive = remote'[t][k][d].archive
    BY DEF ADateNamesOneSnapshot
  <2>1. local'[k][d] = local[k][d]
    BY DEF Spoils
  <2>2. remote'[t][k][d] = remote[t][k][d]
    OBVIOUS
  <2> QED
    BY <2>1, <2>2 DEF ADateNamesOneSnapshot
<1>3. DatesFit(s)'
  BY DEF DatesFit, Spoils
<1> QED
  BY <1>1, <1>2, <1>3

-----------------------------------------------------------------------------
(* The steps of a run.                                                     *)

LEMMA StartFits ==
  ASSUME TypeOK, BackupInv, NEW p \in Run, Start(p)
  PROVE  TypeOK' /\ BackupInv'
<1>1. WorldTypes /\ FileTypes /\ JobTypes /\ WatchTypes
  BY TypeParts
<1>2. PICK by \in {"cron", "hand"}, force \in Forces, settings \in Settings :
        /\ run[p].step = "idle"
        /\ IF ~settings.host
           THEN log' = "error" /\ UNCHANGED <<lock, run>>
           ELSE /\ LockIsFree /\ lock' = p
                /\ run' = [run EXCEPT ![p] = [NoJob EXCEPT
                             !.step = "existing", !.stamp = today,
                             !.force = force, !.settings = settings]]
                /\ UNCHANGED log
  BY <1>1, ConfigurationsFit DEF Start
<1>3. Touched /\ UNCHANGED <<world, files>>
  BY DEF Start
<1>4. WorldTypes' /\ FileTypes'
  BY <1>1, <1>3 DEF WorldTypes, FileTypes, world, files
<1>5. WatchTypes' /\ kept' \in BOOLEAN
  BY <1>1, <1>3, TouchedFits
<1>6. CASE log' = "error" /\ UNCHANGED <<lock, run>>
  <2>1. JobTypes'
    BY <1>1, <1>5, <1>6 DEF JobTypes
  <2>2. BackupInv'
    BY <1>3, <1>6, NothingTouched DEF world
  <2> QED
    BY <1>4, <1>5, <2>1, <2>2, TypePartsNext
<1>7. CASE /\ LockIsFree /\ lock' = p
           /\ run' = [run EXCEPT ![p] = [NoJob EXCEPT
                        !.step = "existing", !.stamp = today,
                        !.force = force, !.settings = settings]]
           /\ UNCHANGED log
  <2>1. force \in BOOLEAN /\ today \in Day
    BY <1>1, BackupAssumption DEF WorldTypes
  <2>2. PICK j \in Job : j = [NoJob EXCEPT !.step = "existing", !.stamp = today,
                                           !.force = force, !.settings = settings]
    BY <2>1, NoJobFits DEF Job, JobSteps
  <2>3. j.step = "existing" /\ j.kind = "daily" /\ j.stamp = today /\ j.snapshot = None
    BY <2>2, NoJobFits DEF Job
  <2>4. run' = [run EXCEPT ![p] = j]
    BY <1>7, <2>2
  <2>5. /\ run' \in [Run -> Job] /\ run'[p] = j
        /\ \A q \in Run \ {p} : run'[q].step = "idle"
    BY <1>1, <1>7, <2>4, NothingIsNone DEF JobTypes, LockIsFree
  <2>6. JobTypes'
    BY <1>1, <1>5, <1>7, <2>5 DEF JobTypes
  <2>7. PICK s \in Day : s = today
    BY <2>1
  <2>8. SealedGenerationsVerify' /\ ADateNamesOneSnapshot' /\ DatesFit(s)'
    <3>1. DatesFit(s)
      BY <2>7 DEF BackupInv
    <3> QED
      BY <1>3, <3>1, FilesUntouched
  <2>9. RunFits(p)'
    BY <2>3, <2>5 DEF RunFits, Making, DailyIsMade
  <2>10. BackupInv'
    BY <1>1, <1>3, <2>3, <2>5, <2>7, <2>8, <2>9, DaysAreNumbers, StepDone DEF world
  <2> QED
    BY <1>4, <1>5, <2>6, <2>10, TypePartsNext
<1> QED
  BY <1>2, <1>6, <1>7

LEMMA ExistingFits ==
  ASSUME TypeOK, BackupInv, NEW p \in Run, Existing(p)
  PROVE  TypeOK' /\ BackupInv'
<1>1. WorldTypes /\ FileTypes /\ JobTypes /\ WatchTypes
  BY TypeParts
<1>2. /\ run[p].step = "existing" /\ run[p].step # "idle"
      /\ UNCHANGED <<world, files, watch, kept>>
  BY DEF Existing
<1>3. WorldTypes' /\ FileTypes' /\ WatchTypes'
  BY <1>1, <1>2 DEF WorldTypes, FileTypes, WatchTypes, world, files
<1>4. PICK s \in Day : s = run[p].stamp
  BY <1>1, JobFields
<1>5. s <= today /\ DatesFit(s) /\ RunFits(p) /\ run[p].kind \in Kind
  BY <1>1, <1>2, <1>4, UnderWay, JobFields
<1>6. SealedGenerationsVerify' /\ ADateNamesOneSnapshot' /\ DatesFit(s)' /\ today' = today
  BY <1>2, <1>5, FilesUntouched DEF world
<1>7. Mine(p) = local[run[p].kind][s] /\ UNCHANGED <<local, remote>>
  BY <1>2, <1>4 DEF Mine, files
<1>8. CASE ~ Started(Mine(p)) /\ UNCHANGED <<lock, log>>
           /\ Goto(p, IF run[p].kind = "daily" THEN "snapshot" ELSE "archive")
  <2>1. PICK step \in {"snapshot", "archive"} :
          step = IF run[p].kind = "daily" THEN "snapshot" ELSE "archive"
    OBVIOUS
  <2>2. /\ JobTypes' /\ run'[p].step = step /\ run'[p].kind = run[p].kind
        /\ run'[p].stamp = s /\ run'[p].snapshot = run[p].snapshot
        /\ \A q \in Run \ {p} : run'[q].step = "idle"
    BY <1>1, <1>2, <1>4, <1>8, <2>1, JobGoesTo DEF JobSteps
  <2>3. RunFits(p)'
    BY <1>2, <1>4, <1>5, <1>7, <1>8, <2>1, <2>2
    DEF RunFits, Making, DailyIsMade, Mine, SnapshotDb
  <2> QED
    BY <1>1, <1>3, <1>5, <1>6, <2>2, <2>3, StepDone, TypePartsNext
<1>9. CASE Started(Mine(p)) /\ Goto(p, "upload") /\ UNCHANGED <<lock, log>>
  <2>1. /\ JobTypes' /\ run'[p].step = "upload" /\ run'[p].kind = run[p].kind
        /\ run'[p].stamp = s /\ run'[p].snapshot = run[p].snapshot
        /\ \A q \in Run \ {p} : run'[q].step = "idle"
    BY <1>1, <1>2, <1>4, <1>9, JobGoesTo DEF JobSteps
  <2>2. RunFits(p)'
    BY <1>2, <1>4, <1>5, <1>7, <2>1 DEF RunFits, Making, DailyIsMade, Mine, SnapshotDb
  <2> QED
    BY <1>1, <1>3, <1>5, <1>6, <2>1, <2>2, StepDone, TypePartsNext
<1>10. CASE Die(p)
  <2>1. JobTypes' /\ \A q \in Run : run'[q].step = "idle"
    BY <1>1, <1>2, <1>10, JobLeaves DEF Die, JobTypes
  <2> QED
    BY <1>1, <1>3, <1>5, <1>6, <2>1, StepDone, TypePartsNext
<1> QED
  BY <1>8, <1>9, <1>10 DEF Existing

LEMMA SnapshotFits ==
  ASSUME TypeOK, BackupInv, NEW p \in Run, Snapshot(p)
  PROVE  TypeOK' /\ BackupInv'
<1>1. WorldTypes /\ FileTypes /\ JobTypes /\ WatchTypes
  BY TypeParts
<1>2. /\ run[p].step = "snapshot" /\ run[p].step # "idle"
      /\ UNCHANGED <<world, files, lock, log, watch, kept>>
  BY DEF Snapshot
<1>3. WorldTypes' /\ FileTypes' /\ WatchTypes'
  BY <1>1, <1>2 DEF WorldTypes, FileTypes, WatchTypes, world, files
<1>4. PICK s \in Day : s = run[p].stamp
  BY <1>1, JobFields
<1>5. s <= today /\ DatesFit(s) /\ RunFits(p) /\ run[p] \in Job /\ run[p].settings.db \in Database
  BY <1>1, <1>2, <1>4, UnderWay, JobFields
<1>6. SealedGenerationsVerify' /\ ADateNamesOneSnapshot' /\ DatesFit(s)' /\ today' = today
  BY <1>2, <1>5, FilesUntouched DEF world
<1>7. PICK copy \in Content :
        /\ copy = [db |-> run[p].settings.db, records |-> records[run[p].settings.db]]
        /\ run' = [run EXCEPT ![p] = [@ EXCEPT !.step = "archive", !.snapshot = copy]]
  BY <1>1, <1>5 DEF Snapshot, WorldTypes, Content
<1>8. PICK j \in Job : j = [run[p] EXCEPT !.step = "archive", !.snapshot = copy]
  BY <1>5 DEF Job, JobSteps
<1>9. /\ j.step = "archive" /\ j.kind = run[p].kind /\ j.stamp = s /\ j.snapshot = copy
      /\ run' = [run EXCEPT ![p] = j]
  BY <1>4, <1>5, <1>7, <1>8 DEF Job
<1>10. JobTypes' /\ run'[p] = j /\ \A q \in Run \ {p} : run'[q].step = "idle"
  BY <1>1, <1>2, <1>9, JobGoesOn
<1>11. RunFits(p)'
  BY <1>2, <1>4, <1>5, <1>9, <1>10, NothingIsNone
  DEF RunFits, Making, DailyIsMade, Mine, SnapshotDb, files
<1> QED
  BY <1>1, <1>3, <1>5, <1>6, <1>9, <1>10, <1>11, StepDone, TypePartsNext

LEMMA MakeArchiveFits ==
  ASSUME TypeOK, BackupInv, NEW p \in Run, MakeArchive(p)
  PROVE  TypeOK' /\ BackupInv'
<1>1. WorldTypes /\ FileTypes /\ JobTypes /\ WatchTypes
  BY TypeParts
<1>2. /\ run[p].step = "archive" /\ run[p].step # "idle"
      /\ UNCHANGED <<world, remote, watch, kept>>
  BY DEF MakeArchive
<1>3. WorldTypes' /\ WatchTypes' /\ today' = today
  BY <1>1, <1>2 DEF WorldTypes, WatchTypes, world
<1>4. PICK s \in Day, k \in Kind : s = run[p].stamp /\ k = run[p].kind
  BY <1>1, JobFields
<1>5. /\ s <= today /\ DatesFit(s) /\ RunFits(p)
      /\ SealedGenerationsVerify /\ ADateNamesOneSnapshot
      /\ Mine(p) \in Generation /\ SnapshotDb(p) \in Archive
      /\ local["daily"][s] \in Generation
  BY <1>1, <1>2, <1>4, UnderWay, JobFields
<1>6. CASE Die(p) /\ UNCHANGED local
  <2>1. JobTypes' /\ \A q \in Run : run'[q].step = "idle"
    BY <1>1, <1>2, <1>6, JobLeaves DEF Die, JobTypes
  <2>2. FileTypes' /\ UNCHANGED files
    BY <1>1, <1>2, <1>6 DEF FileTypes, files
  <2>3. SealedGenerationsVerify' /\ ADateNamesOneSnapshot' /\ DatesFit(s)'
    BY <1>5, <2>2, FilesUntouched
  <2> QED
    BY <1>1, <1>3, <1>5, <2>1, <2>2, <2>3, StepDone, TypePartsNext
<1>7. ASSUME /\ Put(run[p].kind, run[p].stamp,
                  [Mine(p) EXCEPT
                     !.archive = IF run[p].kind = "weekly" THEN local["daily"][run[p].stamp].archive
                                 ELSE SnapshotDb(p),
                     !.written = IF run[p].kind = "weekly" THEN local["daily"][run[p].stamp].written
                                 ELSE today])
             /\ Goto(p, "sum") /\ UNCHANGED <<lock, log>>
      PROVE  TypeOK' /\ BackupInv'
  <2>1. PICK made \in Archive, date \in Day \cup {None} :
          /\ made = IF k = "weekly" THEN local["daily"][s].archive ELSE SnapshotDb(p)
          /\ Put(k, s, [Mine(p) EXCEPT !.archive = made, !.written = date])
    BY <1>1, <1>4, <1>5, <1>7 DEF Generation, Archive, WorldTypes
  <2>2. PICK g \in Generation : g = [Mine(p) EXCEPT !.archive = made, !.written = date]
    BY <1>5 DEF Generation, Archive
  <2>3. /\ ~ Started(Mine(p)) /\ Mine(p) = local[k][s]
        /\ g.archive = made /\ g.sum = None /\ g.meta = None
    BY <1>2, <1>4, <1>5, <2>2 DEF RunFits, Started, Mine, Generation
  <2>4. Put(k, s, g)
    BY <2>1, <2>2
  <2>5. ~ Complete(g)
    BY <2>3 DEF Complete
  <2>6. SealedGenerationsVerify' /\ ADateNamesOneSnapshot' /\ DatesFit(s)'
    BY <1>1, <1>2, <1>5, <2>3, <2>4, <2>5, PutFits
  <2>7. /\ local' \in [Kind -> [Day -> Generation]] /\ local'[k][s] = g
        /\ \A j \in Kind, e \in Day : j # k \/ e # s => local'[j][e] = local[j][e]
    BY <1>1, <2>4, PutIsLocal
  <2>8. FileTypes'
    BY <1>1, <1>2, <2>7 DEF FileTypes
  <2>9. /\ JobTypes' /\ run'[p].step = "sum" /\ run'[p].kind = k
        /\ run'[p].stamp = s /\ run'[p].snapshot = run[p].snapshot
        /\ \A q \in Run \ {p} : run'[q].step = "idle"
    BY <1>1, <1>2, <1>4, <1>7, JobGoesTo DEF JobSteps
  <2>10. "daily" \in Kind
    BY DEF Kind
  <2>11. /\ run[p].kind = "daily" => run[p].snapshot # None
         /\ run[p].kind # "daily" /\ run[p].snapshot # None =>
              local["daily"][s].archive = run[p].snapshot
    BY <1>2, <1>4, <1>5 DEF RunFits, Making, DailyIsMade
  <2>12. SnapshotDb(p)' = made
    <3>1. CASE k = "daily"
      BY <1>4, <2>1, <2>9, <2>11, <3>1 DEF SnapshotDb
    <3>2. CASE k # "daily"
      <4>1. local'["daily"][s] = local["daily"][s]
        BY <2>7, <2>10, <3>2
      <4> QED
        BY <1>4, <2>1, <2>9, <2>11, <3>2, <4>1 DEF SnapshotDb
    <3> QED
      BY <3>1, <3>2
  <2>13. DailyIsMade(p)' /\ run'[p].snapshot # None =>
           local'["daily"][s].archive = run'[p].snapshot
    <3>1. CASE k = "daily"
      BY <1>4, <2>1, <2>3, <2>7, <2>9, <2>11, <3>1 DEF SnapshotDb
    <3>2. CASE k # "daily"
      BY <1>4, <2>7, <2>9, <2>10, <2>11, <3>2
    <3> QED
      BY <3>1, <3>2
  <2>14. Mine(p)' = g
    BY <2>7, <2>9 DEF Mine
  <2>15. RunFits(p)'
    BY <1>4, <2>3, <2>9, <2>11, <2>12, <2>13, <2>14 DEF RunFits, Making
  <2> QED
    BY <1>1, <1>3, <1>5, <2>6, <2>8, <2>9, <2>15, StepDone, TypePartsNext
<1> QED
  BY <1>6, <1>7 DEF MakeArchive

LEMMA MakeSumFits ==
  ASSUME TypeOK, BackupInv, NEW p \in Run, MakeSum(p)
  PROVE  TypeOK' /\ BackupInv'
<1>1. WorldTypes /\ FileTypes /\ JobTypes /\ WatchTypes
  BY TypeParts
<1>2. /\ run[p].step = "sum" /\ run[p].step # "idle" /\ Goto(p, "meta")
      /\ Put(run[p].kind, run[p].stamp, [Mine(p) EXCEPT !.sum = Mine(p).archive])
      /\ UNCHANGED <<world, remote, lock, log, watch, kept>>
  BY DEF MakeSum
<1>3. WorldTypes' /\ WatchTypes' /\ today' = today
  BY <1>1, <1>2 DEF WorldTypes, WatchTypes, world
<1>4. PICK s \in Day, k \in Kind : s = run[p].stamp /\ k = run[p].kind
  BY <1>1, JobFields
<1>5. /\ s <= today /\ DatesFit(s) /\ RunFits(p)
      /\ SealedGenerationsVerify /\ ADateNamesOneSnapshot
      /\ Mine(p) \in Generation
  BY <1>1, <1>2, <1>4, UnderWay, JobFields
<1>6. PICK g \in Generation : g = [Mine(p) EXCEPT !.sum = Mine(p).archive]
  BY <1>5 DEF Generation
<1>7. /\ Mine(p) = local[k][s] /\ Mine(p).meta = None /\ Mine(p).sum = None
      /\ Mine(p).archive = SnapshotDb(p)
      /\ g.archive = Mine(p).archive /\ g.sum = Mine(p).archive /\ g.meta = None
  BY <1>2, <1>4, <1>5, <1>6 DEF RunFits, Mine, Generation
<1>8. Put(k, s, g)
  BY <1>2, <1>4, <1>6
<1>9. ~ Complete(g) /\ (Started(local[k][s]) => Started(g))
  BY <1>7 DEF Complete, Started
<1>10. SealedGenerationsVerify' /\ ADateNamesOneSnapshot' /\ DatesFit(s)'
  BY <1>1, <1>2, <1>5, <1>7, <1>8, <1>9, PutFits
<1>11. /\ local' \in [Kind -> [Day -> Generation]] /\ local'[k][s] = g
       /\ \A j \in Kind, e \in Day : j # k \/ e # s => local'[j][e] = local[j][e]
  BY <1>1, <1>8, PutIsLocal
<1>12. FileTypes'
  BY <1>1, <1>2, <1>11 DEF FileTypes
<1>13. /\ JobTypes' /\ run'[p].step = "meta" /\ run'[p].kind = k
       /\ run'[p].stamp = s /\ run'[p].snapshot = run[p].snapshot
       /\ \A q \in Run \ {p} : run'[q].step = "idle"
  BY <1>1, <1>2, <1>4, JobGoesTo DEF JobSteps
<1>14. local'["daily"][s].archive = local["daily"][s].archive
  BY <1>7, <1>11 DEF Kind
<1>15. Mine(p)' = g /\ SnapshotDb(p)' = SnapshotDb(p)
  BY <1>4, <1>11, <1>13, <1>14 DEF Mine, SnapshotDb
<1>16. RunFits(p)'
  BY <1>2, <1>4, <1>5, <1>7, <1>13, <1>14, <1>15 DEF RunFits, Making, DailyIsMade
<1> QED
  BY <1>1, <1>3, <1>5, <1>10, <1>12, <1>13, <1>16, StepDone, TypePartsNext

LEMMA MakeMetaFits ==
  ASSUME TypeOK, BackupInv, NEW p \in Run, MakeMeta(p)
  PROVE  TypeOK' /\ BackupInv'
<1>1. WorldTypes /\ FileTypes /\ JobTypes /\ WatchTypes
  BY TypeParts
<1>2. /\ run[p].step = "meta" /\ run[p].step # "idle"
      /\ UNCHANGED <<world, remote, watch, kept>>
  BY DEF MakeMeta
<1>3. WorldTypes' /\ WatchTypes' /\ today' = today
  BY <1>1, <1>2 DEF WorldTypes, WatchTypes, world
<1>4. PICK s \in Day, k \in Kind : s = run[p].stamp /\ k = run[p].kind
  BY <1>1, JobFields
<1>5. /\ s <= today /\ DatesFit(s) /\ RunFits(p)
      /\ SealedGenerationsVerify /\ ADateNamesOneSnapshot
      /\ Mine(p) \in Generation /\ SnapshotDb(p) \in Archive
      /\ run[p].settings.db \in Database
  BY <1>1, <1>2, <1>4, UnderWay, JobFields
<1>6. CASE Die(p) /\ UNCHANGED local
  <2>1. JobTypes' /\ \A q \in Run : run'[q].step = "idle"
    BY <1>1, <1>2, <1>6, JobLeaves DEF Die, JobTypes
  <2>2. FileTypes' /\ UNCHANGED files
    BY <1>1, <1>2, <1>6 DEF FileTypes, files
  <2>3. SealedGenerationsVerify' /\ ADateNamesOneSnapshot' /\ DatesFit(s)'
    BY <1>5, <2>2, FilesUntouched
  <2> QED
    BY <1>1, <1>3, <1>5, <2>1, <2>2, <2>3, StepDone, TypePartsNext
<1>7. ASSUME IsSound(SnapshotDb(p)),
             Put(run[p].kind, run[p].stamp,
                 [Mine(p) EXCEPT !.meta =
                    [digest |-> Mine(p).archive, records |-> SnapshotDb(p).records,
                     db |-> run[p].settings.db]]),
             (Goto(p, "upload") /\ UNCHANGED <<lock, log>>) \/ Die(p)
      PROVE  TypeOK' /\ BackupInv'
  <2>1. /\ Mine(p) = local[k][s]
        /\ Mine(p).archive = SnapshotDb(p) /\ Mine(p).sum = SnapshotDb(p)
        /\ SnapshotDb(p) \in Content \ {Torn}
    BY <1>2, <1>4, <1>5, <1>7 DEF RunFits, Mine, IsSound, Archive
  <2>2. SnapshotDb(p).records \in 0 .. MaxRecords
    BY <2>1 DEF Content
  <2>3. PICK meta \in Meta :
          meta = [digest |-> Mine(p).archive, records |-> SnapshotDb(p).records,
                  db |-> run[p].settings.db]
    BY <1>5, <2>1, <2>2 DEF Meta
  <2>4. PICK g \in Generation : g = [Mine(p) EXCEPT !.meta = meta]
    BY <1>5 DEF Generation
  <2>5. /\ g.archive = Mine(p).archive /\ g.sum = Mine(p).archive /\ g.meta = meta
        /\ meta.digest = g.archive /\ meta.records = g.archive.records
        /\ g.archive # None /\ meta # None
    BY <1>5, <2>1, <2>3, <2>4, NothingIsNone DEF Generation
  <2>6. Put(k, s, g)
    BY <1>4, <1>7, <2>3, <2>4
  <2>7. Started(g) /\ Verified(g)
    BY <2>5 DEF Started, Verified, Complete
  <2>8. SealedGenerationsVerify' /\ ADateNamesOneSnapshot' /\ DatesFit(s)'
    BY <1>1, <1>2, <1>5, <2>1, <2>5, <2>6, <2>7, PutFits
  <2>9. /\ local' \in [Kind -> [Day -> Generation]] /\ local'[k][s] = g
        /\ \A j \in Kind, e \in Day : j # k \/ e # s => local'[j][e] = local[j][e]
    BY <1>1, <2>6, PutIsLocal
  <2>10. FileTypes'
    BY <1>1, <1>2, <2>9 DEF FileTypes
  <2>11. CASE Die(p)
    <3>1. JobTypes' /\ \A q \in Run : run'[q].step = "idle"
      BY <1>1, <1>2, <2>11, JobLeaves DEF Die, JobTypes
    <3> QED
      BY <1>1, <1>3, <1>5, <2>8, <2>10, <3>1, StepDone, TypePartsNext
  <2>12. CASE Goto(p, "upload") /\ UNCHANGED <<lock, log>>
    <3>1. /\ JobTypes' /\ run'[p].step = "upload" /\ run'[p].kind = k
          /\ run'[p].stamp = s /\ run'[p].snapshot = run[p].snapshot
          /\ \A q \in Run \ {p} : run'[q].step = "idle"
      BY <1>1, <1>2, <1>4, <2>12, JobGoesTo DEF JobSteps
    <3>2. local'["daily"][s].archive = local["daily"][s].archive
      BY <2>1, <2>5, <2>9 DEF Kind
    <3>3. RunFits(p)'
      BY <1>2, <1>4, <1>5, <3>1, <3>2 DEF RunFits, Making, DailyIsMade
    <3> QED
      BY <1>1, <1>3, <1>5, <2>8, <2>10, <3>1, <3>3, StepDone, TypePartsNext
  <2> QED
    BY <1>7, <2>11, <2>12
<1> QED
  BY <1>6, <1>7 DEF MakeMeta

LEMMA UploadFits ==
  ASSUME TypeOK, BackupInv, NEW p \in Run, Upload(p)
  PROVE  TypeOK' /\ BackupInv'
<1>1. WorldTypes /\ FileTypes /\ JobTypes /\ WatchTypes
  BY TypeParts
<1>2. /\ run[p].step = "upload" /\ run[p].step # "idle" /\ Goto(p, "confirm")
      /\ Copy(run[p].settings.root, run[p].kind, run[p].stamp, Mine(p))
      /\ UNCHANGED <<world, local, lock, log, watch, kept>>
  BY DEF Upload
<1>3. WorldTypes' /\ WatchTypes' /\ today' = today
  BY <1>1, <1>2 DEF WorldTypes, WatchTypes, world
<1>4. PICK s \in Day, k \in Kind, t \in Root, g \in Generation :
        s = run[p].stamp /\ k = run[p].kind /\ t = run[p].settings.root /\ g = Mine(p)
  BY <1>1, JobFields
<1>5. /\ s <= today /\ DatesFit(s) /\ RunFits(p)
      /\ SealedGenerationsVerify /\ ADateNamesOneSnapshot
  BY <1>1, <1>2, <1>4, UnderWay
<1>6. Copy(t, k, s, g) /\ g = local[k][s]
  BY <1>2, <1>4 DEF Mine
<1>7. SealedGenerationsVerify' /\ ADateNamesOneSnapshot' /\ DatesFit(s)'
  BY <1>1, <1>2, <1>5, <1>6, CopyFits
<1>8. FileTypes'
  BY <1>1, <1>2, <1>6, CopyIsRemote DEF FileTypes
<1>9. /\ JobTypes' /\ run'[p].step = "confirm" /\ run'[p].kind = k
      /\ run'[p].stamp = s /\ run'[p].snapshot = run[p].snapshot
      /\ \A q \in Run \ {p} : run'[q].step = "idle"
  BY <1>1, <1>2, <1>4, JobGoesTo DEF JobSteps
<1>10. RunFits(p)'
  BY <1>2, <1>4, <1>5, <1>9 DEF RunFits, Making, DailyIsMade
<1> QED
  BY <1>1, <1>3, <1>5, <1>7, <1>8, <1>9, <1>10, StepDone, TypePartsNext

LEMMA ConfirmFits ==
  ASSUME TypeOK, BackupInv, NEW p \in Run, Confirm(p)
  PROVE  TypeOK' /\ BackupInv'
<1>1. WorldTypes /\ FileTypes /\ JobTypes /\ WatchTypes
  BY TypeParts
<1>2. /\ run[p].step = "confirm" /\ run[p].step # "idle"
      /\ UNCHANGED <<world, files, watch, kept>>
  BY DEF Confirm
<1>3. WorldTypes' /\ FileTypes' /\ WatchTypes' /\ today' = today
  BY <1>1, <1>2 DEF WorldTypes, FileTypes, WatchTypes, world, files
<1>4. PICK s \in Day : s = run[p].stamp
  BY <1>1, JobFields
<1>5. /\ s <= today /\ DatesFit(s) /\ RunFits(p) /\ run[p] \in Job
  BY <1>1, <1>2, <1>4, UnderWay, JobFields
<1>6. SealedGenerationsVerify' /\ ADateNamesOneSnapshot' /\ DatesFit(s)'
  BY <1>2, <1>5, FilesUntouched
<1>7. CASE Die(p)
  <2>1. JobTypes' /\ \A q \in Run : run'[q].step = "idle"
    BY <1>1, <1>2, <1>7, JobLeaves DEF Die, JobTypes
  <2> QED
    BY <1>1, <1>3, <1>5, <1>6, <2>1, StepDone, TypePartsNext
<1>8. ASSUME run' = [run EXCEPT ![p] = [@ EXCEPT !.step = "prune"]], UNCHANGED <<lock, log>>
      PROVE  TypeOK' /\ BackupInv'
  <2>1. Goto(p, "prune")
    BY <1>8 DEF Goto
  <2>2. /\ JobTypes' /\ run'[p].step = "prune" /\ run'[p].stamp = s
        /\ run'[p].kind = run[p].kind /\ run'[p].snapshot = run[p].snapshot
        /\ \A q \in Run \ {p} : run'[q].step = "idle"
    BY <1>1, <1>2, <1>4, <1>8, <2>1, JobGoesTo DEF JobSteps
  <2>3. RunFits(p)'
    BY <2>2 DEF RunFits, Making, DailyIsMade
  <2> QED
    BY <1>1, <1>3, <1>5, <1>6, <2>2, <2>3, StepDone, TypePartsNext
<1>9. ASSUME NEW next \in {"weekly", "portable"}, UNCHANGED <<lock, log>>,
             run' = [run EXCEPT ![p] = [@ EXCEPT !.step = "existing", !.kind = next]]
      PROVE  TypeOK' /\ BackupInv'
  <2>1. PICK j \in Job : j = [run[p] EXCEPT !.step = "existing", !.kind = next]
    BY <1>5 DEF Job, JobSteps, Kind
  <2>2. /\ j.step = "existing" /\ j.kind = next /\ j.stamp = s /\ j.snapshot = run[p].snapshot
        /\ run' = [run EXCEPT ![p] = j]
    BY <1>4, <1>5, <1>9, <2>1 DEF Job
  <2>3. JobTypes' /\ run'[p] = j /\ \A q \in Run \ {p} : run'[q].step = "idle"
    BY <1>1, <1>2, <1>9, <2>2, JobGoesOn
  <2>4. run[p].snapshot # None => local["daily"][s].archive = run[p].snapshot
    BY <1>1, <1>2, <1>4, <1>5 DEF RunFits, DailyIsMade
  <2>5. RunFits(p)'
    BY <1>2, <2>2, <2>3, <2>4 DEF RunFits, Making, files
  <2> QED
    BY <1>1, <1>3, <1>5, <1>6, <2>2, <2>3, <2>5, StepDone, TypePartsNext
<1>10. \/ Die(p)
       \/ run' = [run EXCEPT ![p] = [@ EXCEPT !.step = "prune"]] /\ UNCHANGED <<lock, log>>
       \/ \E next \in {"weekly", "portable"} :
            /\ run' = [run EXCEPT ![p] = [@ EXCEPT !.step = "existing", !.kind = next]]
            /\ UNCHANGED <<lock, log>>
  BY DEF Confirm
<1> QED
  BY <1>7, <1>8, <1>9, <1>10

LEMMA PruneLocalFits ==
  ASSUME TypeOK, BackupInv, NEW p \in Run, PruneLocal(p)
  PROVE  TypeOK' /\ BackupInv'
<1>1. WorldTypes /\ FileTypes /\ JobTypes /\ WatchTypes
  BY TypeParts
<1>2. /\ run[p].step = "prune" /\ run[p].step # "idle" /\ Goto(p, "prune_remote")
      /\ local' = [k \in Kind |->
           Pruned(local[k], IF k = "daily" THEN LocalDailyKeep ELSE WeeklyKeep)]
      /\ UNCHANGED <<world, remote, lock, log, watch, kept>>
  BY DEF PruneLocal
<1>3. WorldTypes' /\ WatchTypes' /\ today' = today
  BY <1>1, <1>2 DEF WorldTypes, WatchTypes, world
<1>4. PICK s \in Day : s = run[p].stamp
  BY <1>1, JobFields
<1>5. /\ s <= today /\ DatesFit(s) /\ SealedGenerationsVerify /\ ADateNamesOneSnapshot
  BY <1>1, <1>2, <1>4, UnderWay
<1>6. ASSUME NEW k \in Kind
      PROVE  /\ local'[k] \in [Day -> Generation]
             /\ \A d \in Day :
                  local'[k][d] = local[k][d] \/ Spoils(local[k][d], local'[k][d], d, s)
  <2>1. PICK keep \in Nat \ {0} : local'[k] = Pruned(local[k], keep)
    BY <1>2, CountsFit
  <2>2. local[k] \in [Day -> Generation]
    BY <1>1 DEF FileTypes
  <2>3. /\ local'[k] \in [Day -> Generation]
        /\ \A d \in Day :
             \/ local'[k][d] = local[k][d]
             \/ local'[k][d] = NoGeneration /\ \E e \in Day : e > d /\ Started(local[k][e])
    BY <2>1, <2>2, PrunedFits
  <2>4. ASSUME NEW d \in Day, local'[k][d] = NoGeneration,
               NEW e \in Day, e > d, Started(local[k][e])
        PROVE  Spoils(local[k][d], local'[k][d], d, s)
    <3>1. e <= s
      BY <1>5, <2>4 DEF DatesFit
    <3>2. d < s
      BY <2>4, <3>1, DaysAreNumbers
    <3> QED
      BY <2>4, <3>2, NoGenerationFits DEF Spoils
  <2> QED
    BY <2>3, <2>4
<1>7. SealedGenerationsVerify' /\ ADateNamesOneSnapshot' /\ DatesFit(s)'
  BY <1>2, <1>5, <1>6, FilesSpoil
<1>8. FileTypes'
  BY <1>1, <1>2, <1>6 DEF FileTypes
<1>9. /\ JobTypes' /\ run'[p].step = "prune_remote" /\ run'[p].stamp = s
      /\ run'[p].kind = run[p].kind /\ run'[p].snapshot = run[p].snapshot
      /\ \A q \in Run \ {p} : run'[q].step = "idle"
  BY <1>1, <1>2, <1>4, JobGoesTo DEF JobSteps
<1>10. RunFits(p)'
  BY <1>9 DEF RunFits, Making, DailyIsMade
<1> QED
  BY <1>1, <1>3, <1>5, <1>7, <1>8, <1>9, <1>10, StepDone, TypePartsNext

LEMMA PruneRemoteFits ==
  ASSUME TypeOK, BackupInv, NEW p \in Run, PruneRemote(p)
  PROVE  TypeOK' /\ BackupInv'
<1>1. WorldTypes /\ FileTypes /\ JobTypes /\ WatchTypes
  BY TypeParts
<1>2. /\ run[p].step = "prune_remote" /\ run[p].step # "idle"
      /\ Leave(p) /\ log' = "success" /\ kept' \in BOOLEAN
      /\ UNCHANGED <<world, local, watch>>
  BY DEF PruneRemote
<1>3. WorldTypes' /\ WatchTypes' /\ today' = today
  BY <1>1, <1>2 DEF WorldTypes, WatchTypes, world
<1>4. PICK s \in Day, t \in Root : s = run[p].stamp /\ t = run[p].settings.root
  BY <1>1, JobFields
<1>5. /\ s <= today /\ DatesFit(s) /\ SealedGenerationsVerify /\ ADateNamesOneSnapshot
  BY <1>1, <1>2, <1>4, UnderWay
<1>6. PICK left \in [Kind -> [Day -> Generation]] :
        /\ left = [k \in Kind |->
             Pruned(remote[t][k], IF k = "daily" THEN RemoteDailyKeep ELSE WeeklyKeep)]
        /\ \A k \in Kind, d \in Day :
             left[k][d] = remote[t][k][d] \/ left[k][d] = NoGeneration
  <2> DEFINE left == [k \in Kind |->
               Pruned(remote[t][k], IF k = "daily" THEN RemoteDailyKeep ELSE WeeklyKeep)]
  <2>1. ASSUME NEW k \in Kind
        PROVE  /\ left[k] \in [Day -> Generation]
               /\ \A d \in Day : left[k][d] = remote[t][k][d] \/ left[k][d] = NoGeneration
    <3>1. PICK keep \in Nat \ {0} : left[k] = Pruned(remote[t][k], keep)
      BY CountsFit
    <3>2. remote[t][k] \in [Day -> Generation]
      BY <1>1 DEF FileTypes
    <3> QED
      BY <3>1, <3>2, PrunedFits
  <2>2. left \in [Kind -> [Day -> Generation]]
    BY <2>1
  <2> QED
    BY <2>1, <2>2
<1>7. remote' = [remote EXCEPT ![t] = left]
  BY <1>4, <1>6 DEF PruneRemote
<1>8. FileTypes'
  BY <1>1, <1>2, <1>7 DEF FileTypes
<1>9. \A u \in Root, k \in Kind, d \in Day :
        remote'[u][k][d] = remote[u][k][d] \/ remote'[u][k][d].archive = None
  BY <1>1, <1>6, <1>7, NoGenerationFits, ZenonT(40) DEF FileTypes
<1>10. SealedGenerationsVerify' /\ ADateNamesOneSnapshot' /\ DatesFit(s)'
  BY <1>2, <1>5, <1>9, FilesSpoil
<1>11. JobTypes' /\ \A q \in Run : run'[q].step = "idle"
  BY <1>1, <1>2, JobLeaves
<1> QED
  BY <1>1, <1>3, <1>5, <1>8, <1>10, <1>11, StepDone, TypePartsNext

LEMMA CutShortFits ==
  ASSUME TypeOK, BackupInv, NEW p \in Run, CutShort(p)
  PROVE  TypeOK' /\ BackupInv'
<1>1. WorldTypes /\ FileTypes /\ JobTypes /\ WatchTypes
  BY TypeParts
<1>2. /\ run[p].step # "idle" /\ Leave(p) /\ log' \in {log, "error"} /\ Touched
      /\ faults < MaxFaults /\ faults' = faults + 1
      /\ UNCHANGED <<today, crontab, records>>
  BY DEF CutShort
<1>3. WorldTypes' /\ WatchTypes' /\ kept' \in BOOLEAN
  BY <1>1, <1>2, CountsFit, TouchedFits DEF WorldTypes
<1>4. PICK s \in Day, k \in Kind, t \in Root :
        s = run[p].stamp /\ k = run[p].kind /\ t = run[p].settings.root
  BY <1>1, JobFields
<1>5. /\ s <= today /\ DatesFit(s) /\ SealedGenerationsVerify /\ ADateNamesOneSnapshot
      /\ Mine(p) \in Generation /\ Mine(p) = local[k][s]
  BY <1>1, <1>2, <1>4, UnderWay, JobFields DEF Mine
<1>6. JobTypes' /\ \A q \in Run : run'[q].step = "idle"
  BY <1>1, <1>2, <1>3, JobLeaves DEF JobTypes
<1>7. ASSUME FileTypes', SealedGenerationsVerify', ADateNamesOneSnapshot', DatesFit(s)'
      PROVE  TypeOK' /\ BackupInv'
  BY <1>1, <1>2, <1>3, <1>5, <1>6, <1>7, StepDone, TypePartsNext
<1>8. CASE UNCHANGED files
  BY <1>1, <1>5, <1>7, <1>8, FilesUntouched DEF FileTypes, files
<1>9. ASSUME NEW j \in Kind, NEW d \in Day, NEW g \in Generation, Put(j, d, g),
             Spoils(local[j][d], g, d, s), UNCHANGED remote
      PROVE  TypeOK' /\ BackupInv'
  <2>1. /\ local' \in [Kind -> [Day -> Generation]] /\ local'[j][d] = g
        /\ \A i \in Kind, e \in Day : i # j \/ e # d => local'[i][e] = local[i][e]
    BY <1>1, <1>9, PutIsLocal
  <2>2. \A i \in Kind, e \in Day :
          local'[i][e] = local[i][e] \/ Spoils(local[i][e], local'[i][e], e, s)
    BY <1>9, <2>1
  <2>3. SealedGenerationsVerify' /\ ADateNamesOneSnapshot' /\ DatesFit(s)'
    BY <1>5, <1>9, <2>2, FilesSpoil
  <2>4. FileTypes'
    BY <1>1, <1>9, <2>1 DEF FileTypes
  <2> QED
    BY <1>7, <2>3, <2>4
<1>10. CASE /\ run[p].step = "archive" /\ run[p].kind = "weekly"
            /\ Put("weekly", run[p].stamp, [Mine(p) EXCEPT !.archive = Torn, !.written = today])
            /\ UNCHANGED remote
  <2>1. PICK g \in Generation : g = [Mine(p) EXCEPT !.archive = Torn, !.written = today]
    BY <1>1, <1>5, NothingIsNone DEF WorldTypes, Generation
  <2>2. g.archive = Torn /\ Started(g)
    BY <1>5, <2>1, NothingIsNone DEF Generation, Started
  <2>3. Spoils(local[k][s], g, s, s)
    BY <2>2, DaysAreNumbers DEF Spoils
  <2> QED
    BY <1>4, <1>9, <1>10, <2>1, <2>3
<1>11. CASE /\ run[p].step = "prune" /\ UNCHANGED remote
            /\ \E d \in Expired(local["daily"], LocalDailyKeep) :
                 Put("daily", d, [local["daily"][d] EXCEPT !.archive = None, !.written = None])
  <2>1. PICK d \in Expired(local["daily"], LocalDailyKeep) :
          Put("daily", d, [local["daily"][d] EXCEPT !.archive = None, !.written = None])
    BY <1>11
  <2>2. "daily" \in Kind /\ d \in Day /\ local["daily"] \in [Day -> Generation]
    BY <1>1 DEF Kind, Expired, Archives, FileTypes
  <2>3. PICK g \in Generation :
          g = [local["daily"][d] EXCEPT !.archive = None, !.written = None]
    BY <2>2 DEF Generation
  <2>4. g.archive = None
    BY <2>2, <2>3 DEF Generation
  <2>5. \E e \in Day : e > d /\ Started(local["daily"][e])
    BY <2>1, <2>2, CountsFit, ExpiredIsOld
  <2>6. d < s
    BY <1>5, <2>2, <2>5, DaysAreNumbers DEF DatesFit
  <2>7. Spoils(local["daily"][d], g, d, s)
    BY <2>2, <2>4, <2>6, DaysAreNumbers DEF Spoils
  <2> QED
    BY <1>9, <1>11, <2>1, <2>2, <2>3, <2>7
<1>12. ASSUME UNCHANGED local, NEW contents \in {Mine(p).archive, Torn},
              contents # Mine(p).archive => Mine(p).archive # None,
              Copy(run[p].settings.root, run[p].kind, run[p].stamp,
                   [remote[run[p].settings.root][run[p].kind][run[p].stamp] EXCEPT
                      !.archive = contents, !.written = Mine(p).written])
       PROVE  TypeOK' /\ BackupInv'
  <2>1. remote[t][k][s] \in Generation
    BY <1>1 DEF FileTypes
  <2>2. PICK g \in Generation :
          g = [remote[t][k][s] EXCEPT !.archive = contents, !.written = Mine(p).written]
    BY <1>5, <1>12, <2>1, NothingIsNone DEF Generation
  <2>3. Copy(t, k, s, g) /\ g.archive = contents
    BY <1>4, <1>12, <2>1, <2>2 DEF Generation
  <2>4. SealedGenerationsVerify' /\ ADateNamesOneSnapshot' /\ DatesFit(s)'
    BY <1>1, <1>5, <1>12, <2>3, CopyFits
  <2>5. FileTypes'
    BY <1>1, <1>12, <2>3, CopyIsRemote DEF FileTypes
  <2> QED
    BY <1>7, <2>4, <2>5
<1> QED
  BY <1>8, <1>10, <1>11, <1>12 DEF CutShort

-----------------------------------------------------------------------------
(* The watchdog and the world.                                             *)

LEMMA LookFits ==
  ASSUME WatchTypes, NEW step \in {"metadata", "remote", "rest"}, NEW failed \in SUBSET Checks,
         NEW warned \in BOOLEAN, Look(step, failed, warned), watch.artifact \in Day
  PROVE  WatchTypes'
BY DEF WatchTypes, Watch, WatchSteps, Look

LEMMA WatchFits ==
  ASSUME TypeOK, Watchdog
  PROVE  WatchTypes'
<1>1. WorldTypes /\ FileTypes /\ JobTypes /\ WatchTypes
  BY TypeParts
<1>2. \A c \in Checks : \A b : If(b, c) \subseteq Checks
  BY DEF If
<1>3. CASE BeginCheck
  <2> DEFINE started == [NoWatch EXCEPT !.settings = WatchSettings, !.began = today, !.kept = kept,
                                        !.failed = If(~Scheduled, "schedule")]
  <2>1. started \in Watch
    <3>1. today \in Day /\ kept \in BOOLEAN /\ WatchSettings \in Settings
      BY <1>1, ConfigurationsFit DEF WorldTypes, JobTypes
    <3>2. PICK found \in SUBSET Checks : found = If(~Scheduled, "schedule")
      BY <1>2 DEF Checks
    <3>3. started = [NoWatch EXCEPT !.settings = WatchSettings, !.began = today,
                                    !.kept = kept, !.failed = found]
      BY <3>2
    <3> QED
      BY <3>1, <3>3, NoWatchFits DEF Watch
  <2>2. CASE watch' = [started EXCEPT !.step = "rest", !.failed = @ \cup {"daily"}]
    BY <2>1, <2>2, ZenonT(40) DEF WatchTypes, Watch, WatchSteps, Checks
  <2>3. ASSUME NEW d \in Newest(local["daily"]),
               watch' = [started EXCEPT
                 !.step = "checksum", !.artifact = d,
                 !.failed = @ \cup If(today - local["daily"][d].written > DailyMaxAge, "daily")]
        PROVE  WatchTypes'
    <3>1. d \in Day
      BY DEF Newest, Archives
    <3>2. PICK found \in SUBSET Checks :
            found = If(today - local["daily"][d].written > DailyMaxAge, "daily")
      BY <1>2 DEF Checks
    <3>3. watch' = [started EXCEPT !.step = "checksum", !.artifact = d, !.failed = @ \cup found]
      BY <2>3, <3>2
    <3> QED
      BY <2>1, <3>1, <3>3 DEF WatchTypes, Watch, WatchSteps
  <2> QED
    BY <1>3, <2>2, <2>3 DEF BeginCheck
<1>4. ASSUME watch.step \in {"checksum", "metadata", "remote"}
      PROVE  watch.artifact \in Day /\ Artifact \in Generation /\ watch \in Watch
  BY <1>1, <1>4 DEF WatchTypes, Artifact, FileTypes, Kind
<1>5. CASE CheckChecksum
  <2>1. watch.step = "checksum"
    BY <1>5 DEF CheckChecksum
  <2>2. CASE Look("metadata", {"checksum"}, FALSE)
    BY <1>1, <1>4, <2>1, <2>2, LookFits DEF Checks
  <2>3. CASE watch' = NoWatch
    BY <2>3, NoWatchFits DEF WatchTypes
  <2>4. ASSUME watch' = [watch EXCEPT !.step = "metadata", !.digest = Artifact.archive,
                         !.failed = @ \cup If(Artifact.sum # Artifact.archive, "checksum")]
        PROVE  WatchTypes'
    <3>1. PICK found \in SUBSET Checks :
            found = If(Artifact.sum # Artifact.archive, "checksum")
      BY <1>2 DEF Checks
    <3>2. Artifact.archive \in Content \cup {None}
      BY <1>4, <2>1 DEF Generation
    <3>3. watch' = [watch EXCEPT !.step = "metadata", !.digest = Artifact.archive,
                                 !.failed = @ \cup found]
      BY <2>4, <3>1
    <3> QED
      BY <1>4, <2>1, <3>2, <3>3 DEF WatchTypes, Watch, WatchSteps
  <2> QED
    BY <1>5, <2>2, <2>3, <2>4 DEF CheckChecksum
<1>6. CASE CheckMetadata
  <2>1. watch.step = "metadata"
    BY <1>6 DEF CheckMetadata
  <2>2. \E failed \in SUBSET Checks, warned \in BOOLEAN : Look("remote", failed, warned)
    <3>1. PICK readable \in BOOLEAN :
            IF Artifact.meta = None THEN Look("remote", {"source", "count"}, FALSE)
            ELSE Look("remote",
                      If(Artifact.meta.db # watch.settings.db, "source")
                        \cup If(readable /\ Drift > FailDrift, "count"),
                      ~readable \/ Drift > WarnDrift)
      BY <1>6 DEF CheckMetadata
    <3>2. PICK failed \in SUBSET Checks :
            failed = If(Artifact.meta.db # watch.settings.db, "source")
                       \cup If(readable /\ Drift > FailDrift, "count")
      BY <1>2 DEF Checks
    <3>3. PICK warned \in BOOLEAN : warned = (~readable \/ Drift > WarnDrift)
      OBVIOUS
    <3>4. {"source", "count"} \in SUBSET Checks
      BY DEF Checks
    <3> QED
      BY <3>1, <3>2, <3>3, <3>4
  <2> QED
    BY <1>1, <1>4, <2>1, <2>2, LookFits
<1>7. CASE CheckRemote
  <2>1. watch.step = "remote"
    BY <1>7 DEF CheckRemote
  <2>2. \E failed \in SUBSET Checks, warned \in BOOLEAN : Look("rest", failed, warned)
    <3>1. PICK failed \in SUBSET Checks : failed = If(RemoteCopy # watch.digest, "remote")
      BY <1>2 DEF Checks
    <3>2. {"remote"} \in SUBSET Checks /\ {} \in SUBSET Checks
      BY DEF Checks
    <3> QED
      BY <1>7, <3>1, <3>2 DEF CheckRemote
  <2> QED
    BY <1>1, <1>4, <2>1, <2>2, LookFits
<1>8. CASE Conclude
  BY <1>8, NoWatchFits DEF Conclude, WatchTypes
<1> QED
  BY <1>3, <1>5, <1>6, <1>7, <1>8 DEF Watchdog

LEMMA WatchdogFits ==
  ASSUME TypeOK, BackupInv, Watchdog
  PROVE  TypeOK' /\ BackupInv'
<1>1. WorldTypes /\ FileTypes /\ JobTypes
  BY TypeParts
<1>2. UNCHANGED <<world, files, job, kept>>
  BY DEF Watchdog, BeginCheck, CheckChecksum, CheckMetadata, CheckRemote, Conclude
<1>3. WorldTypes' /\ FileTypes' /\ JobTypes'
  BY <1>1, <1>2 DEF WorldTypes, FileTypes, JobTypes, world, files, job
<1>4. BackupInv'
  BY <1>2, NothingTouched DEF world, job
<1> QED
  BY <1>3, <1>4, WatchFits, TypePartsNext

LEMMA WriteFits ==
  ASSUME TypeOK, BackupInv, Write
  PROVE  TypeOK' /\ BackupInv'
<1>1. WorldTypes /\ FileTypes /\ JobTypes /\ WatchTypes
  BY TypeParts
<1>2. /\ records' = [records EXCEPT ![InUse] = @ + 1] /\ records[InUse] < MaxRecords
      /\ UNCHANGED <<today, crontab, faults, files, job, watch, kept>>
  BY DEF Write
<1>3. records' \in [Database -> 0 .. MaxRecords]
  BY <1>1, <1>2, CountsFit DEF WorldTypes
<1>4. WorldTypes' /\ FileTypes' /\ JobTypes' /\ WatchTypes'
  BY <1>1, <1>2, <1>3 DEF WorldTypes, FileTypes, JobTypes, WatchTypes, files, job
<1>5. BackupInv'
  BY <1>2, NothingTouched DEF job
<1> QED
  BY <1>4, <1>5, TypePartsNext

LEMMA NextDayFits ==
  ASSUME TypeOK, BackupInv, NextDay
  PROVE  TypeOK' /\ BackupInv'
<1>1. WorldTypes /\ FileTypes /\ JobTypes /\ WatchTypes
  BY TypeParts
<1>2. /\ today < LastDay /\ today' = today + 1 /\ Touched
      /\ UNCHANGED <<crontab, records, faults, files, job>>
  BY DEF NextDay
<1>3. today \in Day /\ today' \in Day
  BY <1>1, <1>2, DaysAreNumbers DEF WorldTypes
<1>4. WorldTypes' /\ FileTypes' /\ JobTypes' /\ WatchTypes'
  BY <1>1, <1>2, <1>3, TouchedFits DEF WorldTypes, FileTypes, JobTypes, files, job
<1>5. UNCHANGED <<local, remote, run>>
  BY <1>2 DEF files, job
<1>6. DatesFit(today)'
  <2>1. DatesFit(today)
    BY DEF BackupInv
  <2>2. \A d \in Day : (d <= today => d <= today') /\ (d < today => d < today')
    BY <1>2, <1>3, DaysAreNumbers
  <2>3. \A k \in Kind, d \in Day : Started(local'[k][d]) => d <= today'
    BY <1>5, <2>1, <2>2 DEF DatesFit
  <2>4. \A t \in Root, k \in Kind, d \in Day : remote'[t][k][d].archive # None =>
          d <= today' /\ (Started(local'[k][d]) \/ d < today')
    BY <1>5, <2>1, <2>2 DEF DatesFit
  <2> QED
    BY <2>3, <2>4 DEF DatesFit
<1>7. ASSUME NEW r \in Run, run'[r].step # "idle"
      PROVE  run'[r].stamp <= today' /\ DatesFit(run[r].stamp)' /\ RunFits(r)'
  <2>1. run[r].stamp <= today /\ DatesFit(run[r].stamp) /\ RunFits(r)
    BY <1>5, <1>7, UnderWay
  <2>2. run[r].stamp \in Day
    BY <1>1, JobFields
  <2>3. run[r].stamp <= today'
    BY <1>2, <1>3, <2>1, <2>2, DaysAreNumbers
  <2>4. DatesFit(run[r].stamp)'
    BY <1>5, <2>1 DEF DatesFit
  <2>5. RunFits(r)'
    BY <1>5, <2>1 DEF RunFits, Making, DailyIsMade, Mine, SnapshotDb
  <2> QED
    BY <1>5, <2>3, <2>4, <2>5
<1>8. SealedGenerationsVerify' /\ ADateNamesOneSnapshot'
  BY <1>5 DEF BackupInv, SealedGenerationsVerify, ADateNamesOneSnapshot
<1> QED
  BY <1>4, <1>6, <1>7, <1>8, TypePartsNext DEF BackupInv

LEMMA DamageFits ==
  ASSUME TypeOK, BackupInv, Damage
  PROVE  TypeOK' /\ BackupInv'
<1>1. WorldTypes /\ FileTypes /\ JobTypes /\ WatchTypes
  BY TypeParts
<1>2. /\ lock = None /\ faults < MaxFaults /\ faults' = faults + 1 /\ Touched
      /\ UNCHANGED <<today, crontab, records, job>>
  BY DEF Damage
<1>3. WorldTypes' /\ JobTypes' /\ WatchTypes'
  BY <1>1, <1>2, CountsFit, TouchedFits DEF WorldTypes, JobTypes, job
<1>4. \A r \in Run : run'[r].step = "idle"
  BY <1>1, <1>2, NothingIsNone DEF JobTypes, job
<1>5. PICK s \in Day : s = today /\ s = today'
  BY <1>1, <1>2 DEF WorldTypes
<1>6. DatesFit(s) /\ SealedGenerationsVerify /\ ADateNamesOneSnapshot
  BY <1>5 DEF BackupInv
<1>7. ASSUME FileTypes', SealedGenerationsVerify', ADateNamesOneSnapshot', DatesFit(s)'
      PROVE  TypeOK' /\ BackupInv'
  <2>1. DatesFit(today)'
    BY <1>5, <1>7 DEF DatesFit
  <2> QED
    BY <1>3, <1>4, <1>7, <2>1, TypePartsNext DEF BackupInv
<1>8. ASSUME NEW d \in Archives(local["daily"]), UNCHANGED remote,
             Put("daily", d, [local["daily"][d] EXCEPT !.archive = Torn])
      PROVE  TypeOK' /\ BackupInv'
  <2>1. "daily" \in Kind /\ d \in Day /\ local["daily"][d] \in Generation
    BY <1>1 DEF Kind, Archives, FileTypes
  <2>2. PICK g \in Generation : g = [local["daily"][d] EXCEPT !.archive = Torn]
    BY <2>1, NothingIsNone DEF Generation
  <2>3. g.archive = Torn /\ Started(g)
    BY <2>1, <2>2, NothingIsNone DEF Generation, Started
  <2>4. d <= s
    BY <1>6, <1>8, <2>1 DEF DatesFit, Archives, Started
  <2>5. Spoils(local["daily"][d], g, d, s)
    BY <2>3, <2>4 DEF Spoils
  <2>6. /\ local' \in [Kind -> [Day -> Generation]] /\ local'["daily"][d] = g
        /\ \A j \in Kind, e \in Day : j # "daily" \/ e # d => local'[j][e] = local[j][e]
    BY <1>1, <1>8, <2>1, <2>2, PutIsLocal
  <2>7. SealedGenerationsVerify' /\ ADateNamesOneSnapshot' /\ DatesFit(s)'
    BY <1>6, <1>8, <2>5, <2>6, FilesSpoil
  <2>8. FileTypes'
    BY <1>1, <1>8, <2>6 DEF FileTypes
  <2> QED
    BY <1>7, <2>7, <2>8
<1>9. ASSUME NEW t \in Root, NEW d \in Archives(remote[t]["daily"]), UNCHANGED local,
             Copy(t, "daily", d, NoGeneration)
      PROVE  TypeOK' /\ BackupInv'
  <2>1. "daily" \in Kind /\ d \in Day
    BY DEF Kind, Archives
  <2>2. /\ remote' \in [Root -> [Kind -> [Day -> Generation]]]
        /\ remote'[t]["daily"][d] = NoGeneration
        /\ \A u \in Root, j \in Kind, e \in Day :
             u # t \/ j # "daily" \/ e # d => remote'[u][j][e] = remote[u][j][e]
    BY <1>1, <1>9, <2>1, NoGenerationFits, CopyIsRemote
  <2>3. \A u \in Root, j \in Kind, e \in Day :
          remote'[u][j][e] = remote[u][j][e] \/ remote'[u][j][e].archive = None
    BY <2>2, NoGenerationFits
  <2>4. SealedGenerationsVerify' /\ ADateNamesOneSnapshot' /\ DatesFit(s)'
    BY <1>6, <1>9, <2>3, FilesSpoil
  <2>5. FileTypes'
    BY <1>1, <1>9, <2>2 DEF FileTypes
  <2> QED
    BY <1>7, <2>4, <2>5
<1> QED
  BY <1>8, <1>9 DEF Damage

-----------------------------------------------------------------------------
(* The invariant.                                                          *)

LEMMA BackupInit ==
  ASSUME Init
  PROVE  TypeOK /\ BackupInv
<1>1. /\ today = 1 /\ crontab \in Crontabs /\ faults = 0 /\ kept = FALSE /\ log = None
      /\ records = [d \in Database |-> 0]
      /\ local = [k \in Kind |-> [d \in Day |-> NoGeneration]]
      /\ remote = [t \in Root |-> [k \in Kind |-> [d \in Day |-> NoGeneration]]]
      /\ lock = None /\ run = [r \in Run |-> NoJob] /\ watch = NoWatch
  BY DEF Init
<1>2. WorldTypes
  BY <1>1, DaysAreNumbers, CountsFit DEF WorldTypes
<1>3. FileTypes
  BY <1>1, NoGenerationFits DEF FileTypes
<1>4. JobTypes /\ WatchTypes
  BY <1>1, NoJobFits, NoWatchFits DEF JobTypes, WatchTypes
<1>5. SealedGenerationsVerify /\ ADateNamesOneSnapshot /\ DatesFit(today)
  BY <1>1, NoGenerationFits
  DEF SealedGenerationsVerify, ADateNamesOneSnapshot, DatesFit, Complete
<1> QED
  BY <1>1, <1>2, <1>3, <1>4, <1>5, NoJobFits, TypeParts DEF BackupInv

LEMMA BackupStep ==
  ASSUME TypeOK, BackupInv, [Next]_vars
  PROVE  TypeOK' /\ BackupInv'
<1>1. CASE \E p \in Run : JobNext(p)
  BY <1>1, StartFits, ExistingFits, SnapshotFits, MakeArchiveFits, MakeSumFits, MakeMetaFits,
     UploadFits, ConfirmFits, PruneLocalFits, PruneRemoteFits, CutShortFits DEF JobNext
<1>2. CASE Watchdog \/ Write \/ NextDay \/ Damage
  BY <1>2, WatchdogFits, WriteFits, NextDayFits, DamageFits
<1>3. CASE UNCHANGED vars
  <2>1. TypeOK'
    BY <1>3 DEF vars, world, files, job, TypeOK
  <2>2. BackupInv'
    BY <1>3, NothingTouched DEF vars, world, job
  <2> QED
    BY <2>1, <2>2
<1> QED
  BY <1>1, <1>2, <1>3 DEF Next

(* Files, runs and checks have their types, no two runs work at once, and  *)
(* the generations fit the dates and the run that is under way.            *)
THEOREM BackupTypeCorrect == Spec => [](TypeOK /\ BackupInv)
<1>1. Init => TypeOK /\ BackupInv
  BY BackupInit
<1>2. TypeOK /\ BackupInv /\ [Next]_vars => (TypeOK /\ BackupInv)'
  BY BackupStep
<1> QED
  BY <1>1, <1>2, PTL DEF Spec

(* A generation with all its parts is what its sidecars say, wherever runs *)
(* of the job are killed, fail and are repeated.                           *)
THEOREM SealedGenerationsAreSound == Spec => []SealedGenerationsVerify
<1>1. TypeOK /\ BackupInv => SealedGenerationsVerify
  BY DEF BackupInv
<1> QED
  BY <1>1, BackupTypeCorrect, PTL

(* What this machine and the remote host hold under one name and date is   *)
(* one snapshot, for every retention of at least one generation.           *)
THEOREM DatesNameOneSnapshot == Spec => []ADateNamesOneSnapshot
<1>1. TypeOK /\ BackupInv => ADateNamesOneSnapshot
  BY DEF BackupInv
<1> QED
  BY <1>1, BackupTypeCorrect, PTL

-----------------------------------------------------------------------------
(* Why a check can be trusted.  A step takes away nothing of a daily       *)
(* generation unless a later date is stored, here and on a remote host.    *)

LEMMA DailyIsAKind == "daily" \in Kind /\ None # Torn
BY NothingIsNone DEF Kind

KeepsDaily(d) ==
  /\ local'["daily"][d].archive = local["daily"][d].archive
  /\ local'["daily"][d].written = local["daily"][d].written
  /\ local["daily"][d].sum # None => local'["daily"][d].sum = local["daily"][d].sum
  /\ local["daily"][d].meta # None => local'["daily"][d].meta = local["daily"][d].meta
  /\ IsCopied(d) => IsCopied(d)'

Advances ==
  \A d \in Archives(local["daily"]) : KeepsDaily(d) \/ \E e \in Day : e > d /\ Stored(e)'

(* What was not there is written today.                                    *)
Arrives ==
  \A d \in Archives(local'["daily"]) :
    \/ d \in Archives(local["daily"]) /\ local'["daily"][d].written = local["daily"][d].written
    \/ local'["daily"][d].written = today

LEMMA OrderStays ==
  ASSUME InOrder, today \in Day, today' \in Day, today <= today',
         \A d \in Archives(local'["daily"]) :
           d \in Archives(local["daily"]) /\ local'["daily"][d].written = local["daily"][d].written,
         \A d \in Day : local'["daily"][d].sum # Torn
  PROVE  InOrder' /\ Arrives
<1>1. ASSUME NEW d \in Archives(local'["daily"])
      PROVE  local'["daily"][d].written \in Day /\ d <= local'["daily"][d].written
             /\ local'["daily"][d].written <= today'
  <2>1. /\ local["daily"][d].written \in Day /\ d <= local["daily"][d].written
        /\ local["daily"][d].written <= today
    BY <1>1 DEF InOrder
  <2>2. local'["daily"][d].written = local["daily"][d].written
    BY <1>1
  <2>3. \A day \in Day : day <= today => day <= today'
    BY DaysAreNumbers
  <2> QED
    BY <2>1, <2>2, <2>3
<1>2. \A d, e \in Archives(local'["daily"]) :
        d < e => local'["daily"][d].written <= local'["daily"][e].written
  BY DEF InOrder
<1>3. InOrder'
  BY <1>1, <1>2 DEF InOrder
<1> QED
  BY <1>3 DEF Arrives

(* A step that leaves the daily generations here as they are.              *)
LEMMA DailyUntouched ==
  ASSUME InOrder, today \in Day, today' = today,
         \A d \in Day : local'["daily"][d] = local["daily"][d],
         \A d \in Archives(local["daily"]) : IsCopied(d) => IsCopied(d)'
  PROVE  InOrder' /\ Advances /\ Arrives
<1>1. \A d \in Archives(local'["daily"]) :
        d \in Archives(local["daily"]) /\ local'["daily"][d].written = local["daily"][d].written
  BY DEF Archives
<1>2. \A d \in Day : local'["daily"][d].sum # Torn
  BY DEF InOrder
<1>3. Advances
  BY DEF Advances, KeepsDaily, Archives
<1>4. today <= today'
  BY DaysAreNumbers
<1> QED
  BY <1>1, <1>2, <1>3, <1>4, OrderStays

LEMMA DailyTheSame ==
  ASSUME InOrder, today \in Day, today' = today, remote' = remote,
         \A d \in Day : local'["daily"][d] = local["daily"][d]
  PROVE  InOrder' /\ Advances /\ Arrives
<1>1. \A d \in Archives(local["daily"]) : IsCopied(d) => IsCopied(d)'
  BY DEF IsCopied, Archives
<1> QED
  BY <1>1, DailyUntouched

(* A step that makes the next part of the generation of the date s.        *)
LEMMA DailyGrows ==
  ASSUME InOrder, today \in Day, today' = today, NEW s \in Day, remote' = remote,
         \A d \in Day \ {s} : local'["daily"][d] = local["daily"][d],
         local'["daily"][s].archive = local["daily"][s].archive,
         local'["daily"][s].written = local["daily"][s].written,
         local["daily"][s].sum # None => local'["daily"][s].sum = local["daily"][s].sum,
         local["daily"][s].meta # None => local'["daily"][s].meta = local["daily"][s].meta,
         local'["daily"][s].sum # Torn
  PROVE  InOrder' /\ Advances /\ Arrives
<1>1. \A d \in Day : /\ local'["daily"][d].archive = local["daily"][d].archive
                     /\ local'["daily"][d].written = local["daily"][d].written
  OBVIOUS
<1>2. \A d \in Archives(local'["daily"]) :
        d \in Archives(local["daily"]) /\ local'["daily"][d].written = local["daily"][d].written
  BY <1>1 DEF Archives
<1>3. \A d \in Day : local'["daily"][d].sum # Torn
  BY DEF InOrder
<1>4. \A d \in Day : IsCopied(d) => IsCopied(d)'
  BY <1>1 DEF IsCopied
<1>5. \A d \in Day : KeepsDaily(d)
  BY <1>1, <1>4 DEF KeepsDaily
<1>6. Advances
  BY <1>5 DEF Advances, Archives
<1> QED
  BY <1>2, <1>3, <1>6, DaysAreNumbers, OrderStays

(* A step that makes the archive of the date s, the latest there is.       *)
LEMMA DailyAppears ==
  ASSUME InOrder, today \in Day, today' = today, NEW s \in Day, s <= today, remote' = remote,
         \A d \in Archives(local["daily"]) : d < s,
         \A d \in Day \ {s} : local'["daily"][d] = local["daily"][d],
         local'["daily"][s].written = today, local'["daily"][s].sum # Torn
  PROVE  InOrder' /\ Advances /\ Arrives
<1>1. s \notin Archives(local["daily"])
  BY DaysAreNumbers
<1>2. \A d \in Archives(local'["daily"]) :
        \/ d = s
        \/ d \in Archives(local["daily"]) /\ local'["daily"][d] = local["daily"][d]
  BY DEF Archives
<1>3. ASSUME NEW d \in Archives(local'["daily"])
      PROVE  local'["daily"][d].written \in Day /\ d <= local'["daily"][d].written
             /\ local'["daily"][d].written <= today'
  BY <1>2, DaysAreNumbers DEF InOrder
<1>4. ASSUME NEW d \in Archives(local'["daily"]), NEW e \in Archives(local'["daily"]), d < e
      PROVE  local'["daily"][d].written <= local'["daily"][e].written
  <2>1. CASE e = s
    BY <1>3, <2>1
  <2>2. CASE e # s
    <3>1. e \in Archives(local["daily"]) /\ d # s
      BY <1>2, <1>4, <2>2, DaysAreNumbers DEF Archives
    <3> QED
      BY <1>2, <1>4, <2>2, <3>1 DEF InOrder
  <2> QED
    BY <2>1, <2>2
<1>5. \A d \in Day : local'["daily"][d].sum # Torn
  BY DEF InOrder
<1>6. InOrder'
  BY <1>3, <1>4, <1>5 DEF InOrder
<1>7. \A d \in Archives(local["daily"]) : KeepsDaily(d)
  BY <1>1 DEF KeepsDaily, IsCopied, Archives
<1>8. Advances /\ Arrives
  BY <1>2, <1>7 DEF Advances, Arrives
<1> QED
  BY <1>6, <1>8

(* A step that takes away generations and copies older than a date that    *)
(* stays stored.                                                           *)
LEMMA DailyThins ==
  ASSUME InOrder, today \in Day, today' = today, NEW s \in Day, Stored(s)',
         \A d \in Day :
           /\ \/ local'["daily"][d] = local["daily"][d]
              \/ /\ local'["daily"][d].archive = None
                 /\ local'["daily"][d].sum \in {None, local["daily"][d].sum}
           /\ \/ s > d
              \/ /\ local'["daily"][d] = local["daily"][d]
                 /\ IsCopied(d) => IsCopied(d)'
  PROVE  InOrder' /\ Advances /\ Arrives
<1>1. \A d \in Archives(local'["daily"]) :
        d \in Archives(local["daily"]) /\ local'["daily"][d].written = local["daily"][d].written
  BY DEF Archives
<1>2. \A d \in Day : local'["daily"][d].sum # Torn
  BY DailyIsAKind DEF InOrder
<1>3. Advances
  BY DEF Advances, KeepsDaily, Archives
<1> QED
  BY <1>1, <1>2, <1>3, DaysAreNumbers, OrderStays

-----------------------------------------------------------------------------
(* The steps of a run: the daily generations, and what the run knows of    *)
(* its own.                                                                *)

StepIsSafe(p) ==
  InOrder' /\ Advances /\ Arrives /\ (run'[p].step # "idle" => DailyIsSafe(p)')

LEMMA RunKnows ==
  ASSUME TypeOK, BackupInv, HealthInv, NEW p \in Run, run[p].step # "idle"
  PROVE  /\ FileTypes /\ JobTypes /\ InOrder /\ today \in Day
         /\ run[p].stamp \in Day /\ run[p].stamp <= today
         /\ run[p].kind \in Kind /\ run[p].settings \in Settings
         /\ run[p].settings.root \in Root
         /\ Mine(p) \in Generation /\ local["daily"][run[p].stamp] \in Generation
         /\ SnapshotDb(p) \in Archive /\ run[p].snapshot \in Archive
         /\ DatesFit(run[p].stamp) /\ RunFits(p) /\ DailyIsSafe(p)
<1>1. WorldTypes /\ FileTypes /\ JobTypes
  BY TypeParts
<1>2. today \in Day
  BY <1>1 DEF WorldTypes
<1>3. InOrder /\ DailyIsSafe(p)
  BY DEF HealthInv
<1> QED
  BY <1>1, <1>2, <1>3, UnderWay, JobFields

LEMMA ExistingIsSafe ==
  ASSUME TypeOK, BackupInv, HealthInv, NEW p \in Run, Existing(p)
  PROVE  StepIsSafe(p)
<1>1. run[p].step = "existing" /\ UNCHANGED <<today, local, remote>>
  BY DEF Existing, world, files
<1>2. PICK s \in Day : s = run[p].stamp
  BY <1>1, RunKnows
<1>3. JobTypes /\ InOrder /\ today \in Day /\ DailyIsSafe(p)
  BY <1>1, RunKnows
<1>4. InOrder' /\ Advances /\ Arrives
  BY <1>1, <1>3, DailyTheSame
<1>5. CASE ~ Started(Mine(p)) /\ UNCHANGED <<lock, log>>
           /\ Goto(p, IF run[p].kind = "daily" THEN "snapshot" ELSE "archive")
  <2>1. PICK step \in {"snapshot", "archive"} :
          step = IF run[p].kind = "daily" THEN "snapshot" ELSE "archive"
    OBVIOUS
  <2>2. /\ run'[p].step = step /\ run'[p].kind = run[p].kind
        /\ run'[p].stamp = s /\ run'[p].snapshot = run[p].snapshot
        /\ run'[p].settings = run[p].settings
    BY <1>1, <1>2, <1>3, <1>5, <2>1, JobGoesTo DEF JobSteps, Existing
  <2>3. DailyIsSafe(p)'
    BY <1>1, <1>2, <1>3, <2>1, <2>2 DEF DailyIsSafe
  <2> QED
    BY <1>4, <2>3 DEF StepIsSafe
<1>6. CASE Started(Mine(p)) /\ Goto(p, "upload") /\ UNCHANGED <<lock, log>> /\ Verified(Mine(p))
  <2>1. /\ run'[p].step = "upload" /\ run'[p].kind = run[p].kind
        /\ run'[p].stamp = s /\ run'[p].snapshot = run[p].snapshot
        /\ run'[p].settings = run[p].settings
    BY <1>1, <1>2, <1>3, <1>6, JobGoesTo DEF JobSteps, Existing
  <2>2. run[p].kind = "daily" => Verified(local["daily"][s])
    BY <1>2, <1>6 DEF Mine
  <2>3. DailyIsSafe(p)'
    BY <1>1, <1>2, <1>3, <2>1, <2>2 DEF DailyIsSafe, Verified, Complete
  <2> QED
    BY <1>4, <2>3 DEF StepIsSafe
<1>7. CASE Die(p)
  <2>1. run'[p].step = "idle"
    BY <1>1, <1>3, <1>7, JobLeaves DEF Die, JobTypes, Existing
  <2> QED
    BY <1>4, <2>1 DEF StepIsSafe
<1> QED
  BY <1>5, <1>6, <1>7 DEF Existing

LEMMA SnapshotIsSafe ==
  ASSUME TypeOK, BackupInv, HealthInv, NEW p \in Run, Snapshot(p)
  PROVE  StepIsSafe(p)
<1>1. run[p].step = "snapshot" /\ UNCHANGED <<today, records, local, remote>>
  BY DEF Snapshot, world, files
<1>2. JobTypes /\ InOrder /\ today \in Day /\ RunFits(p) /\ run[p].settings \in Settings
  BY <1>1, RunKnows
<1>3. InOrder' /\ Advances /\ Arrives
  BY <1>1, <1>2, DailyTheSame
<1>4. PICK copy : /\ copy = [db |-> run[p].settings.db, records |-> records[run[p].settings.db]]
                  /\ run' = [run EXCEPT ![p] = [@ EXCEPT !.step = "archive", !.snapshot = copy]]
  BY DEF Snapshot
<1>5. copy # Torn
  <2>1. copy \in [db : Database, records : 0 .. MaxRecords]
    BY <1>2, <1>4, TypeParts DEF Settings, WorldTypes
  <2> QED
    BY <2>1, NothingIsNone
<1>6. run'[p].step = "archive" /\ run'[p].kind = "daily" /\ run'[p].snapshot = copy
  BY <1>1, <1>2, <1>4 DEF JobTypes, Job, RunFits
<1>7. DailyIsSafe(p)'
  BY <1>5, <1>6 DEF DailyIsSafe
<1> QED
  BY <1>3, <1>7 DEF StepIsSafe

LEMMA UploadIsSafe ==
  ASSUME TypeOK, BackupInv, HealthInv, NEW p \in Run, Upload(p)
  PROVE  StepIsSafe(p)
<1>1. /\ run[p].step = "upload" /\ Goto(p, "confirm")
      /\ Copy(run[p].settings.root, run[p].kind, run[p].stamp, Mine(p))
      /\ UNCHANGED <<today, local, lock, log, kept>>
  BY DEF Upload, world
<1>2. PICK s \in Day, k \in Kind, t \in Root, g \in Generation :
        s = run[p].stamp /\ k = run[p].kind /\ t = run[p].settings.root /\ g = Mine(p)
  BY <1>1, RunKnows
<1>3. FileTypes /\ JobTypes /\ InOrder /\ today \in Day /\ DailyIsSafe(p)
  BY <1>1, RunKnows
<1>4. /\ remote'[t][k][s] = g /\ g = local[k][s]
      /\ \A u \in Root, j \in Kind, e \in Day :
           u # t \/ j # k \/ e # s => remote'[u][j][e] = remote[u][j][e]
  BY <1>1, <1>2, <1>3, CopyIsRemote DEF Mine
<1>5. \A u \in Root, d \in Day : /\ k = "daily" /\ u = t /\ d = s
                                 \/ remote'[u]["daily"][d] = remote[u]["daily"][d]
  BY <1>4, DailyIsAKind
<1>6. \A d \in Archives(local["daily"]) : IsCopied(d) => IsCopied(d)'
  BY <1>1, <1>4, <1>5 DEF IsCopied, Archives
<1>7. InOrder' /\ Advances /\ Arrives
  BY <1>1, <1>3, <1>6, DailyUntouched
<1>8. /\ run'[p].step = "confirm" /\ run'[p].kind = k
      /\ run'[p].stamp = s /\ run'[p].snapshot = run[p].snapshot
      /\ run'[p].settings = run[p].settings
  BY <1>1, <1>2, <1>3, JobGoesTo DEF JobSteps
<1>9. DailyIsSafe(p)'
  <2>1. CASE k = "daily"
    <3>1. /\ Verified(local["daily"][s]) /\ run[p].snapshot # Torn
          /\ remote'[t]["daily"][s].archive = local["daily"][s].archive
      BY <1>1, <1>2, <1>3, <1>4, <2>1 DEF DailyIsSafe
    <3> QED
      BY <1>1, <1>2, <1>8, <2>1, <3>1 DEF DailyIsSafe
  <2>2. CASE k # "daily"
    BY <1>1, <1>2, <1>3, <1>5, <1>8, <2>2 DEF DailyIsSafe
  <2> QED
    BY <2>1, <2>2
<1> QED
  BY <1>7, <1>9 DEF StepIsSafe

LEMMA ConfirmIsSafe ==
  ASSUME TypeOK, BackupInv, HealthInv, NEW p \in Run, Confirm(p)
  PROVE  StepIsSafe(p)
<1>1. run[p].step = "confirm" /\ UNCHANGED <<today, local, remote, kept>>
  BY DEF Confirm, world, files
<1>2. JobTypes /\ InOrder /\ today \in Day /\ DailyIsSafe(p)
  BY <1>1, RunKnows
<1>3. InOrder' /\ Advances /\ Arrives
  BY <1>1, <1>2, DailyTheSame
<1>4. CASE Die(p)
  <2>1. run'[p].step = "idle"
    BY <1>1, <1>2, <1>4, JobLeaves DEF Die, JobTypes
  <2> QED
    BY <1>3, <2>1 DEF StepIsSafe
<1>5. ASSUME NEW step \in {"prune", "existing"}, NEW next \in Kind,
             next # "daily" \/ step = "prune",
             run' = [run EXCEPT ![p] = [@ EXCEPT !.step = step, !.kind = next]]
      PROVE  StepIsSafe(p)
  <2>1. /\ run'[p].step = step /\ run'[p].kind = next
        /\ run'[p].stamp = run[p].stamp /\ run'[p].snapshot = run[p].snapshot
        /\ run'[p].settings = run[p].settings
    BY <1>2, <1>5 DEF JobTypes, Job
  <2>2. DailyIsSafe(p)'
    BY <1>1, <1>2, <1>5, <2>1 DEF DailyIsSafe
  <2> QED
    BY <1>3, <2>2 DEF StepIsSafe
<1>6. CASE run' = [run EXCEPT ![p] = [@ EXCEPT !.step = "prune"]]
  <2>1. /\ run'[p].step = "prune" /\ run'[p].kind = run[p].kind
        /\ run'[p].stamp = run[p].stamp /\ run'[p].snapshot = run[p].snapshot
        /\ run'[p].settings = run[p].settings
    BY <1>2, <1>6 DEF JobTypes, Job
  <2>2. DailyIsSafe(p)'
    BY <1>1, <1>2, <2>1 DEF DailyIsSafe
  <2> QED
    BY <1>3, <2>2 DEF StepIsSafe
<1> QED
  BY <1>4, <1>5, <1>6 DEF Confirm, Kind

(* The part of a generation that a step of a run makes.                    *)
LEMMA MakesPart ==
  ASSUME TypeOK, BackupInv, HealthInv, NEW p \in Run, run[p].step # "idle",
         NEW g \in Generation, Put(run[p].kind, run[p].stamp, g), UNCHANGED <<today, remote>>,
         run[p].kind = "daily" => Mine(p).meta = None /\ g.sum # Torn,
         \/ ~ Started(Mine(p)) /\ (run[p].kind = "daily" => g.written = today)
         \/ /\ g.archive = Mine(p).archive /\ g.written = Mine(p).written
            /\ Mine(p).sum # None => g.sum = Mine(p).sum
  PROVE  /\ InOrder' /\ Advances /\ Arrives
         /\ local'[run[p].kind][run[p].stamp] = g
         /\ run[p].kind # "daily" =>
              \A d \in Day : local'["daily"][d] = local["daily"][d]
<1>1. PICK s \in Day, k \in Kind : s = run[p].stamp /\ k = run[p].kind
  BY RunKnows
<1>2. FileTypes /\ InOrder /\ today \in Day /\ s <= today /\ DatesFit(s)
  BY <1>1, RunKnows
<1>3. /\ local'[k][s] = g
      /\ \A j \in Kind, e \in Day : j # k \/ e # s => local'[j][e] = local[j][e]
  BY <1>1, <1>2, PutIsLocal
<1>4. CASE k # "daily"
  <2>1. \A d \in Day : local'["daily"][d] = local["daily"][d]
    BY <1>3, <1>4, DailyIsAKind
  <2>2. InOrder' /\ Advances /\ Arrives
    BY <1>2, <2>1, DailyTheSame
  <2> QED
    BY <1>1, <1>3, <2>1, <2>2
<1>5. CASE k = "daily"
  <2>1. /\ local'["daily"][s] = g /\ Mine(p) = local["daily"][s]
        /\ \A d \in Day \ {s} : local'["daily"][d] = local["daily"][d]
    BY <1>1, <1>3, <1>5 DEF Mine
  <2>2. CASE ~ Started(Mine(p)) /\ g.written = today
    <3>1. \A d \in Archives(local["daily"]) : d < s
      <4> SUFFICES ASSUME NEW d \in Archives(local["daily"])
                   PROVE  d < s
        OBVIOUS
      <4>1. d \in Day /\ Started(local["daily"][d])
        BY DEF Archives, Started
      <4>2. d # s /\ d <= s
        BY <1>2, <2>1, <2>2, <4>1, DailyIsAKind DEF DatesFit
      <4> QED
        BY <4>1, <4>2, DaysAreNumbers
    <3> QED
      BY <1>1, <1>2, <1>3, <1>5, <2>1, <2>2, <3>1, DailyAppears
  <2>3. CASE /\ g.archive = Mine(p).archive /\ g.written = Mine(p).written
             /\ Mine(p).sum # None => g.sum = Mine(p).sum
    BY <1>1, <1>2, <1>3, <1>5, <2>1, <2>3, DailyGrows
  <2> QED
    BY <1>1, <1>5, <2>2, <2>3
<1> QED
  BY <1>4, <1>5

LEMMA MakeArchiveIsSafe ==
  ASSUME TypeOK, BackupInv, HealthInv, NEW p \in Run, MakeArchive(p)
  PROVE  StepIsSafe(p)
<1>1. run[p].step = "archive" /\ UNCHANGED <<today, remote, kept>>
  BY DEF MakeArchive, world
<1>2. PICK s \in Day, k \in Kind : s = run[p].stamp /\ k = run[p].kind
  BY <1>1, RunKnows
<1>3. /\ FileTypes /\ JobTypes /\ InOrder /\ today \in Day /\ DailyIsSafe(p) /\ RunFits(p)
      /\ Mine(p) \in Generation /\ SnapshotDb(p) \in Archive
      /\ local["daily"][s] \in Generation
  BY <1>1, <1>2, RunKnows
<1>4. CASE Die(p) /\ UNCHANGED local
  <2>1. run'[p].step = "idle"
    BY <1>1, <1>3, <1>4, JobLeaves DEF Die, JobTypes
  <2>2. InOrder' /\ Advances /\ Arrives
    BY <1>1, <1>3, <1>4, DailyTheSame
  <2> QED
    BY <2>1, <2>2 DEF StepIsSafe
<1>5. ASSUME /\ Put(run[p].kind, run[p].stamp,
                  [Mine(p) EXCEPT
                     !.archive = IF run[p].kind = "weekly" THEN local["daily"][run[p].stamp].archive
                                 ELSE SnapshotDb(p),
                     !.written = IF run[p].kind = "weekly" THEN local["daily"][run[p].stamp].written
                                 ELSE today])
             /\ Goto(p, "sum") /\ UNCHANGED <<lock, log>>
      PROVE  StepIsSafe(p)
  <2>1. PICK made \in Archive, date \in Day \cup {None} :
          /\ made = IF k = "weekly" THEN local["daily"][s].archive ELSE SnapshotDb(p)
          /\ date = IF k = "weekly" THEN local["daily"][s].written ELSE today
          /\ Put(k, s, [Mine(p) EXCEPT !.archive = made, !.written = date])
    BY <1>2, <1>3, <1>5 DEF Generation, Archive
  <2>2. PICK g \in Generation : g = [Mine(p) EXCEPT !.archive = made, !.written = date]
    BY <1>3 DEF Generation, Archive
  <2>3. /\ ~ Started(Mine(p)) /\ Mine(p).meta = None
        /\ g.sum = None /\ g.written = date
    BY <1>1, <1>3, <2>2 DEF RunFits, Started, Generation
  <2>4. /\ InOrder' /\ Advances /\ Arrives
        /\ k # "daily" => \A d \in Day : local'["daily"][d] = local["daily"][d]
    BY <1>1, <1>2, <2>1, <2>2, <2>3, DailyIsAKind, MakesPart
  <2>5. /\ run'[p].step = "sum" /\ run'[p].kind = k
        /\ run'[p].stamp = s /\ run'[p].snapshot = run[p].snapshot
        /\ run'[p].settings = run[p].settings
    BY <1>1, <1>2, <1>3, <1>5, JobGoesTo DEF JobSteps
  <2>6. DailyIsSafe(p)'
    BY <1>1, <1>2, <1>3, <2>4, <2>5 DEF DailyIsSafe
  <2> QED
    BY <2>4, <2>6 DEF StepIsSafe
<1> QED
  BY <1>4, <1>5 DEF MakeArchive

LEMMA MakeSumIsSafe ==
  ASSUME TypeOK, BackupInv, HealthInv, NEW p \in Run, MakeSum(p)
  PROVE  StepIsSafe(p)
<1>1. /\ run[p].step = "sum" /\ Goto(p, "meta")
      /\ Put(run[p].kind, run[p].stamp, [Mine(p) EXCEPT !.sum = Mine(p).archive])
      /\ UNCHANGED <<today, remote, lock, log, kept>>
  BY DEF MakeSum, world
<1>2. PICK s \in Day, k \in Kind : s = run[p].stamp /\ k = run[p].kind
  BY <1>1, RunKnows
<1>3. JobTypes /\ DailyIsSafe(p) /\ RunFits(p) /\ Mine(p) \in Generation
  BY <1>1, RunKnows
<1>4. PICK g \in Generation : g = [Mine(p) EXCEPT !.sum = Mine(p).archive]
  BY <1>3 DEF Generation
<1>5. /\ Mine(p).meta = None /\ Mine(p).sum = None /\ Mine(p).archive = SnapshotDb(p)
      /\ g.archive = Mine(p).archive /\ g.written = Mine(p).written /\ g.sum = Mine(p).archive
  BY <1>1, <1>3, <1>4 DEF RunFits, Generation
<1>6. k = "daily" => Mine(p).archive # Torn
  BY <1>1, <1>2, <1>3, <1>5 DEF RunFits, Making, SnapshotDb, DailyIsSafe
<1>7. /\ InOrder' /\ Advances /\ Arrives
      /\ k # "daily" => \A d \in Day : local'["daily"][d] = local["daily"][d]
  BY <1>1, <1>2, <1>4, <1>5, <1>6, MakesPart
<1>8. /\ run'[p].step = "meta" /\ run'[p].kind = k
      /\ run'[p].stamp = s /\ run'[p].snapshot = run[p].snapshot
      /\ run'[p].settings = run[p].settings
  BY <1>1, <1>2, <1>3, JobGoesTo DEF JobSteps
<1>9. DailyIsSafe(p)'
  BY <1>1, <1>2, <1>3, <1>7, <1>8 DEF DailyIsSafe
<1> QED
  BY <1>7, <1>9 DEF StepIsSafe

LEMMA MakeMetaIsSafe ==
  ASSUME TypeOK, BackupInv, HealthInv, NEW p \in Run, MakeMeta(p)
  PROVE  StepIsSafe(p)
<1>1. run[p].step = "meta" /\ UNCHANGED <<today, remote, kept>>
  BY DEF MakeMeta, world
<1>2. PICK s \in Day, k \in Kind : s = run[p].stamp /\ k = run[p].kind
  BY <1>1, RunKnows
<1>3. /\ FileTypes /\ JobTypes /\ InOrder /\ today \in Day /\ DailyIsSafe(p) /\ RunFits(p)
      /\ Mine(p) \in Generation /\ SnapshotDb(p) \in Archive /\ run[p].settings \in Settings
      /\ local["daily"][s] \in Generation
  BY <1>1, <1>2, RunKnows
<1>4. CASE Die(p) /\ UNCHANGED local
  <2>1. run'[p].step = "idle"
    BY <1>1, <1>3, <1>4, JobLeaves DEF Die, JobTypes
  <2>2. InOrder' /\ Advances /\ Arrives
    BY <1>1, <1>3, <1>4, DailyTheSame
  <2> QED
    BY <2>1, <2>2 DEF StepIsSafe
<1>5. ASSUME NEW made, IsSound(SnapshotDb(p)),
             made = [Mine(p) EXCEPT !.meta =
                      [digest |-> Mine(p).archive, records |-> SnapshotDb(p).records,
                       db |-> run[p].settings.db]],
             Put(run[p].kind, run[p].stamp, made),
             \/ Goto(p, "upload") /\ UNCHANGED <<lock, log>> /\ Verified(made)
             \/ Die(p)
      PROVE  StepIsSafe(p)
  <2>1. /\ Mine(p).archive = SnapshotDb(p) /\ Mine(p).sum = SnapshotDb(p) /\ Mine(p).meta = None
        /\ SnapshotDb(p) \in Content \ {Torn}
    BY <1>1, <1>3, <1>5 DEF RunFits, IsSound, Archive
  <2>2. SnapshotDb(p).records \in 0 .. MaxRecords
    BY <2>1 DEF Content
  <2>3. PICK meta \in Meta :
          meta = [digest |-> Mine(p).archive, records |-> SnapshotDb(p).records,
                  db |-> run[p].settings.db]
    BY <1>3, <2>1, <2>2 DEF Meta, Settings
  <2>4. made \in Generation
    BY <1>3, <1>5, <2>3 DEF Generation
  <2>5. made.archive = Mine(p).archive /\ made.written = Mine(p).written /\ made.sum = Mine(p).sum
    BY <1>3, <1>5 DEF Generation
  <2>6. /\ InOrder' /\ Advances /\ Arrives /\ local'[k][s] = made
        /\ k # "daily" => \A d \in Day : local'["daily"][d] = local["daily"][d]
    BY <1>1, <1>2, <1>5, <2>1, <2>4, <2>5, MakesPart
  <2>7. CASE Die(p)
    <3>1. run'[p].step = "idle"
      BY <1>1, <1>3, <2>7, JobLeaves DEF Die, JobTypes
    <3> QED
      BY <2>6, <3>1 DEF StepIsSafe
  <2>8. CASE Goto(p, "upload") /\ UNCHANGED <<lock, log>> /\ Verified(made)
    <3>1. /\ run'[p].step = "upload" /\ run'[p].kind = k
          /\ run'[p].stamp = s /\ run'[p].snapshot = run[p].snapshot
          /\ run'[p].settings = run[p].settings
      BY <1>1, <1>2, <1>3, <2>8, JobGoesTo DEF JobSteps
    <3>2. CASE k = "daily"
      <4>1. Verified(local'["daily"][s])
        BY <2>6, <2>8, <3>2
      <4>2. DailyIsSafe(p)'
        BY <1>3, <3>1, <3>2, <4>1 DEF DailyIsSafe, Verified, Complete
      <4> QED
        BY <2>6, <4>2 DEF StepIsSafe
    <3>3. CASE k # "daily"
      <4>1. DailyIsSafe(p)'
        BY <1>1, <1>2, <1>3, <2>6, <3>1, <3>3 DEF DailyIsSafe
      <4> QED
        BY <2>6, <4>1 DEF StepIsSafe
    <3> QED
      BY <3>2, <3>3
  <2> QED
    BY <1>5, <2>7, <2>8
<1> QED
  BY <1>4, <1>5 DEF MakeMeta

LEMMA PruneLocalIsSafe ==
  ASSUME TypeOK, BackupInv, HealthInv, NEW p \in Run, PruneLocal(p)
  PROVE  StepIsSafe(p)
<1>1. /\ run[p].step = "prune" /\ Goto(p, "prune_remote")
      /\ local' = [k \in Kind |->
           Pruned(local[k], IF k = "daily" THEN LocalDailyKeep ELSE WeeklyKeep)]
      /\ UNCHANGED <<today, remote, lock, log, kept>>
  BY DEF PruneLocal, world
<1>2. PICK s \in Day : s = run[p].stamp
  BY <1>1, RunKnows
<1>3. FileTypes /\ JobTypes /\ InOrder /\ today \in Day /\ DailyIsSafe(p) /\ DatesFit(s)
  BY <1>1, <1>2, RunKnows
<1>4. \A d \in Day :
        \/ local'["daily"][d] = local["daily"][d]
        \/ /\ local'["daily"][d] = NoGeneration
           /\ \E e \in Day : e > d /\ Started(local["daily"][e])
  <2>1. local'["daily"] = Pruned(local["daily"], LocalDailyKeep)
    BY <1>1, DailyIsAKind
  <2>2. local["daily"] \in [Day -> Generation]
    BY <1>3, DailyIsAKind DEF FileTypes
  <2> QED
    BY <2>1, <2>2, CountsFit, PrunedFits
<1>5. \A d \in Day : s > d \/ local'["daily"][d] = local["daily"][d]
  <2> SUFFICES ASSUME NEW d \in Day, NEW e \in Day, e > d, Started(local["daily"][e])
               PROVE  s > d
    BY <1>4
  <2>1. e <= s
    BY <1>3, DailyIsAKind DEF DatesFit
  <2> QED
    BY <2>1, DaysAreNumbers
<1>6. local'["daily"][s] = local["daily"][s]
  BY <1>5, DaysAreNumbers
<1>7. /\ run'[p].step = "prune_remote" /\ run'[p].kind = run[p].kind
      /\ run'[p].stamp = s /\ run'[p].snapshot = run[p].snapshot
      /\ run'[p].settings = run[p].settings
  BY <1>1, <1>2, <1>3, JobGoesTo DEF JobSteps
<1>8. DailyIsSafe(p)'
  BY <1>1, <1>2, <1>3, <1>6, <1>7 DEF DailyIsSafe
<1>9. Stored(s)'
  <2>1. /\ Verified(local["daily"][s]) /\ run[p].settings.root \in Root
        /\ remote[run[p].settings.root]["daily"][s].archive = local["daily"][s].archive
    BY <1>1, <1>2, <1>3, RunKnows DEF DailyIsSafe
  <2> QED
    BY <1>1, <1>6, <2>1 DEF Stored, IsCopied, Verified, Complete
<1>10. \A d \in Day : IsCopied(d) /\ local'["daily"][d] = local["daily"][d] => IsCopied(d)'
  BY <1>1 DEF IsCopied
<1>11. \A d \in Day :
         \/ local'["daily"][d] = local["daily"][d]
         \/ /\ local'["daily"][d].archive = None
            /\ local'["daily"][d].sum \in {None, local["daily"][d].sum}
  BY <1>4, NoGenerationFits
<1>12. InOrder' /\ Advances /\ Arrives
  BY <1>1, <1>3, <1>5, <1>9, <1>10, <1>11, DailyThins
<1> QED
  BY <1>8, <1>12 DEF StepIsSafe

(* A copy under the name of a date is under the name of its archive.       *)
LEMMA PruneRemoteIsSafe ==
  ASSUME TypeOK, BackupInv, HealthInv, NEW p \in Run, PruneRemote(p)
  PROVE  StepIsSafe(p) /\ (kept' => KeptFits')
<1>1. /\ run[p].step = "prune_remote" /\ Leave(p) /\ log' = "success"
      /\ kept' = (/\ run[p].stamp = today
                  /\ run[p].settings = ScheduledSettings
                  /\ local["daily"][today].meta # None
                  /\ local["daily"][today].meta.db = ScheduledSettings.db)
      /\ UNCHANGED <<today, crontab, local>>
  BY DEF PruneRemote, world
<1>2. PICK s \in Day, t \in Root : s = run[p].stamp /\ t = run[p].settings.root
  BY <1>1, RunKnows
<1>3. FileTypes /\ JobTypes /\ InOrder /\ today \in Day /\ DailyIsSafe(p) /\ DatesFit(s)
  BY <1>1, <1>2, RunKnows
<1>4. remote[t]["daily"] \in [Day -> Generation]
  BY <1>3, DailyIsAKind DEF FileTypes
<1>5. \A u \in Root, d \in Day :
        \/ remote'[u]["daily"][d] = remote[u]["daily"][d]
        \/ /\ u = t
           /\ \E e \in Day : e > d /\ remote[t]["daily"][e].archive # None
  <2>1. remote' = [remote EXCEPT ![t] = [k \in Kind |->
          Pruned(remote[t][k], IF k = "daily" THEN RemoteDailyKeep ELSE WeeklyKeep)]]
    BY <1>2 DEF PruneRemote
  <2>2. remote'[t]["daily"] = Pruned(remote[t]["daily"], RemoteDailyKeep)
    BY <1>3, <2>1, DailyIsAKind DEF FileTypes
  <2>3. \A u \in Root \ {t} : remote'[u] = remote[u]
    BY <1>3, <2>1 DEF FileTypes
  <2>4. \A d \in Day :
          \/ remote'[t]["daily"][d] = remote[t]["daily"][d]
          \/ \E e \in Day : e > d /\ remote[t]["daily"][e].archive # None
    BY <1>4, <2>2, CountsFit, PrunedFits
  <2> QED
    BY <2>3, <2>4
<1>6. \A u \in Root, d \in Day : s > d \/ remote'[u]["daily"][d] = remote[u]["daily"][d]
  <2> SUFFICES ASSUME NEW d \in Day, NEW e \in Day, e > d,
                      remote[t]["daily"][e].archive # None
               PROVE  s > d
    BY <1>5
  <2>1. e <= s
    BY <1>3, DailyIsAKind DEF DatesFit
  <2> QED
    BY <2>1, DaysAreNumbers
<1>7. /\ Verified(local["daily"][s])
      /\ remote[t]["daily"][s].archive = local["daily"][s].archive
  BY <1>1, <1>2, <1>3 DEF DailyIsSafe
<1>8. remote'[t]["daily"][s] = remote[t]["daily"][s]
  BY <1>6, DaysAreNumbers
<1>9. Stored(s)'
  BY <1>1, <1>7, <1>8 DEF Stored, IsCopied, Verified, Complete
<1>10. \A d \in Day : s > d \/ (IsCopied(d) => IsCopied(d)')
  BY <1>1, <1>6 DEF IsCopied
<1>11. InOrder' /\ Advances /\ Arrives
  BY <1>1, <1>3, <1>9, <1>10, DailyThins
<1>12. run'[p].step = "idle" /\ lock' = None
  BY <1>1, <1>3, NoJobFits, NobodyElse DEF Leave, JobTypes
<1>13. ASSUME kept'
       PROVE  KeptFits'
  <2>1. s = today /\ t = ScheduledSettings.root /\ ScheduledSettings = run[p].settings
    BY <1>1, <1>2, <1>13
  <2>2. ScheduledSettings' = ScheduledSettings
    BY <1>1 DEF ScheduledSettings
  <2> QED
    BY <1>1, <1>7, <1>8, <1>12, <1>13, <2>1, <2>2 DEF KeptFits, Verified, Complete
<1> QED
  BY <1>11, <1>12, <1>13 DEF StepIsSafe

LEMMA CutShortIsSafe ==
  ASSUME TypeOK, BackupInv, HealthInv, NEW p \in Run, CutShort(p)
  PROVE  StepIsSafe(p)
<1>1. run[p].step # "idle" /\ Leave(p) /\ UNCHANGED today
  BY DEF CutShort
<1>2. PICK s \in Day, t \in Root, k \in Kind :
        s = run[p].stamp /\ t = run[p].settings.root /\ k = run[p].kind
  BY <1>1, RunKnows
<1>3. /\ FileTypes /\ JobTypes /\ InOrder /\ today \in Day /\ DailyIsSafe(p) /\ DatesFit(s)
      /\ Mine(p) \in Generation /\ Mine(p) = local[k][s]
  BY <1>1, <1>2, RunKnows DEF Mine
<1>4. run'[p].step = "idle"
  BY <1>1, <1>3, NoJobFits DEF Leave, JobTypes
<1>5. SUFFICES InOrder' /\ Advances /\ Arrives
  BY <1>4 DEF StepIsSafe
<1>6. CASE UNCHANGED files
  BY <1>1, <1>3, <1>6, DailyTheSame DEF files
<1>7. CASE /\ Put("weekly", run[p].stamp, [Mine(p) EXCEPT !.archive = Torn, !.written = today])
           /\ UNCHANGED remote
  <2>1. PICK g \in Generation : g = [Mine(p) EXCEPT !.archive = Torn, !.written = today]
    BY <1>3, NothingIsNone DEF Generation
  <2>2. \A d \in Day : local'["daily"][d] = local["daily"][d]
    BY <1>2, <1>3, <1>7, <2>1, PutIsLocal DEF Kind
  <2> QED
    BY <1>1, <1>3, <1>7, <2>2, DailyTheSame
<1>8. CASE /\ run[p].step = "prune" /\ UNCHANGED remote
           /\ \E d \in Expired(local["daily"], LocalDailyKeep) :
                Put("daily", d, [local["daily"][d] EXCEPT !.archive = None, !.written = None])
  <2>1. PICK x \in Expired(local["daily"], LocalDailyKeep) :
          Put("daily", x, [local["daily"][x] EXCEPT !.archive = None, !.written = None])
    BY <1>8
  <2>2. local["daily"] \in [Day -> Generation] /\ x \in Day
    BY <1>3, DailyIsAKind DEF FileTypes, Expired, Archives
  <2>3. PICK e \in Day : e > x /\ Started(local["daily"][e])
    BY <2>2, CountsFit, ExpiredIsOld
  <2>4. s > x
    <3>1. e <= s
      BY <1>3, <2>3, DailyIsAKind DEF DatesFit
    <3> QED
      BY <2>2, <2>3, <3>1, DaysAreNumbers
  <2>5. PICK g \in Generation :
          g = [local["daily"][x] EXCEPT !.archive = None, !.written = None]
    BY <2>2 DEF Generation
  <2>6. g.archive = None /\ g.sum = local["daily"][x].sum
    BY <2>2, <2>5 DEF Generation
  <2>7. /\ local'["daily"][x] = g
        /\ \A d \in Day \ {x} : local'["daily"][d] = local["daily"][d]
    BY <1>3, <2>1, <2>2, <2>5, DailyIsAKind, PutIsLocal
  <2>8. Stored(s)'
    <3>1. /\ Verified(local["daily"][s])
          /\ remote[t]["daily"][s].archive = local["daily"][s].archive
      BY <1>2, <1>3, <1>8 DEF DailyIsSafe
    <3>2. local'["daily"][s] = local["daily"][s]
      BY <2>4, <2>7, DaysAreNumbers
    <3> QED
      BY <1>8, <3>1, <3>2 DEF Stored, IsCopied, Verified, Complete
  <2>9. \A d \in Day : /\ \/ local'["daily"][d] = local["daily"][d]
                          \/ /\ local'["daily"][d].archive = None
                             /\ local'["daily"][d].sum \in {None, local["daily"][d].sum}
                       /\ s > d \/ local'["daily"][d] = local["daily"][d]
    BY <2>4, <2>6, <2>7
  <2>10. \A d \in Day : IsCopied(d) /\ local'["daily"][d] = local["daily"][d] => IsCopied(d)'
    BY <1>8 DEF IsCopied
  <2> QED
    BY <1>1, <1>3, <2>8, <2>9, <2>10, DailyThins
<1>9. ASSUME UNCHANGED local, NEW contents \in {Mine(p).archive, Torn},
             contents # Mine(p).archive =>
               remote[run[p].settings.root][run[p].kind][run[p].stamp].archive # Mine(p).archive,
             Copy(run[p].settings.root, run[p].kind, run[p].stamp,
                  [remote[run[p].settings.root][run[p].kind][run[p].stamp] EXCEPT
                     !.archive = contents, !.written = Mine(p).written])
      PROVE  InOrder' /\ Advances /\ Arrives
  <2>1. remote[t][k][s] \in Generation
    BY <1>3 DEF FileTypes
  <2>2. PICK g \in Generation :
          g = [remote[t][k][s] EXCEPT !.archive = contents, !.written = Mine(p).written]
    BY <1>3, <1>9, <2>1, NothingIsNone DEF Generation
  <2>3. g.archive = contents
    BY <2>1, <2>2 DEF Generation
  <2>4. /\ remote'[t][k][s] = g
        /\ \A u \in Root, j \in Kind, e \in Day :
             u # t \/ j # k \/ e # s => remote'[u][j][e] = remote[u][j][e]
    <3>1. Copy(t, k, s, g)
      BY <1>2, <1>9, <2>2
    <3> QED
      BY <1>3, <3>1, CopyIsRemote
  <2>5. \A u \in Root, d \in Day : /\ k = "daily" /\ u = t /\ d = s
                                   \/ remote'[u]["daily"][d] = remote[u]["daily"][d]
    BY <2>4, DailyIsAKind
  <2>6. contents = local[k][s].archive \/ remote[t][k][s].archive # local[k][s].archive
    BY <1>2, <1>3, <1>9
  <2>7. \A d \in Archives(local["daily"]) : IsCopied(d) => IsCopied(d)'
    <3> SUFFICES ASSUME NEW d \in Day, NEW u \in Root,
                        remote[u]["daily"][d].archive = local["daily"][d].archive
                 PROVE  remote'[u]["daily"][d].archive = local["daily"][d].archive
      BY <1>9 DEF IsCopied, Archives
    <3>1. CASE k = "daily" /\ u = t /\ d = s
      BY <2>3, <2>4, <2>6, <3>1
    <3>2. CASE ~ (k = "daily" /\ u = t /\ d = s)
      BY <2>5, <3>2
    <3> QED
      BY <3>1, <3>2
  <2> QED
    BY <1>1, <1>3, <1>9, <2>7, DailyUntouched
<1> QED
  BY <1>6, <1>7, <1>8, <1>9 DEF CutShort

(* What a run does to lock, log and the check that is under way.           *)
LEMMA StepOfRun ==
  ASSUME TypeOK, BackupInv, HealthInv, NEW p \in Run, JobNext(p), run[p].step # "idle"
  PROVE  /\ StepIsSafe(p)
         /\ lock = p /\ lock' \in {p, None}
         /\ today' = today /\ crontab' = crontab
         /\ \/ Touched
            \/ UNCHANGED <<watch, kept>>
            \/ UNCHANGED watch /\ (kept' => KeptFits')
<1>1. JobTypes /\ ~ Start(p)
  BY TypeParts DEF Start
<1>2. StepIsSafe(p)
  BY <1>1, ExistingIsSafe, SnapshotIsSafe, MakeArchiveIsSafe, MakeSumIsSafe, MakeMetaIsSafe,
     UploadIsSafe, ConfirmIsSafe, PruneLocalIsSafe, PruneRemoteIsSafe, CutShortIsSafe DEF JobNext
<1>3. lock = p
  BY <1>1, NobodyElse
<1>4. lock' \in {p, None}
  BY <1>1, <1>3
  DEF JobNext, Existing, Snapshot, MakeArchive, MakeSum, MakeMeta, Upload, Confirm, PruneLocal,
      PruneRemote, CutShort, Die, Leave
<1>5. today' = today /\ crontab' = crontab
  BY <1>1
  DEF JobNext, Existing, Snapshot, MakeArchive, MakeSum, MakeMeta, Upload, Confirm, PruneLocal,
      PruneRemote, CutShort, world
<1>6. \/ Touched
      \/ UNCHANGED <<watch, kept>>
      \/ UNCHANGED watch /\ (kept' => KeptFits')
  <2>1. CASE PruneRemote(p)
    BY <2>1, PruneRemoteIsSafe DEF PruneRemote
  <2>2. CASE ~ PruneRemote(p)
    BY <1>1, <2>2
    DEF JobNext, Existing, Snapshot, MakeArchive, MakeSum, MakeMeta, Upload, Confirm, PruneLocal,
        CutShort
  <2> QED
    BY <2>1, <2>2
<1> QED
  BY <1>2, <1>3, <1>4, <1>5, <1>6

-----------------------------------------------------------------------------
(* A check goes on while others take their steps.                          *)

LEMMA CheckGoesOn ==
  ASSUME TypeOK, TypeOK', watch.step # "idle", CheckFits, InOrder, InOrder', today <= today',
         Advances, Arrives,
         watch'.step = watch.step, watch'.settings = watch.settings,
         watch'.began = watch.began, watch'.artifact = watch.artifact,
         watch'.digest = watch.digest, watch'.failed = watch.failed,
         watch'.warned = watch.warned
  PROVE  CheckFits'
<1>1. /\ today \in Day /\ today' \in Day /\ watch.began \in Day
      /\ watch.artifact \in Day \cup {None} /\ watch \in Watch
  BY TypeParts, TypePartsNext DEF WorldTypes, WatchTypes, Watch
<1>2. watch.began <= today'
  <2>1. watch.began <= today
    BY DEF CheckFits
  <2>2. \A x, y, z \in Day : x <= y /\ y <= z => x <= z
    BY DaysAreNumbers
  <2> QED
    BY <1>1, <2>1, <2>2
<1>3. CASE watch.artifact = None
  BY <1>2, <1>3 DEF CheckFits
<1>4. CASE watch.artifact \in Day
  <2>1. PICK a \in Day : a = watch.artifact
    BY <1>4
  <2>2. a # None
    BY NothingIsNone
  <2>3. ASSUME NEW d \in Archives(local'["daily"]), d > a
        PROVE  local'["daily"][d].written >= watch.began
    <3>1. CASE d \in Archives(local["daily"])
               /\ local'["daily"][d].written = local["daily"][d].written
      BY <2>1, <2>2, <2>3, <3>1 DEF CheckFits
    <3>2. CASE local'["daily"][d].written = today
      BY <1>1, <3>2, DaysAreNumbers DEF CheckFits
    <3> QED
      BY <3>1, <3>2 DEF Arrives
  <2>4. ASSUME watch.failed = {}, ~watch.warned
        PROVE  Seen' \/ Replaced'
    <3>1. CASE Seen
      <4>1. a \in Archives(local["daily"])
        BY <2>1, <3>1 DEF Seen, Archives
      <4>2. CASE KeepsDaily(a)
        <5>1. Seen'
          BY <2>1, <3>1, <4>2 DEF Seen, KeepsDaily
        <5> QED
          BY <5>1
      <4>3. CASE \E e \in Day : e > a /\ Stored(e)'
        BY <2>1, <4>3 DEF Replaced
      <4> QED
        BY <4>1, <4>2, <4>3 DEF Advances
    <3>2. CASE Replaced
      <4>1. PICK d \in Day : d > a /\ Stored(d)
        BY <2>1, <3>2 DEF Replaced
      <4>2. d \in Archives(local["daily"])
        BY <4>1 DEF Stored, Verified, Complete, Archives
      <4>3. CASE KeepsDaily(d)
        <5>1. Stored(d)'
          BY <4>1, <4>3 DEF Stored, Verified, Complete, KeepsDaily
        <5> QED
          BY <2>1, <4>1, <5>1 DEF Replaced
      <4>4. CASE \E e \in Day : e > d /\ Stored(e)'
        <5>1. PICK e \in Day : e > d /\ Stored(e)'
          BY <4>4
        <5>2. e > a
          BY <4>1, <5>1, DaysAreNumbers
        <5> QED
          BY <2>1, <5>1, <5>2 DEF Replaced
      <4> QED
        BY <4>2, <4>3, <4>4 DEF Advances
    <3> QED
      BY <2>1, <2>2, <2>4, <3>1, <3>2 DEF CheckFits
  <2> QED
    BY <1>2, <2>1, <2>2, <2>3, <2>4 DEF CheckFits
<1> QED
  BY <1>1, <1>3, <1>4

LEMMA OthersKeepHealth ==
  ASSUME TypeOK, TypeOK', HealthInv, InOrder', Advances, Arrives, today <= today',
         \A r \in Run : run'[r].step # "idle" => DailyIsSafe(r)',
         \/ Touched
         \/ UNCHANGED watch /\ ~watch.kept /\ (kept' => KeptFits')
  PROVE  HealthInv'
<1>1. /\ watch'.step = watch.step /\ watch'.settings = watch.settings
      /\ watch'.began = watch.began /\ watch'.artifact = watch.artifact
      /\ watch'.digest = watch.digest /\ watch'.failed = watch.failed
      /\ watch'.warned = watch.warned /\ ~watch'.kept
  <2>1. watch \in Watch
    BY TypeParts DEF WatchTypes
  <2> QED
    BY <2>1 DEF Touched, Watch
<1>2. watch'.step # "idle" => CheckFits'
  BY <1>1, CheckGoesOn DEF HealthInv
<1>3. kept' => KeptFits'
  BY DEF Touched
<1> QED
  BY <1>1, <1>2, <1>3 DEF HealthInv

LEMMA RunKeepsHealth ==
  ASSUME TypeOK, BackupInv, HealthInv, TypeOK', NEW p \in Run, JobNext(p)
  PROVE  HealthInv'
<1>1. WorldTypes /\ FileTypes /\ JobTypes /\ JobTypes' /\ today \in Day /\ p # None
  BY TypeParts, TypePartsNext, NothingIsNone DEF WorldTypes
<1>2. CASE run[p].step # "idle"
  <2>1. /\ StepIsSafe(p) /\ lock = p /\ lock' \in {p, None} /\ today' = today
        /\ \/ Touched
           \/ UNCHANGED <<watch, kept>>
           \/ UNCHANGED watch /\ (kept' => KeptFits')
    BY <1>2, StepOfRun
  <2>2. ~kept /\ ~watch.kept
    BY <1>1, <2>1 DEF HealthInv, KeptFits, CheckOfKeptFits
  <2>3. \A r \in Run : run'[r].step # "idle" => DailyIsSafe(r)'
    BY <1>1, <2>1, NothingIsNone DEF JobTypes, StepIsSafe
  <2>4. today <= today'
    BY <1>1, <2>1, DaysAreNumbers
  <2> QED
    BY <2>1, <2>2, <2>3, <2>4, OthersKeepHealth DEF StepIsSafe
<1>3. CASE run[p].step = "idle"
  <2>1. Start(p)
    BY <1>3
    DEF JobNext, Existing, Snapshot, MakeArchive, MakeSum, MakeMeta, Upload, Confirm, PruneLocal,
        PruneRemote, CutShort
  <2>2. Touched /\ UNCHANGED <<today, local, remote>>
    BY <2>1 DEF Start, world, files
  <2>3. InOrder' /\ Advances /\ Arrives
    BY <1>1, <2>2, DailyTheSame DEF HealthInv
  <2>4. today <= today'
    BY <1>1, <2>2, DaysAreNumbers
  <2>5. CASE UNCHANGED run
    <3>1. \A r \in Run : run'[r].step # "idle" => DailyIsSafe(r)'
      BY <2>2, <2>5 DEF HealthInv, DailyIsSafe
    <3> QED
      BY <2>2, <2>3, <2>4, <3>1, OthersKeepHealth
  <2>6. ASSUME NEW force, NEW settings, lock' = p,
               run' = [run EXCEPT ![p] = [NoJob EXCEPT
                          !.step = "existing", !.stamp = today,
                          !.force = force, !.settings = settings]]
        PROVE  HealthInv'
    <3>1. run'[p].step = "existing" /\ run'[p].kind = "daily" /\ run'[p].snapshot = None
      BY <1>1, <2>6, NoJobFits DEF JobTypes, Job
    <3>2. DailyIsSafe(p)'
      BY <3>1, DailyIsAKind DEF DailyIsSafe
    <3>3. \A r \in Run : run'[r].step # "idle" => DailyIsSafe(r)'
      BY <1>1, <2>6, <3>2 DEF JobTypes
    <3> QED
      BY <2>2, <2>3, <2>4, <3>3, OthersKeepHealth
  <2> QED
    BY <2>1, <2>5, <2>6 DEF Start
<1> QED
  BY <1>2, <1>3

-----------------------------------------------------------------------------
(* The steps of a check.                                                   *)

LEMMA NewestIsToday ==
  ASSUME TypeOK, InOrder, KeptFits
  PROVE  Newest(local["daily"]) = {today} /\ local["daily"][today].written = today
<1> DEFINE gens == local["daily"]
<1>1. today \in Day /\ today \in Archives(gens)
  BY TypeParts DEF WorldTypes, KeptFits, Verified, Complete, Archives
<1>2. \A d \in Archives(gens) :
        d \in Day /\ gens[d].written \in Day /\ d <= gens[d].written /\ gens[d].written <= today
  BY DEF InOrder, Archives
<1>3. gens[today].written = today
  BY <1>1, <1>2, DaysAreOrdered
<1>4. today \in Newest(gens)
  <2> SUFFICES ASSUME NEW e \in Archives(gens)
               PROVE  \/ gens[e].written < gens[today].written
                      \/ gens[e].written = gens[today].written /\ e <= today
    BY <1>1 DEF Newest
  <2>1. e \in Day /\ gens[e].written \in Day /\ e <= gens[e].written /\ gens[e].written <= today
    BY <1>2
  <2>2. gens[e].written < today \/ gens[e].written = today
    BY <1>1, <2>1, DaysAreOrdered
  <2> QED
    BY <1>3, <2>1, <2>2
<1>5. ASSUME NEW d \in Newest(gens)
      PROVE  d = today
  <2>1. d \in Archives(gens)
    BY DEF Newest
  <2>2. today < gens[d].written \/ today <= d
    BY <1>1, <1>3 DEF Newest
  <2>3. d \in Day /\ gens[d].written \in Day /\ d <= gens[d].written /\ gens[d].written <= today
    BY <1>2, <2>1
  <2> QED
    BY <1>1, <2>2, <2>3, DaysAreOrdered
<1> QED
  BY <1>3, <1>4, <1>5

LEMMA BeginCheckIsSafe ==
  ASSUME TypeOK, HealthInv, BeginCheck
  PROVE  HealthInv'
<1>1. /\ today \in Day /\ local["daily"] \in [Day -> Generation] /\ kept \in BOOLEAN
      /\ InOrder /\ (kept => KeptFits)
  BY TypeParts, DailyIsAKind DEF WorldTypes, FileTypes, JobTypes, HealthInv
<1>2. UNCHANGED <<today, crontab, records, local, remote, lock, run, log, kept>>
  BY DEF BeginCheck, world, files, job
<1>3. /\ InOrder' /\ (\A r \in Run : run'[r].step # "idle" => DailyIsSafe(r)')
      /\ (kept' => KeptFits')
  BY <1>2 DEF HealthInv, InOrder, DailyIsSafe, KeptFits, ScheduledSettings
<1>4. PICK started, found :
        /\ started \in Watch
        /\ found = If(~Scheduled, "schedule")
        /\ started = [NoWatch EXCEPT !.settings = WatchSettings, !.began = today, !.kept = kept,
                                     !.failed = found]
  <2>1. PICK found \in SUBSET Checks : found = If(~Scheduled, "schedule")
    BY DEF If, Checks
  <2>2. [NoWatch EXCEPT !.settings = WatchSettings, !.began = today, !.kept = kept,
                        !.failed = found] \in Watch
    BY <1>1, <2>1, NoWatchFits, ConfigurationsFit, TypeParts DEF Watch
  <2> QED
    BY <2>1, <2>2
<1>5. /\ started.settings = WatchSettings /\ started.began = today /\ started.kept = kept
      /\ started.failed = found /\ started.artifact = None /\ found \subseteq {"schedule"}
  BY <1>4, NoWatchFits DEF Watch, NoWatch, If
<1>6. CASE /\ Newest(local["daily"]) = {}
           /\ watch' = [started EXCEPT !.step = "rest", !.failed = @ \cup {"daily"}]
  <2>1. /\ watch'.step = "rest" /\ watch'.began = today /\ watch'.artifact = None
        /\ watch'.kept = kept /\ "daily" \in watch'.failed
    BY <1>5, <1>6 DEF Watch
  <2>2. ~kept
    BY <1>1, <1>6, NewestIsToday
  <2>3. CheckFits'
    BY <1>1, <1>2, <2>1, DaysAreNumbers DEF CheckFits
  <2> QED
    BY <1>3, <2>1, <2>2, <2>3 DEF HealthInv
<1>7. ASSUME NEW d \in Newest(local["daily"]),
             watch' = [started EXCEPT
               !.step = "checksum", !.artifact = d,
               !.failed = @ \cup If(today - local["daily"][d].written > DailyMaxAge, "daily")]
      PROVE  HealthInv'
  <2>1. d \in Archives(local["daily"]) /\ d \in Day /\ d # None
    BY NothingIsNone DEF Newest, Archives
  <2>2. PICK old : old = If(today - local["daily"][d].written > DailyMaxAge, "daily")
    OBVIOUS
  <2>3. /\ watch'.step = "checksum" /\ watch'.began = today /\ watch'.artifact = d
        /\ watch'.kept = kept /\ watch'.settings = WatchSettings
        /\ watch'.failed = found \cup old
    BY <1>5, <1>7, <2>2 DEF Watch
  <2>4. ASSUME NEW e \in Archives(local["daily"]), e > d
        PROVE  FALSE
    <3>1. /\ local["daily"][e].written < local["daily"][d].written \/ e <= d
          /\ local["daily"][d].written <= local["daily"][e].written
          /\ local["daily"][e].written \in Day /\ local["daily"][d].written \in Day /\ e \in Day
      BY <1>1, <2>1, <2>4, DaysAreNumbers DEF Newest, InOrder, Archives
    <3> QED
      BY <2>1, <2>4, <3>1, DaysAreNumbers
  <2>5. ASSUME watch'.failed = {}
        PROVE  Seen'
    <3>1. ~(today - local["daily"][d].written > DailyMaxAge)
      BY <2>2, <2>3, <2>5 DEF If
    <3>2. today - local["daily"][d].written <= DailyMaxAge
      <4>1. local["daily"][d].written \in Day
        BY <1>1, <2>1 DEF InOrder
      <4>2. \A x \in Day : today - x > DailyMaxAge \/ today - x <= DailyMaxAge
        BY <1>1, BackupAssumption, DaysAreNumbers
      <4> QED
        BY <3>1, <4>1, <4>2
    <3> QED
      BY <1>2, <2>1, <2>3, <3>2 DEF Seen, Archives
  <2>6. CheckFits'
    <3>1. today <= today
      BY <1>1, DaysAreNumbers
    <3> QED
      BY <1>2, <2>1, <2>3, <2>4, <2>5, <3>1 DEF CheckFits
  <2>7. ASSUME kept
        PROVE  CheckOfKeptFits'
    <3>1. d = today /\ local["daily"][d].written = today
      BY <1>1, <1>7, <2>7, NewestIsToday
    <3>2. old = {}
      <4>1. ~(today - today > DailyMaxAge)
        BY <1>1, DaysAreNumbers, BackupAssumption
      <4> QED
        BY <2>2, <3>1, <4>1 DEF If
    <3>3. WatchSettings' = WatchSettings
      BY <1>2 DEF WatchSettings, ScheduledSettings
    <3> QED
      BY <1>2, <1>5, <2>3, <2>7, <3>1, <3>2, <3>3 DEF CheckOfKeptFits
  <2> QED
    BY <1>2, <1>3, <2>3, <2>6, <2>7 DEF HealthInv
<1> QED
  BY <1>4, <1>6, <1>7 DEF BeginCheck

LEMMA GenerationsStay ==
  ASSUME HealthInv, UNCHANGED <<today, crontab, local, remote, lock, run, log, kept>>
  PROVE  /\ InOrder'
         /\ \A r \in Run : run'[r].step # "idle" => DailyIsSafe(r)'
         /\ kept' => KeptFits'
<1>1. InOrder'
  BY DEF HealthInv, InOrder
<1>2. \A r \in Run : run'[r].step # "idle" => DailyIsSafe(r)'
  BY DEF HealthInv, DailyIsSafe
<1>3. kept' => KeptFits'
  BY DEF HealthInv, KeptFits, ScheduledSettings
<1> QED
  BY <1>1, <1>2, <1>3

(* A check looks at its artifact in one more place.                        *)
LEMMA LookIsSafe ==
  ASSUME TypeOK, HealthInv, UNCHANGED <<world, files, job, kept>>,
         watch.step \in {"checksum", "metadata", "remote"}, watch'.step # "idle",
         watch'.settings = watch.settings, watch'.began = watch.began,
         watch'.artifact = watch.artifact, watch'.kept = watch.kept,
         watch.failed \subseteq watch'.failed, watch.warned => watch'.warned,
         Seen /\ watch'.failed = {} /\ ~watch'.warned => Seen',
         watch.kept => /\ Aligned => watch'.failed \subseteq {"schedule", "count"}
                       /\ watch'.step \in {"metadata", "remote"} =>
                            watch'.digest = local["daily"][today].archive
  PROVE  HealthInv'
<1>1. UNCHANGED <<today, crontab, local, remote, lock, run, log, kept>>
  BY DEF world, files, job
<1>2. /\ InOrder' /\ (\A r \in Run : run'[r].step # "idle" => DailyIsSafe(r)')
      /\ (kept' => KeptFits')
  BY <1>1, GenerationsStay
<1>3. Replaced => Replaced'
  BY <1>1 DEF Replaced, Stored, IsCopied
<1>4. watch.artifact \in Day /\ watch.artifact # None
  BY NothingIsNone, TypeParts DEF WatchTypes
<1>5. CheckFits'
  <2>1. CheckFits
    BY DEF HealthInv
  <2>2. watch'.began <= today'
    BY <1>1, <2>1 DEF CheckFits
  <2>3. \A d \in Archives(local'["daily"]) :
          d > watch'.artifact => local'["daily"][d].written >= watch'.began
    BY <1>1, <1>4, <2>1 DEF CheckFits
  <2>4. watch'.failed = {} /\ ~watch'.warned => Seen' \/ Replaced'
    BY <1>3, <1>4, <2>1 DEF CheckFits
  <2> QED
    BY <1>4, <2>2, <2>3, <2>4 DEF CheckFits
<1>6. watch'.kept => CheckOfKeptFits'
  <2>1. WatchSettings' = WatchSettings /\ Aligned' = Aligned
    BY <1>1 DEF WatchSettings, Aligned, ScheduledSettings
  <2> QED
    BY <1>1, <2>1 DEF HealthInv, CheckOfKeptFits
<1> QED
  BY <1>2, <1>5, <1>6 DEF HealthInv

LEMMA CheckKnows ==
  ASSUME TypeOK, HealthInv, watch.step \in {"checksum", "metadata", "remote"}
  PROVE  /\ watch \in Watch /\ watch.artifact \in Day /\ Artifact \in Generation
         /\ Artifact = local["daily"][watch.artifact]
         /\ watch.settings.root \in Root
         /\ watch.kept =>
              /\ Artifact = local["daily"][today] /\ Verified(Artifact)
              /\ Artifact.meta.db = ScheduledSettings.db
              /\ remote[ScheduledSettings.root]["daily"][today].archive = Artifact.archive
              /\ watch.artifact = today
              /\ watch.step \in {"metadata", "remote"} => watch.digest = Artifact.archive
              /\ Aligned => /\ watch.failed \subseteq {"schedule", "count"}
                            /\ watch.settings = ScheduledSettings
<1>1. watch \in Watch /\ watch.artifact \in Day
  BY TypeParts DEF WatchTypes
<1>2. Artifact = local["daily"][watch.artifact]
  BY DEF Artifact
<1>3. Artifact \in Generation
  BY <1>1, <1>2, TypeParts, DailyIsAKind DEF FileTypes
<1>4. watch.settings.root \in Root
  BY <1>1 DEF Watch, Settings
<1>5. ASSUME watch.kept
      PROVE  /\ CheckOfKeptFits /\ KeptFits
             /\ Aligned => watch.settings = ScheduledSettings
  BY <1>5 DEF HealthInv, CheckOfKeptFits, Aligned, WatchSettings
<1>6. ASSUME watch.kept
      PROVE  Artifact = local["daily"][today]
  BY <1>2, <1>5, <1>6 DEF CheckOfKeptFits
<1> QED
  BY <1>1, <1>2, <1>3, <1>4, <1>5, <1>6 DEF CheckOfKeptFits, KeptFits

LEMMA CheckChecksumIsSafe ==
  ASSUME TypeOK, HealthInv, CheckChecksum
  PROVE  HealthInv'
<1>1. watch.step = "checksum" /\ UNCHANGED <<world, files, job, kept>>
  BY DEF CheckChecksum
<1>2. /\ watch \in Watch /\ watch.artifact \in Day /\ Artifact \in Generation
      /\ Artifact = local["daily"][watch.artifact]
      /\ watch.kept => /\ Artifact = local["daily"][today] /\ Verified(Artifact)
                       /\ Aligned => watch.failed \subseteq {"schedule", "count"}
  BY <1>1, CheckKnows
<1>3. UNCHANGED <<today, local, remote>>
  BY <1>1 DEF world, files
<1>4. CASE Artifact.sum = None /\ Look("metadata", {"checksum"}, FALSE)
  <2>1. /\ watch'.step = "metadata" /\ watch'.failed = watch.failed \cup {"checksum"}
        /\ watch'.settings = watch.settings /\ watch'.began = watch.began
        /\ watch'.artifact = watch.artifact /\ watch'.kept = watch.kept
        /\ watch'.warned = (watch.warned \/ FALSE)
    BY <1>2, <1>4 DEF Look, Watch
  <2>2. ~watch.kept
    BY <1>2, <1>4 DEF Verified, Complete
  <2> QED
    BY <1>1, <2>1, <2>2, LookIsSafe
<1>5. CASE watch' = NoWatch
  <2>1. watch'.step = "idle" /\ ~watch'.kept
    BY <1>5 DEF NoWatch
  <2> QED
    BY <1>1, <2>1 DEF HealthInv, InOrder, DailyIsSafe, KeptFits, ScheduledSettings, world, files, job
<1>6. ASSUME Artifact.archive # None, Artifact.sum # None,
             watch' = [watch EXCEPT !.step = "metadata", !.digest = Artifact.archive,
                       !.failed = @ \cup If(Artifact.sum # Artifact.archive, "checksum")]
      PROVE  HealthInv'
  <2>1. PICK found : found = If(Artifact.sum # Artifact.archive, "checksum")
    OBVIOUS
  <2>2. /\ watch'.step = "metadata" /\ watch'.failed = watch.failed \cup found
        /\ watch'.settings = watch.settings /\ watch'.began = watch.began
        /\ watch'.artifact = watch.artifact /\ watch'.kept = watch.kept
        /\ watch'.warned = watch.warned /\ watch'.digest = Artifact.archive
    BY <1>2, <1>6, <2>1 DEF Watch
  <2>3. watch'.failed = {} => Artifact.sum = Artifact.archive
    BY <2>1, <2>2 DEF If
  <2>4. Seen /\ watch'.failed = {} => Seen'
    BY <1>2, <1>3, <2>2, <2>3 DEF Seen
  <2>5. watch.kept => found = {}
    BY <1>2, <2>1 DEF If, Verified
  <2> QED
    BY <1>1, <1>2, <2>2, <2>4, <2>5, LookIsSafe
<1> QED
  BY <1>4, <1>5, <1>6 DEF CheckChecksum

LEMMA CheckMetadataIsSafe ==
  ASSUME TypeOK, HealthInv, CheckMetadata
  PROVE  HealthInv'
<1>1. watch.step = "metadata" /\ UNCHANGED <<world, files, job, kept>>
  BY DEF CheckMetadata
<1>2. /\ watch \in Watch /\ watch.artifact \in Day /\ Artifact \in Generation
      /\ Artifact = local["daily"][watch.artifact]
      /\ watch.kept =>
           /\ Artifact = local["daily"][today] /\ Verified(Artifact)
           /\ Artifact.meta.db = ScheduledSettings.db /\ watch.digest = Artifact.archive
           /\ Aligned => /\ watch.failed \subseteq {"schedule", "count"}
                         /\ watch.settings = ScheduledSettings
  BY <1>1, CheckKnows
<1>3. UNCHANGED <<today, local, remote>>
  BY <1>1 DEF world, files
<1>4. PICK found \in SUBSET {"source", "count"}, warned \in BOOLEAN :
        /\ Look("remote", found, warned)
        /\ found = {} => Artifact.meta # None /\ Artifact.meta.db = watch.settings.db
        /\ Artifact.meta # None /\ Artifact.meta.db = watch.settings.db => found \subseteq {"count"}
  <2>1. PICK readable \in BOOLEAN :
          IF Artifact.meta = None THEN Look("remote", {"source", "count"}, FALSE)
          ELSE Look("remote",
                    If(Artifact.meta.db # watch.settings.db, "source")
                      \cup If(readable /\ Drift > FailDrift, "count"),
                    ~readable \/ Drift > WarnDrift)
    BY DEF CheckMetadata
  <2>2. CASE Artifact.meta = None
    BY <2>1, <2>2
  <2>3. CASE Artifact.meta # None
    <3>1. PICK source \in SUBSET {"source"} :
            /\ source = If(Artifact.meta.db # watch.settings.db, "source")
            /\ source = {} <=> Artifact.meta.db = watch.settings.db
      BY DEF If
    <3>2. PICK count \in SUBSET {"count"} : count = If(readable /\ Drift > FailDrift, "count")
      BY DEF If
    <3>3. PICK warned \in BOOLEAN : warned = (~readable \/ Drift > WarnDrift)
      OBVIOUS
    <3>4. Look("remote", source \cup count, warned)
      BY <2>1, <2>3, <3>1, <3>2, <3>3
    <3> QED
      BY <2>3, <3>1, <3>2, <3>4
  <2> QED
    BY <2>2, <2>3
<1>5. /\ watch'.step = "remote" /\ watch'.failed = watch.failed \cup found
      /\ watch'.settings = watch.settings /\ watch'.began = watch.began
      /\ watch'.artifact = watch.artifact /\ watch'.kept = watch.kept
      /\ watch'.warned = (watch.warned \/ warned) /\ watch'.digest = watch.digest
  BY <1>2, <1>4 DEF Look, Watch
<1>6. Seen /\ watch'.failed = {} => Seen'
  <2>1. watch'.failed = {} => Artifact.meta # None /\ Artifact.meta.db = watch.settings.db
    BY <1>4, <1>5
  <2> QED
    BY <1>1, <1>2, <1>3, <1>5, <2>1 DEF Seen
<1>7. ASSUME watch.kept, Aligned
      PROVE  found \subseteq {"count"}
  <2>1. Artifact.meta # None /\ Artifact.meta.db = watch.settings.db
    BY <1>2, <1>7 DEF Verified, Complete
  <2> QED
    BY <1>4, <2>1
<1> QED
  BY <1>1, <1>2, <1>5, <1>6, <1>7, LookIsSafe

LEMMA CheckRemoteIsSafe ==
  ASSUME TypeOK, HealthInv, CheckRemote
  PROVE  HealthInv'
<1>1. watch.step = "remote" /\ UNCHANGED <<world, files, job, kept>>
  BY DEF CheckRemote
<1>2. /\ watch \in Watch /\ watch.artifact \in Day
      /\ Artifact = local["daily"][watch.artifact] /\ watch.settings.root \in Root
      /\ watch.kept =>
           /\ Verified(Artifact) /\ watch.artifact = today
           /\ remote[ScheduledSettings.root]["daily"][today].archive = Artifact.archive
           /\ watch.digest = Artifact.archive
           /\ Aligned => /\ watch.failed \subseteq {"schedule", "count"}
                         /\ watch.settings = ScheduledSettings
  BY <1>1, CheckKnows
<1>3. UNCHANGED <<today, local, remote>>
  BY <1>1 DEF world, files
<1>4. PICK found \in SUBSET {"remote"}, warned \in BOOLEAN :
        /\ Look("rest", found, warned)
        /\ found = {} /\ ~warned => RemoteCopy = watch.digest
        /\ RemoteCopy # None /\ RemoteCopy = watch.digest => found = {}
  BY DEF CheckRemote, If
<1>5. /\ watch'.step = "rest" /\ watch'.failed = watch.failed \cup found
      /\ watch'.settings = watch.settings /\ watch'.began = watch.began
      /\ watch'.artifact = watch.artifact /\ watch'.kept = watch.kept
      /\ watch'.warned = (watch.warned \/ warned) /\ watch'.digest = watch.digest
  BY <1>2, <1>4 DEF Look, Watch
<1>6. Seen /\ watch'.failed = {} /\ ~watch'.warned => Seen'
  <2> SUFFICES ASSUME Seen, watch'.failed = {}, ~watch'.warned
               PROVE  Seen'
    OBVIOUS
  <2>1. remote[watch.settings.root]["daily"][watch.artifact].archive = watch.digest
    BY <1>4, <1>5 DEF RemoteCopy
  <2>2. local["daily"][watch.artifact].archive = watch.digest
    BY <1>1 DEF Seen
  <2>3. IsCopied(watch.artifact)
    BY <1>2, <2>1, <2>2 DEF IsCopied
  <2>4. IsCopied(watch.artifact)'
    BY <1>3, <1>5, <2>3 DEF IsCopied
  <2> QED
    BY <1>1, <1>3, <1>5, <2>4 DEF Seen
<1>7. ASSUME watch.kept, Aligned
      PROVE  found = {}
  <2>1. RemoteCopy = Artifact.archive
    BY <1>2, <1>7 DEF RemoteCopy
  <2>2. Artifact.archive # None
    BY <1>2, <1>7 DEF Verified, Complete
  <2> QED
    BY <1>2, <1>4, <1>7, <2>1, <2>2
<1> QED
  BY <1>1, <1>2, <1>5, <1>6, <1>7, LookIsSafe

LEMMA WatchdogIsSafe ==
  ASSUME TypeOK, HealthInv, Watchdog
  PROVE  HealthInv'
<1>1. CASE Conclude
  <2>1. watch'.step = "idle" /\ ~watch'.kept /\ UNCHANGED <<world, files, job, kept>>
    BY <1>1 DEF Conclude, NoWatch
  <2> QED
    BY <2>1 DEF HealthInv, InOrder, DailyIsSafe, KeptFits, ScheduledSettings, world, files, job
<1> QED
  BY <1>1, BeginCheckIsSafe, CheckChecksumIsSafe, CheckMetadataIsSafe, CheckRemoteIsSafe
  DEF Watchdog

-----------------------------------------------------------------------------
(* The world.                                                              *)

LEMMA NothingMoved ==
  ASSUME HealthInv, UNCHANGED <<today, crontab, files, job, watch, kept>>
  PROVE  HealthInv'
<1>1. UNCHANGED <<today, crontab, local, remote, lock, run, log, watch, kept>>
  BY DEF files, job
<1>2. InOrder' /\ (\A r \in Run : run'[r].step # "idle" => DailyIsSafe(r)')
  BY <1>1 DEF HealthInv, InOrder, DailyIsSafe
<1>3. watch'.step # "idle" => CheckFits'
  BY <1>1 DEF HealthInv, CheckFits, Seen, Replaced, Stored, IsCopied
<1>4. (kept' => KeptFits') /\ (watch'.kept => watch'.step # "idle" /\ CheckOfKeptFits')
  BY <1>1 DEF HealthInv, KeptFits, CheckOfKeptFits, WatchSettings, Aligned, ScheduledSettings
<1> QED
  BY <1>2, <1>3, <1>4 DEF HealthInv

LEMMA NextDayIsSafe ==
  ASSUME TypeOK, TypeOK', HealthInv, NextDay
  PROVE  HealthInv'
<1>1. Touched /\ UNCHANGED <<local, remote, run>> /\ today < LastDay /\ today' = today + 1
  BY DEF NextDay, files, job
<1>2. today \in Day /\ today' \in Day /\ InOrder
  BY TypeParts, TypePartsNext DEF WorldTypes, HealthInv
<1>3. today <= today'
  BY <1>1, <1>2, DaysAreNumbers
<1>4. InOrder' /\ Arrives
  <2>1. \A d \in Archives(local'["daily"]) :
          d \in Archives(local["daily"]) /\ local'["daily"][d].written = local["daily"][d].written
    BY <1>1
  <2>2. \A d \in Day : local'["daily"][d].sum # Torn
    BY <1>1, <1>2 DEF InOrder
  <2> QED
    BY <1>2, <1>3, <2>1, <2>2, OrderStays
<1>5. Advances
  BY <1>1 DEF Advances, KeepsDaily, IsCopied
<1>6. \A r \in Run : run'[r].step # "idle" => DailyIsSafe(r)'
  BY <1>1 DEF HealthInv, DailyIsSafe
<1> QED
  BY <1>1, <1>3, <1>4, <1>5, <1>6, OthersKeepHealth

LEMMA DamageIsSafe ==
  ASSUME TypeOK, HealthInv, Damage
  PROVE  HealthInv'
<1>1. /\ watch.step = "idle" /\ lock = None /\ Touched
      /\ UNCHANGED <<today, lock, run, log>>
  BY DEF Damage, job
<1>2. FileTypes /\ JobTypes /\ WatchTypes /\ InOrder /\ today \in Day
  BY TypeParts DEF WorldTypes, HealthInv
<1>3. watch'.step = "idle" /\ ~watch'.kept /\ ~kept'
  BY <1>1, <1>2 DEF Touched, WatchTypes, Watch
<1>4. \A r \in Run : run'[r].step = "idle"
  BY <1>1, <1>2, NothingIsNone DEF JobTypes
<1>5. InOrder'
  <2>1. ASSUME UNCHANGED local
        PROVE  InOrder'
    BY <1>1, <1>2, <2>1 DEF InOrder
  <2>2. ASSUME NEW d \in Archives(local["daily"]),
               Put("daily", d, [local["daily"][d] EXCEPT !.archive = Torn])
        PROVE  InOrder'
    <3>1. d \in Day /\ local["daily"][d] \in Generation
      BY <1>2, DailyIsAKind DEF Archives, FileTypes
    <3>2. PICK g \in Generation : g = [local["daily"][d] EXCEPT !.archive = Torn]
      BY <3>1, NothingIsNone DEF Generation
    <3>3. g.written = local["daily"][d].written /\ g.sum = local["daily"][d].sum
      BY <3>1, <3>2 DEF Generation
    <3>4. /\ local'["daily"][d] = g
          /\ \A e \in Day \ {d} : local'["daily"][e] = local["daily"][e]
      BY <1>2, <2>2, <3>1, <3>2, DailyIsAKind, PutIsLocal
    <3>5. \A e \in Archives(local'["daily"]) :
            e \in Archives(local["daily"]) /\ local'["daily"][e].written = local["daily"][e].written
      BY <3>3, <3>4 DEF Archives
    <3>6. \A e \in Day : local'["daily"][e].sum # Torn
      BY <1>2, <3>3, <3>4 DEF InOrder
    <3>7. today <= today' /\ today' \in Day
      BY <1>1, <1>2, DaysAreOrdered
    <3> QED
      BY <1>2, <3>5, <3>6, <3>7, OrderStays
  <2> QED
    BY <2>1, <2>2 DEF Damage
<1> QED
  BY <1>3, <1>4, <1>5 DEF HealthInv

LEMMA HealthInit ==
  ASSUME Init
  PROVE  HealthInv
<1>1. /\ local = [k \in Kind |-> [d \in Day |-> NoGeneration]]
      /\ run = [r \in Run |-> NoJob] /\ watch = NoWatch /\ kept = FALSE
  BY DEF Init
<1>2. \A d \in Day : local["daily"][d] = NoGeneration
  BY <1>1, DailyIsAKind
<1>3. InOrder
  BY <1>2, NoGenerationFits, DailyIsAKind DEF InOrder, Archives
<1>4. watch.step = "idle" /\ ~watch.kept
  BY <1>1 DEF NoWatch
<1> QED
  BY <1>1, <1>3, <1>4, NoJobFits DEF HealthInv

LEMMA HealthStep ==
  ASSUME TypeOK, BackupInv, HealthInv, TypeOK', [Next]_vars
  PROVE  HealthInv'
<1>1. CASE Write \/ UNCHANGED vars
  BY <1>1, NothingMoved DEF Write, vars, world
<1> QED
  BY <1>1, RunKeepsHealth, WatchdogIsSafe, NextDayIsSafe, DamageIsSafe DEF Next

(* While runs and checks go on, what a check has seen of its artifact is   *)
(* kept, or a later date is stored that was written since it began.        *)
THEOREM ChecksStayTrue == Spec => []HealthInv
<1>1. Init => TypeOK /\ BackupInv /\ HealthInv
  BY BackupInit, HealthInit
<1>2. TypeOK /\ BackupInv /\ HealthInv /\ [Next]_vars => (TypeOK /\ BackupInv /\ HealthInv)'
  <2> SUFFICES ASSUME TypeOK, BackupInv, HealthInv, [Next]_vars
               PROVE  (TypeOK /\ BackupInv /\ HealthInv)'
    OBVIOUS
  <2>1. TypeOK' /\ BackupInv'
    BY BackupStep
  <2> QED
    BY <2>1, HealthStep
<1> QED
  BY <1>1, <1>2, PTL DEF Spec

LEMMA PassedCheckIsRight ==
  ASSUME TypeOK, BackupInv, HealthInv, Conclude, Verdict = "PASS"
  PROVE  Recoverable(watch.settings) \/ TakenOver(watch.settings)
<1>1. /\ watch.step = "rest" /\ CheckFits /\ InOrder /\ SealedGenerationsVerify
      /\ watch \in Watch /\ DailyMaxAge \in Nat
  BY TypeParts, BackupAssumption DEF Conclude, HealthInv, BackupInv, WatchTypes
<1>2. watch.failed = {} /\ ~watch.warned
  BY DEF Verdict, Failed, Warned
<1>3. PICK a \in Day : a = watch.artifact
  BY <1>1, <1>2 DEF CheckFits, Watch
<1>4. a # None /\ watch.began \in Day
  BY <1>1, NothingIsNone DEF Watch
<1>5. CASE Seen
  <2>1. /\ local["daily"][a].archive # None
        /\ watch.began - local["daily"][a].written <= DailyMaxAge
        /\ local["daily"][a].archive = watch.digest /\ local["daily"][a].sum = watch.digest
        /\ local["daily"][a].meta # None /\ local["daily"][a].meta.db = watch.settings.db
        /\ IsCopied(a)
    BY <1>1, <1>3, <1>5 DEF Seen
  <2>2. Complete(local["daily"][a]) /\ local["daily"][a].archive # Torn
    BY <1>1, <2>1 DEF Complete, InOrder
  <2>3. Verified(local["daily"][a])
    BY <1>1, <2>2, DailyIsAKind DEF SealedGenerationsVerify
  <2> QED
    BY <2>1, <2>3 DEF Recoverable, IsCopied
<1>6. CASE Replaced
  <2>1. PICK d \in Day : d > a /\ Verified(local["daily"][d]) /\ IsCopied(d)
    BY <1>3, <1>6 DEF Replaced, Stored
  <2>2. d \in Archives(local["daily"])
    BY <2>1 DEF Verified, Complete, Archives
  <2>3. local["daily"][d].written >= watch.began /\ local["daily"][d].written \in Day
    BY <1>1, <1>3, <1>4, <2>1, <2>2 DEF CheckFits, InOrder
  <2>4. watch.began - local["daily"][d].written <= DailyMaxAge
    <3>1. DailyMaxAge \in Nat
      BY <1>1
    <3>2. \A x, y \in Int : x >= y => y - x <= DailyMaxAge
      BY <3>1
    <3> QED
      BY <1>4, <2>3, <3>2, DaysAreNumbers
  <2>5. CASE local["daily"][d].meta.db = watch.settings.db
    BY <2>1, <2>4, <2>5 DEF Recoverable, IsCopied
  <2>6. CASE local["daily"][d].meta.db # watch.settings.db
    BY <1>3, <2>1, <2>6 DEF TakenOver
  <2> QED
    BY <2>5, <2>6
<1> QED
  BY <1>1, <1>2, <1>3, <1>4, <1>5, <1>6 DEF CheckFits

(* A check that passes is right about the day it was started, whatever the *)
(* job, its pruning and its crashes did while it looked.                   *)
THEOREM PassesAreRight == Spec => PassMeansRecoverable
<1>1. TypeOK /\ BackupInv /\ HealthInv
        => [Conclude /\ Verdict = "PASS"
              => Recoverable(watch.settings) \/ TakenOver(watch.settings)]_vars
  BY PassedCheckIsRight
<1> QED
  BY <1>1, BackupTypeCorrect, ChecksStayTrue, PTL DEF PassMeansRecoverable

LEMMA CheckOfKeptPasses ==
  ASSUME HealthInv, Conclude, watch.kept, Aligned
  PROVE  Failed \subseteq {"weekly", "count", "schedule"}
<1>1. watch.failed \subseteq {"schedule", "count"} /\ log = "success"
  BY DEF HealthInv, CheckOfKeptFits, KeptFits
<1> QED
  BY <1>1 DEF Failed, If

(* Where the environment of the watchdog agrees with the crontab, a check  *)
(* of the same day finds nothing wrong with what a completed run leaves.   *)
THEOREM CompletedRunsAreHealthy == Spec => CompletedRunIsHealthy
<1>1. HealthInv
        => [Conclude /\ watch.kept /\ Aligned
              => Failed \subseteq {"weekly", "count", "schedule"}]_vars
  BY CheckOfKeptPasses
<1> QED
  BY <1>1, ChecksStayTrue, PTL DEF CompletedRunIsHealthy
=============================================================================
