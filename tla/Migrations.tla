----------------------------- MODULE Migrations -----------------------------
(***************************************************************************)
(* Opening a store (aoms/repositories/sqlite.py): every process that opens *)
(* the database brings its schema up to date, statement by statement, next *)
(* to whoever else has it open, and may die between any two statements.    *)
(* sqlite3.executescript commits what is pending and then commits every    *)
(* statement of its own; the row of a version opens a transaction that     *)
(* only the next commit closes.                                            *)
(*                                                                         *)
(*   - a column is added once: ALTER TABLE of a column that is there fails *)
(*   - tables and indexes are created IF NOT EXISTS                        *)
(*   - the versions already applied are read once, when the store is opened*)
(*   - version 6 stages the full-text index, counts, and swaps it in       *)
(*   - a reader opens what it finds and migrates nothing                   *)
(***************************************************************************)
EXTENDS Integers, Sequences, FiniteSets, Functions

CONSTANTS
  Process,      \* processes that open the store
  Record,       \* ids of memories
  MaxText,      \* BOUND: how many texts a memory has one after the other
  Held,         \* the memories the contest gate holds aside when they are stored
  Released,     \* the schema versions the store may have been left at; 0: no store
  MaxCrashes,   \* BOUND: how many processes die
  None

ASSUME MigrationConstants ==
  /\ MaxText \in Nat \ {0}
  /\ MaxCrashes \in Nat
  /\ Held \subseteq Record
  /\ Released \subseteq 0 .. 10
  /\ IsFiniteSet(Record)
  /\ None \notin Process

-----------------------------------------------------------------------------
(* The statements of every version, in order.                              *)

Version == 1 .. 10

(* MIGRATION_7_COLUMNS: added one by one, each only when it is missing.    *)
ContestColumns == {"claim_key", "contested"}

ScopeColumns == {"scope_agent_id", "scope_workspace_id", "created_by_agent_id",
                 "agent_id", "workspace_id"}

Columns == ScopeColumns \cup ContestColumns \cup {"receipt_bytes"}

Statements ==
  [v \in Version |->
    CASE v = 1  -> <<"memories", "memories_fts">>
      [] v = 2  -> <<"recall_receipts">>
      [] v = 3  -> <<"vector_profiles", "embedding_pending">>
      [] v = 4  -> <<"scope_agent_id", "scope_workspace_id", "created_by_agent_id",
                     "agent_id", "workspace_id">>
      [] v = 5  -> <<"auth_tokens">>
      [] v = 6  -> <<"stage", "count", "swap">>
      [] v = 7  -> <<"claim_key", "contested", "contest_entries", "write_receipts">>
      [] v = 8  -> <<"idx_memories_scope_cover">>
      [] v = 9  -> <<"receipt_bytes", "receipts_sized", "idx_recall_receipts_retention">>
      [] v = 10 -> <<"idx_memories_kind_recent">>]

Statement == UNION {Range(Statements[v]) : v \in Version}

Before(v, s, t) ==
  \E i, j \in DOMAIN Statements[v] :
    i < j /\ Statements[v][i] = s /\ Statements[v][j] = t

(* What a version leaves in the schema: the rebuild of the index nothing.  *)
Leaves(v) == IF v = 6 THEN {} ELSE Range(Statements[v])

Newest == UNION {Leaves(v) : v \in Version}

-----------------------------------------------------------------------------
VARIABLES
  schema,     \* the tables, columns and indexes there are
  versions,   \* the rows of schema_version
  memories,   \* the text of a memory, 0 when there is none
  fts,        \* the text memories_fts has for an id, 0 when none
  contested,  \* memories whose contested column is 1
  tx,         \* the open write transaction: its process, uncommitted rows and columns
  at,         \* closed, migrating, open, reading or failed
  applied,    \* versions a process found, or has applied since
  version,    \* the version a process is applying, 0 between two
  plan,       \* the statements of it that are still to run
  stage,      \* its temporary memories_fts_v6_source
  flag,       \* its _contest_schema_present
  report,     \* what its integrity report has read
  crashes,
  \* history the properties read
  sole,       \* the process that has been alone at the store since it opened it
  found,      \* the memories there were when a process opened the store
  late,       \* memories stored while another process had staged the index
  lateNew     \* memories first stored after another process had counted them

store == <<schema, versions, memories, fts, contested>>
mine  == <<at, applied, version, plan, stage, flag, report>>
past  == <<found, late, lateNew>>
vars  == <<store, tx, mine, crashes, sole, past>>

Idle == [by |-> None, rows |-> {}, columns |-> {}]

NoText == [r \in Record |-> 0]

NoReport == [next |-> "none", count |-> 0, indexed |-> 0, ids |-> {}, missing |-> {}]

Texts(f) == {r \in Record : f[r] # 0}

(* A store left at version n; before version 6 its index may lack rows of  *)
(* memories and hold rows of none.                                         *)
Init ==
  /\ \E n \in Released :
       /\ versions = 1 .. n
       /\ schema = UNION {Leaves(v) : v \in 1 .. n}
       /\ memories \in [Record -> IF n = 0 THEN {0} ELSE {0, 1}]
       /\ fts \in [Record -> IF n = 0 THEN {0} ELSE {0, 1}]
       /\ n \notin 1 .. 5 => fts = memories
  /\ contested = {}
  /\ tx = Idle
  /\ at = [p \in Process |-> "closed"]
  /\ applied = [p \in Process |-> {}]
  /\ version = [p \in Process |-> 0]
  /\ plan = [p \in Process |-> {}]
  /\ stage = [p \in Process |-> NoText]
  /\ flag = [p \in Process |-> FALSE]
  /\ report = [p \in Process |-> NoReport]
  /\ crashes = 0
  /\ sole = None
  /\ found = [p \in Process |-> {}]
  /\ late = {}
  /\ lateNew = {}

-----------------------------------------------------------------------------
(* The write lock: a statement that writes waits for whoever holds it.     *)
MayWrite(p) == tx.by \in {None, p}

(* What a connection sees: what is committed and what it wrote itself.     *)
Visible(p) == schema \cup (IF tx.by = p THEN tx.columns ELSE {})

(* Every step of a process ends the solitude of the others.                *)
Steps(p) == sole' = IF sole = p THEN p ELSE None

Commit ==
  /\ versions' = versions \cup tx.rows
  /\ schema' = schema \cup tx.columns
  /\ tx' = Idle

Rollback(p) == tx' = IF tx.by = p THEN Idle ELSE tx

(* Seeded fault: the result of the detection is not kept.                  *)
Undetected(p) == FALSE

(* _detect_contest_schema reads the columns of memories.                   *)
DetectContestSchema(p) == ContestColumns \subseteq Visible(p)

(* The first use of a repository, and every use after one that failed:     *)
(* create schema_version when there is none, and read it.                  *)
Open(p) ==
  /\ at[p] \in {"closed", "failed"}
  /\ MayWrite(p)
  /\ at' = [at EXCEPT ![p] = "migrating"]
  /\ applied' = [applied EXCEPT ![p] = versions]
  /\ version' = [version EXCEPT ![p] = 0]
  /\ sole' = p
  /\ found' = [found EXCEPT ![p] = Texts(memories)]
  /\ UNCHANGED <<store, tx, plan, stage, flag, report, crashes, late, lateNew>>

(* A read-only open: the two tables have to be there; the columns are      *)
(* looked at once.                                                         *)
OpenReadOnly(p) ==
  /\ at[p] = "closed"
  /\ IF {"memories", "memories_fts"} \subseteq schema
     THEN /\ at' = [at EXCEPT ![p] = "reading"]
          /\ flag' = [flag EXCEPT ![p] = DetectContestSchema(p)]
          /\ found' = [found EXCEPT ![p] = Texts(memories)]
     ELSE UNCHANGED <<at, flag, found>>
  /\ Steps(p)
  /\ UNCHANGED <<store, tx, applied, version, plan, stage, report, crashes, late,
                 lateNew>>

(* Seeded fault: columns are added without looking whether they are there. *)
EveryStatement(p, v) == Range(Statements[v])

(* _migrate_contest_ledger and _migrate_receipt_bytes look at the columns  *)
(* first and leave out the ones there are; no other version looks.         *)
Needed(p, v) ==
  Range(Statements[v]) \ (IF v \in {7, 9} THEN Columns \cap Visible(p) ELSE {})

(* The next version this process has not found applied.                    *)
Begin(p) ==
  /\ at[p] = "migrating" /\ version[p] = 0
  /\ \E v \in Version \ applied[p] :
       /\ \A w \in Version \ applied[p] : v <= w
       /\ version' = [version EXCEPT ![p] = v]
       /\ plan' = [plan EXCEPT ![p] = Needed(p, v)]
  /\ Steps(p)
  /\ UNCHANGED <<store, tx, at, applied, stage, flag, report, crashes, past>>

(* The statement a process is at.                                          *)
IsAt(p, s) ==
  /\ at[p] = "migrating" /\ s \in plan[p]
  /\ \A t \in plan[p] : ~ Before(version[p], t, s)

(* Versions 7 and 9 run their ALTERs one by one, everything else of every  *)
(* version but 6 is run by executescript.                                  *)
InScript(p, s) == version[p] \notin {7, 9} \/ s \notin Columns

(* executescript first commits what is pending.                            *)
CommitBeforeScript(p) ==
  /\ version[p] # 6
  /\ \E s \in plan[p] : IsAt(p, s) /\ InScript(p, s)
  /\ tx.by = p
  /\ Commit
  /\ Steps(p)
  /\ UNCHANGED <<memories, fts, contested, mine, crashes, past>>

(* An exception leaves the connection: what was pending is rolled back.    *)
Fail(p) ==
  /\ at' = [at EXCEPT ![p] = "failed"]
  /\ plan' = [plan EXCEPT ![p] = {}]
  /\ stage' = [stage EXCEPT ![p] = NoText]
  /\ Rollback(p)
  /\ UNCHANGED <<store, applied, version, flag, report>>

(* One statement, committed at once unless a transaction is open.          *)
Execute(p) ==
  /\ version[p] # 6
  /\ MayWrite(p)
  /\ \E s \in plan[p] :
       /\ IsAt(p, s)
       /\ InScript(p, s) => tx.by # p
       /\ \/ /\ s \in Columns \cap Visible(p)
             /\ Fail(p)
          \/ /\ s \notin Columns \cap Visible(p)
             /\ IF tx.by = p
                THEN tx' = [tx EXCEPT !.columns = @ \cup {s}] /\ UNCHANGED schema
                ELSE schema' = schema \cup {s} /\ UNCHANGED tx
             /\ plan' = [plan EXCEPT ![p] = @ \ {s}]
             /\ UNCHANGED <<versions, memories, fts, contested, at, applied, version,
                            stage, flag, report>>
  /\ Steps(p)
  /\ UNCHANGED <<crashes, past>>

(* INSERT OR IGNORE INTO schema_version, in a transaction left open.       *)
RecordVersion(p) ==
  /\ at[p] = "migrating" /\ version[p] \notin {0, 6}
  /\ plan[p] = {}
  /\ MayWrite(p)
  /\ tx' = [by |-> p, rows |-> (IF tx.by = p THEN tx.rows ELSE {}) \cup {version[p]},
            columns |-> IF tx.by = p THEN tx.columns ELSE {}]
  /\ applied' = [applied EXCEPT ![p] = @ \cup {version[p]}]
  /\ version' = [version EXCEPT ![p] = 0]
  /\ plan' = [plan EXCEPT ![p] = {}]
  /\ Steps(p)
  /\ UNCHANGED <<store, at, stage, flag, report, crashes, past>>

(* The commit at the end; then the columns are looked at.                  *)
Finish(p) ==
  /\ at[p] = "migrating" /\ version[p] = 0 /\ Version \subseteq applied[p]
  /\ IF tx.by = p THEN Commit ELSE UNCHANGED <<versions, schema, tx>>
  /\ at' = [at EXCEPT ![p] = "open"]
  /\ flag' = [flag EXCEPT ![p] = DetectContestSchema(p)]
  /\ Steps(p)
  /\ UNCHANGED <<memories, fts, contested, applied, version, plan, stage, report,
                 crashes, past>>

-----------------------------------------------------------------------------
(* _migrate_fts_rowids.                                                    *)

AtRebuild(p, step) == version[p] = 6 /\ IsAt(p, step)

(* The temporary source: for every memory the text the index has, for one  *)
(* the index lacks the text of the record.  Its commit is the one that     *)
(* commits the row of version 5.                                           *)
Stage(p) ==
  /\ AtRebuild(p, "stage")
  /\ stage' = [stage EXCEPT ![p] =
       [r \in Record |-> IF memories[r] # 0 /\ fts[r] # 0 THEN fts[r] ELSE memories[r]]]
  /\ plan' = [plan EXCEPT ![p] = @ \ {"stage"}]
  /\ IF tx.by = p THEN Commit ELSE UNCHANGED <<versions, schema, tx>>
  /\ Steps(p)
  /\ UNCHANGED <<memories, fts, contested, at, applied, version, flag, report, crashes,
                 past>>

(* Seeded fault: the staged rows are not counted.                          *)
NotCounted(p) == TRUE

(* staged_count = memory_count: every memory there is now was staged.      *)
Complete(p) == Cardinality(Texts(memories)) = Cardinality(Texts(stage[p]))

Count(p) ==
  /\ AtRebuild(p, "count")
  /\ \/ /\ ~Complete(p)
        /\ Fail(p)
     \/ /\ Complete(p)
        /\ plan' = [plan EXCEPT ![p] = @ \ {"count"}]
        /\ UNCHANGED <<store, tx, at, applied, version, stage, flag, report>>
  /\ Steps(p)
  /\ UNCHANGED <<crashes, past>>

(* BEGIN IMMEDIATE ... COMMIT: drop, create, load, record the version.     *)
Swap(p) ==
  /\ AtRebuild(p, "swap")
  /\ MayWrite(p)
  /\ fts' = stage[p]
  /\ versions' = versions \cup {6}
  /\ applied' = [applied EXCEPT ![p] = @ \cup {6}]
  /\ version' = [version EXCEPT ![p] = 0]
  /\ plan' = [plan EXCEPT ![p] = {}]
  /\ stage' = [stage EXCEPT ![p] = NoText]
  /\ Steps(p)
  /\ UNCHANGED <<schema, memories, contested, tx, at, flag, report, crashes, past>>

-----------------------------------------------------------------------------
(* What an open store is used for.                                         *)

(* Store a memory, or import a new text of one, which admits it: record    *)
(* and index row in one transaction.                                       *)
Store(p, r) ==
  /\ at[p] = "open"
  /\ MayWrite(p)
  /\ memories[r] < MaxText
  /\ memories' = [memories EXCEPT ![r] = @ + 1]
  /\ fts' = [fts EXCEPT ![r] = memories[r] + 1]
  /\ contested' = IF memories[r] = 0 THEN contested \cup ({r} \cap Held)
                  ELSE contested \ {r}
  /\ late' = IF \E q \in Process : AtRebuild(q, "count") \/ AtRebuild(q, "swap")
             THEN late \cup {r} ELSE late
  /\ lateNew' = IF memories[r] = 0 /\ \E q \in Process : AtRebuild(q, "swap")
                THEN lateNew \cup {r} ELSE lateNew
  /\ Steps(p)
  /\ UNCHANGED <<schema, versions, tx, mine, crashes, found>>

(* integrity_report: two counts, then the ids of one side and of the       *)
(* other, each as they are when they are read.                             *)
Ids == Texts(memories)

Indexed == Texts(fts)

(* Seeded fault: the projection is scanned before the memories.            *)
ScanReversed(p) ==
  \/ report[p].next = "ids" /\ report' = [report EXCEPT ![p].ids = Indexed, ![p].next = "diff"]
  \/ report[p].next = "diff" /\
     report' = [report EXCEPT ![p].missing = Ids \ report[p].ids, ![p].ids = {},
                              ![p].next = "done"]

(* _fts_projection_diff: first the memories, then the index.               *)
Scan(p) ==
  \/ /\ report[p].next = "ids"
     /\ report' = [report EXCEPT ![p] = [@ EXCEPT !.ids = Ids, !.next = "diff"]]
  \/ /\ report[p].next = "diff"
     /\ report' = [report EXCEPT ![p] =
          [@ EXCEPT !.missing = report[p].ids \ Indexed, !.ids = Indexed \ report[p].ids,
                    !.next = "done"]]

Report(p) ==
  /\ at[p] \in {"open", "reading"}
  /\ \/ /\ report[p].next \in {"none", "done"}
        /\ report' = [report EXCEPT ![p] =
             [NoReport EXCEPT !.next = "indexed", !.count = Cardinality(Ids)]]
     \/ /\ report[p].next = "indexed"
        /\ report' = [report EXCEPT ![p] =
             [@ EXCEPT !.indexed = Cardinality(Indexed), !.next = "ids"]]
     \/ Scan(p)
  /\ Steps(p)
  /\ UNCHANGED <<store, tx, at, applied, version, plan, stage, flag, crashes, past>>

(* Its verdict.                                                            *)
Healthy(p) ==
  /\ report[p].missing = {}
  /\ report[p].ids = {}
  /\ report[p].count = report[p].indexed

-----------------------------------------------------------------------------
(* A process ends, or dies: SQLite rolls back what it had not committed.   *)
Leave(p) ==
  /\ at' = [at EXCEPT ![p] = "closed"]
  /\ applied' = [applied EXCEPT ![p] = {}]
  /\ version' = [version EXCEPT ![p] = 0]
  /\ plan' = [plan EXCEPT ![p] = {}]
  /\ stage' = [stage EXCEPT ![p] = NoText]
  /\ flag' = [flag EXCEPT ![p] = FALSE]
  /\ report' = [report EXCEPT ![p] = NoReport]
  /\ found' = [found EXCEPT ![p] = {}]
  /\ Rollback(p)
  /\ Steps(p)
  /\ UNCHANGED <<store, late, lateNew>>

Close(p) == at[p] \in {"open", "reading", "failed"} /\ Leave(p) /\ UNCHANGED crashes

Crash(p) ==
  /\ at[p] = "migrating" /\ crashes < MaxCrashes
  /\ Leave(p)
  /\ crashes' = crashes + 1

Migrate(p) ==
  \/ Begin(p) \/ CommitBeforeScript(p) \/ Execute(p) \/ RecordVersion(p)
  \/ Stage(p) \/ Count(p) \/ Swap(p) \/ Finish(p)

Next ==
  \E p \in Process :
    \/ Open(p) \/ OpenReadOnly(p) \/ Migrate(p)
    \/ \E r \in Record : Store(p, r)
    \/ Report(p) \/ Close(p) \/ Crash(p)

Spec == Init /\ [][Next]_vars

(* A process that is migrating goes on; one whose opening failed is asked  *)
(* again, because the repository opens the store on every call until one   *)
(* succeeds.                                                               *)
Fairness ==
  \A p \in Process : WF_vars(Migrate(p)) /\ WF_vars(at[p] = "failed" /\ Open(p))

FairSpec == Spec /\ Fairness

-----------------------------------------------------------------------------
TypeOK ==
  /\ schema \subseteq Newest
  /\ versions \subseteq Version
  /\ memories \in [Record -> 0 .. MaxText]
  /\ fts \in [Record -> 0 .. MaxText]
  /\ contested \subseteq Held
  /\ tx \in [by : Process \cup {None}, rows : SUBSET Version, columns : SUBSET Columns]
  /\ tx.by = None => tx = Idle
  /\ at \in [Process -> {"closed", "migrating", "open", "reading", "failed"}]
  /\ applied \in [Process -> SUBSET Version]
  /\ version \in [Process -> 0 .. 10]
  /\ plan \in [Process -> SUBSET Statement]
  /\ stage \in [Process -> [Record -> 0 .. MaxText]]
  /\ \A p \in Process : tx.by = p => at[p] = "migrating"
  /\ flag \in [Process -> BOOLEAN]
  /\ crashes \in 0 .. MaxCrashes
  /\ sole \in Process \cup {None}
  /\ found \in [Process -> SUBSET Record]
  /\ late \subseteq Record /\ lateNew \subseteq Record

(* Once the index is rebuilt it disagrees with a memory only when that     *)
(* memory was stored behind the back of a process that had staged the old  *)
(* one, and lacks it only when it was stored after that process counted.   *)
IndexIsRebuilt ==
  /\ \A r \in Record : fts[r] # memories[r] => r \in late
  /\ \A r \in Record : fts[r] = 0 /\ memories[r] # 0 => r \in lateNew
  /\ Indexed \subseteq Ids

(* A version whose row is there is there whole, its objects and, for the   *)
(* one that rebuilds the index, the index, whoever died or raced over it:  *)
(* later opens skip it on the strength of the row alone.                   *)
RecordedIsApplied ==
  /\ \A v \in versions : Leaves(v) \subseteq schema
  /\ 6 \in versions => IndexIsRebuilt

(* An opener that nobody disturbs fails at one version only: the one whose *)
(* columns are added without a look.  Versions 6, 7 and 9 can be           *)
(* interrupted anywhere and run again.                                     *)
UndisturbedFailsAtVersionFour ==
  \A p \in Process : at[p] = "failed" /\ sole = p => version[p] = 4

(* A reader that found no contested column shows contested memories, but   *)
(* only such as were stored after it had opened the store.                 *)
BlindReadersPredateContests ==
  \A p \in Process : at[p] \in {"open", "reading"} /\ ~flag[p] =>
    contested \cap found[p] = {} /\ at[p] = "reading"

(* What an integrity report calls missing from the index is missing when   *)
(* it says so, whatever is stored while it reads.                          *)
MissingIsMissing ==
  [][\A p \in Process :
       report'[p].next = "done" => report'[p].missing \cap Indexed = {}
                                   \/ report[p].next = "done"]_vars

(* Columns of version 4 are there and its row is not.  It is so for a      *)
(* moment whenever version 4 is applied, and for good when that was cut    *)
(* short: then no opener gets past it.                                     *)
Stranded ==
  /\ 4 \notin versions
  /\ ScopeColumns \cap schema # {}

(* Whoever opens the store gets in, dies, or finds version 4 half done and *)
(* it stays so.                                                            *)
EveryOpenerGetsIn ==
  \A p \in Process :
    at[p] = "migrating" ~> (at[p] \in {"open", "closed"} \/ []Stranded)
-----------------------------------------------------------------------------
(* Why a recorded version is there whole: what a process has left to run   *)
(* of a version is what the schema lacks of it, so the rows a transaction  *)
(* holds back are whole once its columns are there.                        *)
RebuildPlans == {{"stage", "count", "swap"}, {"count", "swap"}, {"swap"}}

PlanFits(p) ==
  CASE version[p] = 0 -> plan[p] = {}
    [] version[p] = 6 -> plan[p] \in RebuildPlans
    [] OTHER -> /\ plan[p] \subseteq Leaves(version[p])
                /\ Leaves(version[p]) \subseteq Visible(p) \cup plan[p]

RowsSeen(p) == versions \cup (IF tx.by = p THEN tx.rows ELSE {})

MigrationsFit ==
  /\ \A v \in versions : Leaves(v) \subseteq schema
  /\ \A v \in tx.rows : v # 6 /\ Leaves(v) \subseteq schema \cup tx.columns
  /\ \A p \in Process : at[p] = "migrating" => PlanFits(p) /\ applied[p] \subseteq RowsSeen(p)
  /\ \A p \in Process : at[p] \in {"closed", "failed"} => plan[p] = {}

(* Why the rebuilt index is right: the staged text of a memory is that of  *)
(* the record or older, and then the memory is late.                       *)
StageStands(p) ==
  /\ \A r \in Record : stage[p][r] # 0 => memories[r] # 0
  /\ \A r \in Record : stage[p][r] # memories[r] => r \in late
  /\ "count" \notin plan[p] =>
       \A r \in Record : stage[p][r] = 0 /\ memories[r] # 0 => r \in lateNew
  /\ "count" \in plan[p] /\ sole = p => Texts(stage[p]) = Ids

IndexFits ==
  /\ \A r \in Record : fts[r] # memories[r] /\ fts[r] # 0 /\ memories[r] # 0 => r \in late
  /\ 6 \in versions => IndexIsRebuilt
  /\ \A p \in Process : at[p] = "migrating" /\ version[p] = 6 /\ "stage" \notin plan[p]
                          => StageStands(p)

(* Why an opener that is alone fails at version 4 only: nobody else has a  *)
(* transaction open, and it adds no column that it has seen.               *)
SoleFits ==
  \A p \in Process : sole = p =>
    /\ tx.by \in {None, p}
    /\ at[p] = "migrating" /\ version[p] \in {7, 9} => plan[p] \cap Columns \cap Visible(p) = {}
    /\ at[p] = "failed" => version[p] = 4

(* Why readers are blind to later contests only: nothing is held aside     *)
(* before the columns are there, and an open process has seen them.        *)
ContestsFit ==
  /\ contested # {} => ContestColumns \subseteq schema
  /\ \A p \in Process : at[p] = "open" => flag[p] /\ ContestColumns \subseteq schema
  /\ \A p \in Process : found[p] \subseteq Ids
  /\ \A p \in Process : at[p] \in {"open", "reading"} /\ ~ flag[p] => contested \cap found[p] = {}

MigrationInv == MigrationsFit /\ IndexFits /\ SoleFits /\ ContestsFit
=============================================================================
