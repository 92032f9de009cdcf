-------------------------- MODULE Migrations_proofs --------------------------
(***************************************************************************)
(* Proofs about the opening of a store: for any number of processes and    *)
(* memories, whatever version the store was left at, and wherever openers  *)
(* race, fail or die, a version whose row is there is there whole; an      *)
(* opener nobody disturbed fails at version 4 only; and a reader that      *)
(* knows no contests is blind to later ones only.                          *)
(***************************************************************************)
EXTENDS Migrations, FiniteSetTheorems, TLAPS

(* The tables of versions and statements, once and for all.                *)
LEMMA StatementTables ==
  /\ \A v \in Version \ {6} : Range(Statements[v]) = Leaves(v)
  /\ \A v \in Version : Leaves(v) \subseteq Newest
  /\ Leaves(6) = {}
BY DEF Leaves, Newest

LEMMA ContestTables ==
  /\ Leaves(7) = {"claim_key", "contested", "contest_entries", "write_receipts"}
  /\ ContestColumns \subseteq Leaves(7)
BY DEF Leaves, Statements, Version, ContestColumns, Range

LEMMA ColumnTables ==
  /\ Leaves(4) = ScopeColumns
  /\ Leaves(9) = {"receipt_bytes", "receipts_sized", "idx_recall_receipts_retention"}
BY DEF Leaves, Statements, Version, ScopeColumns, Range

LEMMA ColumnsAreKnown == Columns \subseteq Newest
BY ContestTables, ColumnTables, StatementTables DEF Columns, ContestColumns, ScopeColumns, Version

LEMMA OnlyThreeVersionsAddColumns ==
  ASSUME NEW v \in Version \ {4, 7, 9}
  PROVE  Leaves(v) \cap Columns = {}
<1>1. CASE v = 1
  BY <1>1 DEF Leaves, Statements, Version, Range, Columns, ScopeColumns, ContestColumns
<1>2. CASE v = 2
  BY <1>2 DEF Leaves, Statements, Version, Range, Columns, ScopeColumns, ContestColumns
<1>3. CASE v = 3
  BY <1>3 DEF Leaves, Statements, Version, Range, Columns, ScopeColumns, ContestColumns
<1>5. CASE v = 5
  BY <1>5 DEF Leaves, Statements, Version, Range, Columns, ScopeColumns, ContestColumns
<1>6. CASE v = 6
  BY <1>6, StatementTables
<1>8. CASE v = 8
  BY <1>8 DEF Leaves, Statements, Version, Range, Columns, ScopeColumns, ContestColumns
<1>10. CASE v = 10
  BY <1>10 DEF Leaves, Statements, Version, Range, Columns, ScopeColumns, ContestColumns
<1> QED
  BY <1>1, <1>2, <1>3, <1>5, <1>6, <1>8, <1>10 DEF Version

LEMMA RebuildTable ==
  /\ Range(Statements[6]) = {"stage", "count", "swap"}
  /\ Before(6, "stage", "count") /\ Before(6, "stage", "swap") /\ Before(6, "count", "swap")
  /\ ~ Before(6, "swap", "count") /\ ~ Before(6, "count", "count") /\ ~ Before(6, "swap", "swap")
<1>1. Statements[6] = <<"stage", "count", "swap">>
  BY DEF Statements, Version
<1>2. DOMAIN Statements[6] = 1 .. 3 /\ Statements[6][1] = "stage"
      /\ Statements[6][2] = "count" /\ Statements[6][3] = "swap"
  BY <1>1
<1>3. 1 \in 1 .. 3 /\ 2 \in 1 .. 3 /\ 3 \in 1 .. 3 /\ 1 < 2 /\ 2 < 3 /\ 1 < 3
  OBVIOUS
<1>4. \A i \in 1 .. 3 : i = 1 \/ i = 2 \/ i = 3
  OBVIOUS
<1>5. Range(Statements[6]) = {"stage", "count", "swap"}
  BY <1>2, <1>3, <1>4 DEF Range
<1>6. Before(6, "stage", "count") /\ Before(6, "stage", "swap") /\ Before(6, "count", "swap")
  BY <1>2, <1>3 DEF Before
<1>7. ~ Before(6, "swap", "count") /\ ~ Before(6, "count", "count") /\ ~ Before(6, "swap", "swap")
  BY <1>2, <1>4 DEF Before
<1> QED
  BY <1>5, <1>6, <1>7
-----------------------------------------------------------------------------
(* Types.                                                                  *)

LEMMA ConstantsFit ==
  /\ MaxText \in Nat \ {0} /\ MaxCrashes \in Nat /\ Held \subseteq Record
  /\ Released \subseteq 0 .. 10 /\ None \notin Process /\ IsFiniteSet(Record)
BY MigrationConstants

LEMMA NoTextIsText == NoText \in [Record -> 0 .. MaxText] /\ \A r \in Record : NoText[r] = 0
BY ConstantsFit DEF NoText

Transaction == [by : Process \cup {None}, rows : SUBSET Version, columns : SUBSET Columns]

LEMMA IdleFits ==
  /\ Idle \in Transaction /\ Idle.by = None /\ Idle.rows = {} /\ Idle.columns = {}
BY DEF Idle, Transaction

LEMMA TransactionFields ==
  ASSUME TypeOK
  PROVE  /\ tx \in Transaction /\ tx.by \in Process \cup {None}
         /\ tx.rows \subseteq Version /\ tx.columns \subseteq Columns
         /\ tx.by = None => tx.rows = {} /\ tx.columns = {}
BY IdleFits DEF TypeOK, Transaction

(* How a transaction may end, and that its process may go on or leave.     *)
LEMMA CommitTypes ==
  ASSUME TypeOK, Commit
  PROVE  schema' \subseteq Newest /\ versions' \subseteq Version
BY TransactionFields, ColumnsAreKnown DEF Commit, TypeOK

LEMMA RollbackTypes ==
  ASSUME TypeOK, NEW p \in Process, Rollback(p)
  PROVE  /\ tx' \in Transaction /\ tx'.by # p
         /\ tx'.by = None => tx' = Idle
         /\ \A q \in Process : tx'.by = q => tx.by = q
BY TransactionFields, IdleFits, ConstantsFit DEF Rollback, TypeOK

LEMMA SoleTypes ==
  ASSUME TypeOK, NEW p \in Process, Steps(p)
  PROVE  sole' \in Process \cup {None} /\ (sole' # None => sole' = p /\ sole = p)
BY DEF Steps

(* What is not touched by the steps of an opener.                          *)
Shared == <<memories, fts, contested, flag, crashes, found, late, lateNew>>

LEMMA OpenTypes ==
  ASSUME TypeOK, NEW p \in Process, Open(p)
  PROVE  TypeOK'
<1>1. tx.by = None
  BY TransactionFields DEF Open, MayWrite, TypeOK
<1>2. versions \subseteq Version /\ Texts(memories) \subseteq Record
  BY DEF TypeOK, Texts
<1>3. UNCHANGED <<store, tx, plan, stage, flag, crashes, late, lateNew>>
  BY DEF Open
<1>4. at' \in [Process -> {"closed", "migrating", "open", "reading", "failed"}]
  BY DEF Open, TypeOK
<1>5. /\ applied' \in [Process -> SUBSET Version] /\ version' \in [Process -> 0 .. 10]
      /\ found' \in [Process -> SUBSET Record] /\ sole' = p
  BY <1>2 DEF Open, TypeOK
<1> QED
  BY <1>1, <1>3, <1>4, <1>5, ConstantsFit DEF TypeOK, store

LEMMA OpenReadOnlyTypes ==
  ASSUME TypeOK, NEW p \in Process, OpenReadOnly(p)
  PROVE  TypeOK'
<1>1. Texts(memories) \subseteq Record /\ DetectContestSchema(p) \in BOOLEAN
  BY DEF Texts, DetectContestSchema
<1>2. UNCHANGED <<store, tx, applied, version, plan, stage, crashes, late, lateNew>>
  BY DEF OpenReadOnly
<1>3. at[p] = "closed" /\ tx.by # p
  BY DEF OpenReadOnly, TypeOK
<1>4. /\ at' \in [Process -> {"closed", "migrating", "open", "reading", "failed"}]
      /\ flag' \in [Process -> BOOLEAN] /\ found' \in [Process -> SUBSET Record]
      /\ \A q \in Process \ {p} : at'[q] = at[q]
  <2>1. CASE {"memories", "memories_fts"} \subseteq schema
    <3>1. PICK f \in BOOLEAN : f = DetectContestSchema(p)
      BY <1>1
    <3>2. /\ at' = [at EXCEPT ![p] = "reading"]
          /\ flag' = [flag EXCEPT ![p] = f]
          /\ found' = [found EXCEPT ![p] = Texts(memories)]
      BY <2>1, <3>1 DEF OpenReadOnly
    <3> QED
      BY <1>1, <3>1, <3>2 DEF TypeOK
  <2>2. CASE ~ ({"memories", "memories_fts"} \subseteq schema)
    BY <2>2 DEF OpenReadOnly, TypeOK
  <2> QED
    BY <2>1, <2>2
<1>5. sole' \in Process \cup {None}
  BY SoleTypes DEF OpenReadOnly
<1>6. \A q \in Process : tx.by = q => at'[q] = "migrating"
  BY <1>3, <1>4 DEF TypeOK
<1> QED
  BY <1>2, <1>4, <1>5, <1>6 DEF TypeOK, store

LEMMA BeginTypes ==
  ASSUME TypeOK, NEW p \in Process, Begin(p)
  PROVE  TypeOK'
<1>1. sole' \in Process \cup {None}
  BY SoleTypes DEF Begin
<1>2. PICK v \in Version :
        /\ version' = [version EXCEPT ![p] = v]
        /\ plan' = [plan EXCEPT ![p] = Needed(p, v)]
  BY DEF Begin
<1>3. Needed(p, v) \subseteq Statement
  BY <1>2 DEF Needed, Statement
<1>4. version' \in [Process -> 0 .. 10] /\ plan' \in [Process -> SUBSET Statement]
  BY <1>2, <1>3 DEF TypeOK, Version
<1> QED
  BY <1>1, <1>4 DEF Begin, TypeOK, store, past

LEMMA CommitBeforeScriptTypes ==
  ASSUME TypeOK, NEW p \in Process, CommitBeforeScript(p)
  PROVE  TypeOK'
<1>1. sole' \in Process \cup {None} /\ schema' \subseteq Newest /\ versions' \subseteq Version
      /\ tx' = Idle
  BY SoleTypes, CommitTypes DEF CommitBeforeScript, Commit
<1> QED
  BY <1>1, IdleFits, ConstantsFit DEF CommitBeforeScript, TypeOK, mine, past, Transaction

LEMMA FailTypes ==
  ASSUME TypeOK, NEW p \in Process, Fail(p), Steps(p), UNCHANGED <<crashes, past>>
  PROVE  TypeOK'
<1>1. sole' \in Process \cup {None}
  BY SoleTypes
<1>2. /\ tx' \in Transaction /\ tx'.by # p
      /\ tx'.by = None => tx' = Idle
      /\ \A q \in Process : tx'.by = q => tx.by = q
  BY RollbackTypes DEF Fail
<1>3. /\ at' \in [Process -> {"closed", "migrating", "open", "reading", "failed"}]
      /\ \A q \in Process \ {p} : at'[q] = at[q]
  BY DEF Fail, TypeOK
<1>4. /\ stage' \in [Process -> [Record -> 0 .. MaxText]]
      /\ plan' \in [Process -> SUBSET Statement]
  BY NoTextIsText DEF Fail, TypeOK
<1>5. \A q \in Process : tx'.by = q => at'[q] = "migrating"
  BY <1>2, <1>3 DEF TypeOK
<1>6. UNCHANGED <<store, applied, version, flag>>
  BY DEF Fail
<1> QED
  BY <1>1, <1>2, <1>3, <1>4, <1>5, <1>6 DEF TypeOK, store, past, Transaction
(* A process that is at a statement of a version other than the rebuild.   *)
LEMMA AtStatement ==
  ASSUME TypeOK, MigrationsFit, NEW p \in Process, NEW s, IsAt(p, s), version[p] # 6
  PROVE  /\ at[p] = "migrating" /\ version[p] \in Version \ {6}
         /\ plan[p] \subseteq Leaves(version[p]) /\ s \in plan[p]
         /\ Leaves(version[p]) \subseteq Visible(p) \cup plan[p]
         /\ s \in Newest
<1>1. at[p] = "migrating" /\ s \in plan[p] /\ version[p] \in 0 .. 10
  BY DEF IsAt, TypeOK
<1>2. PlanFits(p)
  BY <1>1 DEF MigrationsFit
<1>3. version[p] # 0
  BY <1>1, <1>2 DEF PlanFits
<1>4. /\ plan[p] \subseteq Leaves(version[p])
      /\ Leaves(version[p]) \subseteq Visible(p) \cup plan[p]
  BY <1>2, <1>3 DEF PlanFits
<1>5. version[p] \in Version
  BY <1>1, <1>3 DEF Version
<1> QED
  BY <1>1, <1>4, <1>5, StatementTables

(* What one statement does.                                                *)
Fails(p, s) == s \in Columns \cap Visible(p) /\ Fail(p)

Adds(p, s) ==
  /\ s \notin Columns \cap Visible(p)
  /\ \/ /\ tx.by = p
        /\ tx' = [by |-> p, rows |-> tx.rows, columns |-> tx.columns \cup {s}]
        /\ s \in Columns
        /\ UNCHANGED schema
     \/ /\ tx.by = None
        /\ schema' = schema \cup {s}
        /\ UNCHANGED tx
  /\ plan' = [plan EXCEPT ![p] = plan[p] \ {s}]
  /\ UNCHANGED <<versions, memories, fts, contested, at, applied, version,
                 stage, flag, report>>

LEMMA ExecutesOne ==
  ASSUME TypeOK, MigrationsFit, NEW p \in Process, Execute(p)
  PROVE  \E s \in plan[p] :
           /\ at[p] = "migrating" /\ version[p] \in Version \ {6}
           /\ plan[p] \subseteq Leaves(version[p])
           /\ Leaves(version[p]) \subseteq Visible(p) \cup plan[p]
           /\ s \in Newest
           /\ Fails(p, s) \/ Adds(p, s)
<1>1. PICK s \in plan[p] :
        /\ IsAt(p, s)
        /\ InScript(p, s) => tx.by # p
        /\ \/ /\ s \in Columns \cap Visible(p)
              /\ Fail(p)
           \/ /\ s \notin Columns \cap Visible(p)
              /\ IF tx.by = p
                 THEN tx' = [tx EXCEPT !.columns = @ \cup {s}] /\ UNCHANGED schema
                 ELSE schema' = schema \cup {s} /\ UNCHANGED tx
              /\ plan' = [plan EXCEPT ![p] = @ \ {s}]
              /\ UNCHANGED <<versions, memories, fts, contested, at, applied, version,
                             stage, flag, report>>
  BY DEF Execute
<1>2. version[p] # 6 /\ MayWrite(p)
  BY DEF Execute
<1>3. /\ at[p] = "migrating" /\ version[p] \in Version \ {6}
      /\ plan[p] \subseteq Leaves(version[p])
      /\ Leaves(version[p]) \subseteq Visible(p) \cup plan[p]
      /\ s \in Newest
  BY <1>1, <1>2, AtStatement
<1>4. tx.by = p => s \in Columns
  BY <1>1 DEF InScript
<1>5. tx.by = p \/ tx.by = None
  BY <1>2 DEF MayWrite
<1>6. ASSUME ~ Fails(p, s)
      PROVE  Adds(p, s)
  <2>1. /\ s \notin Columns \cap Visible(p)
        /\ IF tx.by = p
           THEN tx' = [tx EXCEPT !.columns = @ \cup {s}] /\ UNCHANGED schema
           ELSE schema' = schema \cup {s} /\ UNCHANGED tx
        /\ plan' = [plan EXCEPT ![p] = plan[p] \ {s}]
        /\ UNCHANGED <<versions, memories, fts, contested, at, applied, version,
                       stage, flag, report>>
    BY <1>1, <1>6 DEF Fails
  <2>2. CASE tx.by = p
    <3>1. tx \in Transaction
      BY TransactionFields
    <3>2. tx' = [by |-> p, rows |-> tx.rows, columns |-> tx.columns \cup {s}]
      BY <2>1, <2>2, <3>1 DEF Transaction
    <3> QED
      BY <1>4, <2>1, <2>2, <3>2 DEF Adds
  <2>3. CASE tx.by # p
    BY <1>5, <2>1, <2>3 DEF Adds
  <2> QED
    BY <2>2, <2>3
<1> QED
  BY <1>1, <1>3, <1>6

LEMMA ExecuteTypes ==
  ASSUME TypeOK, MigrationsFit, NEW p \in Process, Execute(p)
  PROVE  TypeOK'
<1>1. PICK s \in plan[p] : s \in Newest /\ at[p] = "migrating" /\ (Fails(p, s) \/ Adds(p, s))
  BY ExecutesOne
<1>2. Steps(p) /\ UNCHANGED <<crashes, past>>
  BY DEF Execute
<1>3. CASE Fails(p, s)
  BY <1>2, <1>3, FailTypes DEF Fails
<1>4. CASE Adds(p, s)
  <2>1. sole' \in Process \cup {None}
    BY <1>2, SoleTypes
  <2>2. CASE tx.by = p /\ UNCHANGED schema
             /\ tx' = [by |-> p, rows |-> tx.rows, columns |-> tx.columns \cup {s}]
             /\ s \in Columns
    <3>1. tx' \in Transaction /\ tx'.by = p
      BY <2>2, TransactionFields DEF Transaction
    <3> QED
      BY <1>1, <1>2, <1>4, <2>1, <2>2, <3>1, ConstantsFit DEF Adds, TypeOK, past, Transaction
  <2>3. CASE UNCHANGED tx /\ schema' = schema \cup {s}
    BY <1>1, <1>2, <1>4, <2>1, <2>3 DEF Adds, TypeOK, past
  <2> QED
    BY <1>4, <2>2, <2>3 DEF Adds
<1> QED
  BY <1>1, <1>3, <1>4

LEMMA RecordVersionTypes ==
  ASSUME TypeOK, NEW p \in Process, RecordVersion(p)
  PROVE  TypeOK'
<1>1. version[p] \in Version /\ at[p] = "migrating"
  BY DEF RecordVersion, TypeOK, Version
<1>2. tx' \in Transaction /\ tx'.by = p
  BY <1>1, TransactionFields DEF RecordVersion, Transaction
<1>3. sole' \in Process \cup {None}
  BY SoleTypes DEF RecordVersion
<1>4. applied' \in [Process -> SUBSET Version] /\ version' \in [Process -> 0 .. 10]
  BY <1>1 DEF RecordVersion, TypeOK
<1> QED
  BY <1>1, <1>2, <1>3, <1>4, ConstantsFit
  DEF RecordVersion, TypeOK, store, past, Transaction

LEMMA FinishTypes ==
  ASSUME TypeOK, NEW p \in Process, Finish(p)
  PROVE  TypeOK'
<1>1. PICK f \in BOOLEAN : f = DetectContestSchema(p)
  BY DEF DetectContestSchema
<1>2. /\ at' = [at EXCEPT ![p] = "open"] /\ flag' = [flag EXCEPT ![p] = f]
      /\ UNCHANGED <<memories, fts, contested, applied, version, plan, stage, crashes, past>>
  BY <1>1 DEF Finish
<1>3. /\ at' \in [Process -> {"closed", "migrating", "open", "reading", "failed"}]
      /\ flag' \in [Process -> BOOLEAN]
      /\ \A q \in Process \ {p} : at'[q] = at[q]
  BY <1>1, <1>2 DEF TypeOK
<1>4. /\ schema' \subseteq Newest /\ versions' \subseteq Version
      /\ tx' \in Transaction /\ tx'.by # p
      /\ tx'.by = None => tx' = Idle
      /\ \A q \in Process : tx'.by = q => tx.by = q
  <2>1. CASE tx.by = p
    BY <2>1, CommitTypes, IdleFits, ConstantsFit DEF Finish, Commit
  <2>2. CASE tx.by # p
    BY <2>2, TransactionFields DEF Finish, TypeOK
  <2> QED
    BY <2>1, <2>2
<1>5. sole' \in Process \cup {None}
  BY SoleTypes DEF Finish
<1>6. \A q \in Process : tx'.by = q => at'[q] = "migrating"
  BY <1>3, <1>4 DEF TypeOK
<1> QED
  BY <1>2, <1>3, <1>4, <1>5, <1>6 DEF TypeOK, past, Transaction

LEMMA StageTypes ==
  ASSUME TypeOK, NEW p \in Process, Stage(p)
  PROVE  TypeOK'
<1>1. stage' \in [Process -> [Record -> 0 .. MaxText]]
  <2>1. [r \in Record |-> IF memories[r] # 0 /\ fts[r] # 0 THEN fts[r] ELSE memories[r]]
          \in [Record -> 0 .. MaxText]
    BY DEF TypeOK
  <2> QED
    BY <2>1 DEF Stage, TypeOK
<1>2. /\ schema' \subseteq Newest /\ versions' \subseteq Version
      /\ tx' \in Transaction /\ tx'.by # p
      /\ tx'.by = None => tx' = Idle
      /\ \A q \in Process : tx'.by = q => tx.by = q
  <2>1. CASE tx.by = p
    BY <2>1, CommitTypes, IdleFits, ConstantsFit DEF Stage, Commit
  <2>2. CASE tx.by # p
    BY <2>2, TransactionFields DEF Stage, TypeOK
  <2> QED
    BY <2>1, <2>2
<1>3. sole' \in Process \cup {None}
  BY SoleTypes DEF Stage
<1> QED
  BY <1>1, <1>2, <1>3 DEF Stage, TypeOK, past, Transaction

LEMMA CountTypes ==
  ASSUME TypeOK, NEW p \in Process, Count(p)
  PROVE  TypeOK'
<1>1. Steps(p) /\ UNCHANGED <<crashes, past>>
  BY DEF Count
<1>2. CASE Fail(p)
  BY <1>1, <1>2, FailTypes
<1>3. CASE /\ plan' = [plan EXCEPT ![p] = @ \ {"count"}]
           /\ UNCHANGED <<store, tx, at, applied, version, stage, flag, report>>
  <2>1. sole' \in Process \cup {None}
    BY <1>1, SoleTypes
  <2>2. plan' \in [Process -> SUBSET Statement]
    BY <1>3 DEF TypeOK
  <2> QED
    BY <1>1, <1>3, <2>1, <2>2 DEF TypeOK, store, past
<1> QED
  BY <1>2, <1>3 DEF Count

LEMMA SwapTypes ==
  ASSUME TypeOK, NEW p \in Process, Swap(p)
  PROVE  TypeOK'
<1>1. /\ fts' = stage[p] /\ versions' = versions \cup {6}
      /\ applied' = [applied EXCEPT ![p] = @ \cup {6}]
      /\ version' = [version EXCEPT ![p] = 0]
      /\ stage' = [stage EXCEPT ![p] = NoText]
      /\ plan' = [plan EXCEPT ![p] = {}]
      /\ Steps(p)
      /\ UNCHANGED <<schema, memories, contested, tx, at, flag, report, crashes, past>>
  BY DEF Swap
<1>2. 6 \in Version
  BY DEF Version
<1>3. /\ fts' \in [Record -> 0 .. MaxText] /\ versions' \subseteq Version
      /\ applied' \in [Process -> SUBSET Version] /\ version' \in [Process -> 0 .. 10]
      /\ stage' \in [Process -> [Record -> 0 .. MaxText]]
      /\ plan' \in [Process -> SUBSET Statement]
  BY <1>1, <1>2, NoTextIsText DEF TypeOK
<1>4. sole' \in Process \cup {None}
  BY <1>1, SoleTypes
<1> QED
  BY <1>1, <1>3, <1>4 DEF TypeOK, past

LEMMA StoreTypes ==
  ASSUME TypeOK, NEW p \in Process, NEW r \in Record, Store(p, r)
  PROVE  TypeOK'
<1>1. memories[r] + 1 \in 0 .. MaxText
  BY ConstantsFit DEF Store, TypeOK
<1>2. memories' \in [Record -> 0 .. MaxText] /\ fts' \in [Record -> 0 .. MaxText]
  BY <1>1 DEF Store, TypeOK
<1>3. contested' \subseteq Held /\ late' \subseteq Record /\ lateNew' \subseteq Record
  BY DEF Store, TypeOK
<1>4. sole' \in Process \cup {None}
  BY SoleTypes DEF Store
<1> QED
  BY <1>2, <1>3, <1>4 DEF Store, TypeOK, mine

LEMMA ReportTypes ==
  ASSUME TypeOK, NEW p \in Process, Report(p)
  PROVE  TypeOK'
<1>1. sole' \in Process \cup {None}
  BY SoleTypes DEF Report
<1> QED
  BY <1>1 DEF Report, TypeOK, store, past

LEMMA LeaveTypes ==
  ASSUME TypeOK, NEW p \in Process, Leave(p), crashes' \in 0 .. MaxCrashes
  PROVE  TypeOK'
<1>1. sole' \in Process \cup {None}
  BY SoleTypes DEF Leave
<1>2. /\ tx' \in Transaction /\ tx'.by # p
      /\ tx'.by = None => tx' = Idle
      /\ \A q \in Process : tx'.by = q => tx.by = q
  BY RollbackTypes DEF Leave
<1>3. /\ at' \in [Process -> {"closed", "migrating", "open", "reading", "failed"}]
      /\ \A q \in Process \ {p} : at'[q] = at[q]
  BY DEF Leave, TypeOK
<1>4. /\ stage' \in [Process -> [Record -> 0 .. MaxText]]
      /\ plan' \in [Process -> SUBSET Statement]
      /\ applied' \in [Process -> SUBSET Version] /\ version' \in [Process -> 0 .. 10]
      /\ flag' \in [Process -> BOOLEAN] /\ found' \in [Process -> SUBSET Record]
  BY NoTextIsText DEF Leave, TypeOK
<1>5. \A q \in Process : tx'.by = q => at'[q] = "migrating"
  BY <1>2, <1>3 DEF TypeOK
<1>6. UNCHANGED <<store, late, lateNew>>
  BY DEF Leave
<1> QED
  BY <1>1, <1>2, <1>3, <1>4, <1>5, <1>6 DEF TypeOK, store, Transaction
-----------------------------------------------------------------------------
(* Recorded versions are whole.                                            *)

(* What a step of p has to leave: nothing of the schema goes, other        *)
(* processes keep their transaction and their plans, and whatever p has    *)
(* recorded or planned fits.                                               *)
Keeps(p) ==
  /\ schema \subseteq schema' /\ versions \subseteq versions'
  /\ \A q \in Process \ {p} :
       /\ at'[q] = at[q] /\ version'[q] = version[q] /\ plan'[q] = plan[q]
       /\ applied'[q] = applied[q]
       /\ tx.by = q => tx' = tx

LEMMA MigrationsStand ==
  ASSUME MigrationsFit, NEW p \in Process, Keeps(p),
         \A v \in versions' : Leaves(v) \subseteq schema',
         \A v \in tx'.rows : v # 6 /\ Leaves(v) \subseteq schema' \cup tx'.columns,
         at'[p] = "migrating" => PlanFits(p)' /\ applied'[p] \subseteq RowsSeen(p)',
         at'[p] \in {"closed", "failed"} => plan'[p] = {}
  PROVE  MigrationsFit'
<1>1. ASSUME NEW q \in Process \ {p}, at'[q] = "migrating"
      PROVE  PlanFits(q)' /\ applied'[q] \subseteq RowsSeen(q)'
  <2>1. PlanFits(q) /\ applied[q] \subseteq RowsSeen(q)
    BY <1>1 DEF MigrationsFit, Keeps
  <2>2. Visible(q) \subseteq Visible(q)' /\ RowsSeen(q) \subseteq RowsSeen(q)'
    BY DEF Keeps, Visible, RowsSeen
  <2>3. version'[q] = version[q] /\ plan'[q] = plan[q] /\ applied'[q] = applied[q]
    BY DEF Keeps
  <2> QED
    BY <2>1, <2>2, <2>3 DEF PlanFits
<1>2. \A q \in Process \ {p} : at'[q] \in {"closed", "failed"} => plan'[q] = {}
  BY DEF MigrationsFit, Keeps
<1> QED
  BY <1>1, <1>2 DEF MigrationsFit

(* A step that leaves schema, versions, transaction and plans alone.       *)
LEMMA PlansUntouched ==
  ASSUME MigrationsFit, NEW p \in Process, UNCHANGED <<schema, versions, tx, plan>>,
         \A q \in Process : at'[q] = at[q] \/ (q = p /\ at'[q] \in {"open", "reading"}),
         UNCHANGED <<applied, version>>
  PROVE  MigrationsFit'
BY DEF MigrationsFit, PlanFits, Visible, RowsSeen

LEMMA CommitIsWhole ==
  ASSUME TypeOK, MigrationsFit, NEW p \in Process, tx.by = p, Commit
  PROVE  /\ schema \subseteq schema' /\ versions \subseteq versions'
         /\ \A v \in versions' : Leaves(v) \subseteq schema'
         /\ tx'.rows = {} /\ tx'.by # p
         /\ Visible(p)' = Visible(p) /\ RowsSeen(p)' = RowsSeen(p)
<1>1. /\ schema' = schema \cup tx.columns /\ versions' = versions \cup tx.rows
      /\ tx' = Idle /\ tx'.rows = {} /\ tx'.by = None /\ None # p
  BY IdleFits, ConstantsFit DEF Commit
<1>2. \A v \in versions' : Leaves(v) \subseteq schema'
  BY <1>1 DEF MigrationsFit
<1>3. Visible(p)' = Visible(p) /\ RowsSeen(p)' = RowsSeen(p)
  BY <1>1 DEF Visible, RowsSeen
<1> QED
  BY <1>1, <1>2, <1>3

LEMMA RollbackIsWhole ==
  ASSUME TypeOK, MigrationsFit, NEW p \in Process, Rollback(p), UNCHANGED <<schema, versions>>
  PROVE  /\ \A q \in Process \ {p} : tx.by = q => tx' = tx
         /\ \A v \in tx'.rows : v # 6 /\ Leaves(v) \subseteq schema' \cup tx'.columns
<1>1. CASE tx.by = p
  BY <1>1, IdleFits, ConstantsFit DEF Rollback
<1>2. CASE tx.by # p
  BY <1>2 DEF Rollback, MigrationsFit
<1> QED
  BY <1>1, <1>2

LEMMA OpenFits ==
  ASSUME TypeOK, MigrationsFit, NEW p \in Process, Open(p)
  PROVE  MigrationsFit'
<1>1. /\ at' = [at EXCEPT ![p] = "migrating"]
      /\ applied' = [applied EXCEPT ![p] = versions]
      /\ version' = [version EXCEPT ![p] = 0]
      /\ UNCHANGED <<schema, versions, tx, plan>>
      /\ at[p] \in {"closed", "failed"}
  BY DEF Open, store
<1>2. plan[p] = {}
  BY <1>1 DEF MigrationsFit
<1>3. Keeps(p)
  BY <1>1 DEF Keeps, TypeOK
<1>4. at'[p] = "migrating" /\ PlanFits(p)' /\ applied'[p] \subseteq RowsSeen(p)'
  BY <1>1, <1>2 DEF PlanFits, RowsSeen, TypeOK
<1> QED
  BY <1>1, <1>3, <1>4, MigrationsStand DEF MigrationsFit

LEMMA NeededFits ==
  ASSUME NEW p \in Process, NEW v \in Version
  PROVE  /\ v # 6 => /\ Needed(p, v) \subseteq Leaves(v)
                     /\ Leaves(v) \subseteq Visible(p) \cup Needed(p, v)
         /\ v = 6 => Needed(p, v) = {"stage", "count", "swap"}
         /\ v \in {7, 9} => Needed(p, v) \cap Columns \cap Visible(p) = {}
<1>1. CASE v # 6
  <2>1. Range(Statements[v]) = Leaves(v)
    BY <1>1, StatementTables
  <2> QED
    BY <1>1, <2>1 DEF Needed
<1>2. CASE v = 6
  BY <1>2, RebuildTable DEF Needed
<1> QED
  BY <1>1, <1>2

LEMMA BeginFits ==
  ASSUME TypeOK, MigrationsFit, NEW p \in Process, Begin(p)
  PROVE  MigrationsFit'
<1>1. PICK v \in Version :
        /\ version' = [version EXCEPT ![p] = v]
        /\ plan' = [plan EXCEPT ![p] = Needed(p, v)]
  BY DEF Begin
<1>2. at[p] = "migrating" /\ UNCHANGED <<schema, versions, memories, tx, at, applied>>
  BY DEF Begin, store
<1>3. version'[p] = v /\ plan'[p] = Needed(p, v) /\ v # 0
  BY <1>1 DEF TypeOK, Version
<1>4. Keeps(p)
  BY <1>1, <1>2 DEF Keeps, TypeOK
<1>5. Visible(p)' = Visible(p) /\ RowsSeen(p)' = RowsSeen(p)
  BY <1>2 DEF Visible, RowsSeen
<1>6. PlanFits(p)'
  <2>1. CASE v = 6
    BY <1>1, <1>3, <2>1, NeededFits DEF PlanFits, RebuildPlans
  <2>2. CASE v # 6
    <3>1. /\ Needed(p, v) \subseteq Leaves(v)
          /\ Leaves(v) \subseteq Visible(p) \cup Needed(p, v)
      BY <1>1, <2>2, NeededFits
    <3> QED
      BY <1>3, <1>5, <2>2, <3>1 DEF PlanFits
  <2> QED
    BY <2>1, <2>2
<1>7. applied'[p] \subseteq RowsSeen(p)'
  BY <1>2, <1>5 DEF MigrationsFit
<1> QED
  BY <1>2, <1>4, <1>6, <1>7, MigrationsStand DEF MigrationsFit

LEMMA CommitBeforeScriptFits ==
  ASSUME TypeOK, MigrationsFit, NEW p \in Process, CommitBeforeScript(p)
  PROVE  MigrationsFit'
<1>1. tx.by = p /\ Commit /\ UNCHANGED mine /\ at[p] = "migrating"
  BY DEF CommitBeforeScript, TypeOK
<1>2. /\ schema \subseteq schema' /\ versions \subseteq versions'
      /\ \A v \in versions' : Leaves(v) \subseteq schema'
      /\ tx'.rows = {} /\ tx'.by # p
      /\ Visible(p)' = Visible(p) /\ RowsSeen(p)' = RowsSeen(p)
  BY <1>1, CommitIsWhole
<1>3. Keeps(p)
  BY <1>1, <1>2 DEF Keeps, mine
<1>4. PlanFits(p) /\ applied[p] \subseteq RowsSeen(p)
  BY <1>1 DEF MigrationsFit
<1>5. PlanFits(p)' /\ applied'[p] \subseteq RowsSeen(p)'
  BY <1>1, <1>2, <1>4 DEF PlanFits, mine
<1> QED
  BY <1>1, <1>2, <1>3, <1>5, MigrationsStand DEF mine

LEMMA FailFits ==
  ASSUME TypeOK, MigrationsFit, NEW p \in Process, Fail(p)
  PROVE  MigrationsFit'
<1>1. /\ at'[p] = "failed" /\ plan'[p] = {} /\ UNCHANGED <<schema, versions, applied, version>>
      /\ Rollback(p)
      /\ \A q \in Process \ {p} : at'[q] = at[q] /\ plan'[q] = plan[q]
  BY DEF Fail, store, TypeOK
<1>2. /\ \A q \in Process \ {p} : tx.by = q => tx' = tx
      /\ \A v \in tx'.rows : v # 6 /\ Leaves(v) \subseteq schema' \cup tx'.columns
  BY <1>1, RollbackIsWhole
<1>3. Keeps(p)
  BY <1>1, <1>2 DEF Keeps
<1> QED
  BY <1>1, <1>2, <1>3, MigrationsStand DEF MigrationsFit

LEMMA ExecuteFits ==
  ASSUME TypeOK, MigrationsFit, NEW p \in Process, Execute(p)
  PROVE  MigrationsFit'
<1>1. PICK s \in plan[p] :
        /\ at[p] = "migrating" /\ version[p] \in Version \ {6}
        /\ plan[p] \subseteq Leaves(version[p])
        /\ Leaves(version[p]) \subseteq Visible(p) \cup plan[p]
        /\ Fails(p, s) \/ Adds(p, s)
  BY ExecutesOne
<1>2. CASE Fails(p, s)
  BY <1>2, FailFits DEF Fails
<1>3. CASE Adds(p, s)
  <2>1. /\ UNCHANGED <<versions, at, applied, version>>
        /\ plan'[p] = plan[p] \ {s}
        /\ \A q \in Process \ {p} : plan'[q] = plan[q]
    BY <1>3 DEF Adds, TypeOK
  <2>2. /\ schema \subseteq schema'
        /\ tx'.rows = tx.rows /\ tx'.by = tx.by
        /\ schema \cup tx.columns \subseteq schema' \cup tx'.columns
        /\ Visible(p)' = Visible(p) \cup {s}
        /\ \A q \in Process \ {p} : tx.by = q => tx' = tx
    <3>1. CASE /\ tx.by = p /\ UNCHANGED schema
               /\ tx' = [by |-> p, rows |-> tx.rows, columns |-> tx.columns \cup {s}]
      BY <3>1 DEF Visible
    <3>2. CASE tx.by = None /\ schema' = schema \cup {s} /\ UNCHANGED tx
      BY <3>2, ConstantsFit DEF Visible
    <3> QED
      BY <1>3, <3>1, <3>2 DEF Adds
  <2>3. Keeps(p)
    BY <2>1, <2>2 DEF Keeps
  <2>4. PlanFits(p)'
    <3>1. version'[p] # 0 /\ version'[p] # 6
      BY <1>1, <2>1 DEF Version
    <3>2. /\ plan'[p] \subseteq Leaves(version'[p])
          /\ Leaves(version'[p]) \subseteq Visible(p)' \cup plan'[p]
      BY <1>1, <2>1, <2>2
    <3> QED
      BY <3>1, <3>2 DEF PlanFits
  <2>5. applied'[p] \subseteq RowsSeen(p)'
    BY <1>1, <2>1, <2>2 DEF MigrationsFit, RowsSeen
  <2> QED
    BY <1>1, <2>1, <2>2, <2>3, <2>4, <2>5, MigrationsStand DEF MigrationsFit
<1> QED
  BY <1>1, <1>2, <1>3

LEMMA RecordVersionFits ==
  ASSUME TypeOK, MigrationsFit, NEW p \in Process, RecordVersion(p)
  PROVE  MigrationsFit'
<1>1. /\ at[p] = "migrating" /\ version[p] \notin {0, 6} /\ plan[p] = {}
      /\ tx.by = None \/ tx.by = p
      /\ UNCHANGED <<schema, versions, at>>
      /\ applied'[p] = applied[p] \cup {version[p]} /\ version'[p] = 0 /\ plan'[p] = {}
      /\ \A q \in Process \ {p} :
           applied'[q] = applied[q] /\ version'[q] = version[q] /\ plan'[q] = plan[q]
  BY DEF RecordVersion, MayWrite, store, TypeOK
<1>2. /\ tx'.by = p /\ tx'.rows = (IF tx.by = p THEN tx.rows ELSE {}) \cup {version[p]}
      /\ tx'.columns = IF tx.by = p THEN tx.columns ELSE {}
  BY DEF RecordVersion
<1>3. Leaves(version[p]) \subseteq Visible(p)
  BY <1>1 DEF MigrationsFit, PlanFits
<1>4. \A v \in tx'.rows : v # 6 /\ Leaves(v) \subseteq schema' \cup tx'.columns
  BY <1>1, <1>2, <1>3 DEF MigrationsFit, Visible
<1>5. Keeps(p)
  BY <1>1, ConstantsFit DEF Keeps
<1>6. PlanFits(p)'
  BY <1>1 DEF PlanFits
<1>7. applied'[p] \subseteq RowsSeen(p)'
  BY <1>1, <1>2 DEF RowsSeen, MigrationsFit
<1> QED
  BY <1>1, <1>4, <1>5, <1>6, <1>7, MigrationsStand DEF MigrationsFit
(* The three plans of the rebuild, and the step each of them is at.        *)
LEMMA RebuildSteps ==
  ASSUME MigrationsFit, NEW p \in Process
  PROVE  /\ AtRebuild(p, "stage") =>
              /\ at[p] = "migrating" /\ version[p] = 6 /\ plan[p] = {"stage", "count", "swap"}
         /\ AtRebuild(p, "count") =>
              /\ at[p] = "migrating" /\ version[p] = 6 /\ plan[p] = {"count", "swap"}
         /\ AtRebuild(p, "swap") =>
              /\ at[p] = "migrating" /\ version[p] = 6 /\ plan[p] = {"swap"}
         /\ at[p] = "migrating" /\ version[p] = 6 /\ "stage" \notin plan[p] =>
              \/ plan[p] = {"count", "swap"} /\ AtRebuild(p, "count")
              \/ plan[p] = {"swap"} /\ AtRebuild(p, "swap")
<1>1. at[p] = "migrating" /\ version[p] = 6 =>
        \/ plan[p] = {"stage", "count", "swap"}
        \/ plan[p] = {"count", "swap"}
        \/ plan[p] = {"swap"}
  BY DEF MigrationsFit, PlanFits, RebuildPlans
<1>2. AtRebuild(p, "count") => "stage" \notin plan[p]
  BY RebuildTable DEF AtRebuild, IsAt
<1>3. AtRebuild(p, "swap") => "stage" \notin plan[p] /\ "count" \notin plan[p]
  BY RebuildTable DEF AtRebuild, IsAt
<1>4. at[p] = "migrating" /\ version[p] = 6 /\ plan[p] = {"count", "swap"}
        => AtRebuild(p, "count")
  BY RebuildTable DEF AtRebuild, IsAt
<1>5. at[p] = "migrating" /\ version[p] = 6 /\ plan[p] = {"swap"} => AtRebuild(p, "swap")
  BY RebuildTable DEF AtRebuild, IsAt
<1>6. \A s : AtRebuild(p, s) => at[p] = "migrating" /\ version[p] = 6 /\ s \in plan[p]
  BY DEF AtRebuild, IsAt
<1> QED
  BY <1>1, <1>2, <1>3, <1>4, <1>5, <1>6

(* The steps of the rebuild and the last one commit what is open, or touch *)
(* nothing.                                                                *)
LEMMA MaybeCommits ==
  ASSUME TypeOK, MigrationsFit, NEW p \in Process,
         IF tx.by = p THEN Commit ELSE UNCHANGED <<versions, schema, tx>>
  PROVE  /\ schema \subseteq schema' /\ versions \subseteq versions'
         /\ \A v \in versions' : Leaves(v) \subseteq schema'
         /\ \A v \in tx'.rows : v # 6 /\ Leaves(v) \subseteq schema' \cup tx'.columns
         /\ \A q \in Process \ {p} : tx.by = q => tx' = tx
         /\ Visible(p)' = Visible(p) /\ RowsSeen(p)' = RowsSeen(p)
         /\ tx'.by # p
         /\ tx' = tx \/ tx'.by = None
         /\ versions' \subseteq RowsSeen(p)
<1>1. CASE tx.by = p
  BY <1>1, CommitIsWhole, IdleFits DEF Commit, RowsSeen
<1>2. CASE tx.by # p
  BY <1>2 DEF MigrationsFit, Visible, RowsSeen
<1> QED
  BY <1>1, <1>2

LEMMA FinishFits ==
  ASSUME TypeOK, MigrationsFit, NEW p \in Process, Finish(p)
  PROVE  MigrationsFit'
<1>1. /\ IF tx.by = p THEN Commit ELSE UNCHANGED <<versions, schema, tx>>
      /\ at'[p] = "open" /\ \A q \in Process \ {p} : at'[q] = at[q]
      /\ UNCHANGED <<applied, version, plan>>
  BY DEF Finish, TypeOK
<1>2. /\ schema \subseteq schema' /\ versions \subseteq versions'
      /\ \A v \in versions' : Leaves(v) \subseteq schema'
      /\ \A v \in tx'.rows : v # 6 /\ Leaves(v) \subseteq schema' \cup tx'.columns
      /\ \A q \in Process \ {p} : tx.by = q => tx' = tx
  BY <1>1, MaybeCommits
<1>3. Keeps(p)
  BY <1>1, <1>2 DEF Keeps
<1> QED
  BY <1>1, <1>2, <1>3, MigrationsStand

LEMMA StageFits ==
  ASSUME TypeOK, MigrationsFit, NEW p \in Process, Stage(p)
  PROVE  MigrationsFit'
<1>1. /\ IF tx.by = p THEN Commit ELSE UNCHANGED <<versions, schema, tx>>
      /\ at[p] = "migrating" /\ version[p] = 6 /\ plan[p] = {"stage", "count", "swap"}
      /\ plan'[p] = plan[p] \ {"stage"} /\ \A q \in Process \ {p} : plan'[q] = plan[q]
      /\ UNCHANGED <<at, applied, version>>
  BY RebuildSteps DEF Stage, TypeOK
<1>2. /\ schema \subseteq schema' /\ versions \subseteq versions'
      /\ \A v \in versions' : Leaves(v) \subseteq schema'
      /\ \A v \in tx'.rows : v # 6 /\ Leaves(v) \subseteq schema' \cup tx'.columns
      /\ \A q \in Process \ {p} : tx.by = q => tx' = tx
      /\ RowsSeen(p)' = RowsSeen(p)
  BY <1>1, MaybeCommits
<1>3. Keeps(p)
  BY <1>1, <1>2 DEF Keeps
<1>4. PlanFits(p)'
  BY <1>1 DEF PlanFits, RebuildPlans
<1>5. applied'[p] \subseteq RowsSeen(p)'
  BY <1>1, <1>2 DEF MigrationsFit
<1> QED
  BY <1>1, <1>2, <1>3, <1>4, <1>5, MigrationsStand

LEMMA CountFits ==
  ASSUME TypeOK, MigrationsFit, NEW p \in Process, Count(p)
  PROVE  MigrationsFit'
<1>1. CASE Fail(p)
  BY <1>1, FailFits
<1>2. CASE /\ plan' = [plan EXCEPT ![p] = @ \ {"count"}]
           /\ UNCHANGED <<store, tx, at, applied, version, stage, flag, report>>
  <2>1. /\ at[p] = "migrating" /\ version[p] = 6 /\ plan[p] = {"count", "swap"}
        /\ plan'[p] = plan[p] \ {"count"} /\ \A q \in Process \ {p} : plan'[q] = plan[q]
        /\ UNCHANGED <<schema, versions, tx, at, applied, version>>
    BY <1>2, RebuildSteps DEF Count, TypeOK, store
  <2>2. Keeps(p)
    BY <2>1 DEF Keeps
  <2>3. PlanFits(p)'
    BY <2>1 DEF PlanFits, RebuildPlans
  <2>4. applied'[p] \subseteq RowsSeen(p)'
    BY <2>1 DEF MigrationsFit, RowsSeen
  <2> QED
    BY <2>1, <2>2, <2>3, <2>4, MigrationsStand DEF MigrationsFit
<1> QED
  BY <1>1, <1>2 DEF Count

LEMMA SwapFits ==
  ASSUME TypeOK, MigrationsFit, NEW p \in Process, Swap(p)
  PROVE  MigrationsFit'
<1>1. /\ UNCHANGED <<schema, tx, at>> /\ versions' = versions \cup {6}
      /\ version'[p] = 0 /\ plan'[p] = {} /\ applied'[p] = applied[p] \cup {6}
      /\ \A q \in Process \ {p} :
           applied'[q] = applied[q] /\ version'[q] = version[q] /\ plan'[q] = plan[q]
      /\ at[p] = "migrating"
  BY RebuildSteps DEF Swap, TypeOK
<1>2. Keeps(p)
  BY <1>1 DEF Keeps
<1>3. \A v \in versions' : Leaves(v) \subseteq schema'
  BY <1>1, StatementTables DEF MigrationsFit
<1>4. PlanFits(p)'
  BY <1>1 DEF PlanFits
<1>5. applied'[p] \subseteq RowsSeen(p)'
  BY <1>1 DEF MigrationsFit, RowsSeen
<1> QED
  BY <1>1, <1>2, <1>3, <1>4, <1>5, MigrationsStand DEF MigrationsFit

LEMMA OpenReadOnlyFits ==
  ASSUME TypeOK, MigrationsFit, NEW p \in Process, OpenReadOnly(p)
  PROVE  MigrationsFit'
<1>1. /\ UNCHANGED <<schema, versions, tx, plan, applied, version>>
      /\ at' = [at EXCEPT ![p] = "reading"] \/ at' = at
  BY DEF OpenReadOnly, store
<1>2. \A q \in Process : at'[q] = at[q] \/ (q = p /\ at'[q] \in {"open", "reading"})
  BY <1>1 DEF TypeOK
<1> QED
  BY <1>1, <1>2, PlansUntouched

LEMMA StoreFits ==
  ASSUME TypeOK, MigrationsFit, NEW p \in Process, NEW r \in Record, Store(p, r)
  PROVE  MigrationsFit'
BY PlansUntouched DEF Store, mine

LEMMA ReportFits ==
  ASSUME TypeOK, MigrationsFit, NEW p \in Process, Report(p)
  PROVE  MigrationsFit'
BY PlansUntouched DEF Report, store

LEMMA LeaveFits ==
  ASSUME TypeOK, MigrationsFit, NEW p \in Process, Leave(p)
  PROVE  MigrationsFit'
<1>1. /\ at'[p] = "closed" /\ plan'[p] = {} /\ UNCHANGED <<schema, versions>>
      /\ Rollback(p)
      /\ \A q \in Process \ {p} : /\ at'[q] = at[q] /\ plan'[q] = plan[q]
                                  /\ applied'[q] = applied[q] /\ version'[q] = version[q]
  BY DEF Leave, store, TypeOK
<1>2. /\ \A q \in Process \ {p} : tx.by = q => tx' = tx
      /\ \A v \in tx'.rows : v # 6 /\ Leaves(v) \subseteq schema' \cup tx'.columns
  BY <1>1, RollbackIsWhole
<1>3. Keeps(p)
  BY <1>1, <1>2 DEF Keeps
<1> QED
  BY <1>1, <1>2, <1>3, MigrationsStand DEF MigrationsFit
-----------------------------------------------------------------------------
(* The rebuilt index.                                                      *)

Rebuilds(q) == at[q] = "migrating" /\ version[q] = 6 /\ "stage" \notin plan[q]

LEMMA IndexStands ==
  ASSUME IndexFits, UNCHANGED <<memories, fts, late, lateNew>>,
         6 \in versions' => 6 \in versions,
         \A q \in Process : Rebuilds(q)' =>
           /\ Rebuilds(q)
           /\ stage'[q] = stage[q] /\ plan'[q] = plan[q]
           /\ sole' = q => sole = q
  PROVE  IndexFits'
<1>1. \A q \in Process : Rebuilds(q)' => StageStands(q)'
  <2> SUFFICES ASSUME NEW q \in Process, Rebuilds(q)'
               PROVE  StageStands(q)'
    OBVIOUS
  <2>1. StageStands(q)
    BY DEF IndexFits, Rebuilds
  <2> QED
    BY <2>1 DEF StageStands, Texts, Ids
<1>2. 6 \in versions' => IndexIsRebuilt'
  BY DEF IndexFits, IndexIsRebuilt, Ids, Indexed, Texts
<1>3. \A r \in Record : fts'[r] # memories'[r] /\ fts'[r] # 0 /\ memories'[r] # 0 => r \in late'
  BY DEF IndexFits
<1> QED
  BY <1>1, <1>2, <1>3 DEF IndexFits, Rebuilds

(* The steps that touch neither memories nor the staged text.              *)
LEMMA QuietSteps ==
  ASSUME TypeOK, MigrationsFit, IndexFits, NEW p \in Process,
         \/ Open(p) \/ OpenReadOnly(p) \/ Begin(p) \/ CommitBeforeScript(p)
         \/ RecordVersion(p) \/ Finish(p) \/ Report(p) \/ Leave(p)
  PROVE  IndexFits'
<1>1. CASE Open(p)
  <2>1. /\ UNCHANGED <<memories, fts, late, lateNew, versions, plan, stage>>
        /\ version'[p] = 0 /\ sole' = p
        /\ \A q \in Process \ {p} : at'[q] = at[q] /\ version'[q] = version[q]
    BY <1>1 DEF Open, store, TypeOK
  <2>2. \A q \in Process : Rebuilds(q)' => Rebuilds(q) /\ q # p
    BY <2>1 DEF Rebuilds
  <2> QED
    BY <2>1, <2>2, IndexStands
<1>2. CASE OpenReadOnly(p)
  <2>1. /\ UNCHANGED <<memories, fts, late, lateNew, versions, plan, stage, version>>
        /\ \A q \in Process : at'[q] = at[q] \/ at'[q] = "reading"
        /\ sole' # None => sole = sole'
    BY <1>2 DEF OpenReadOnly, Steps, store, TypeOK
  <2>2. \A q \in Process : Rebuilds(q)' => Rebuilds(q)
    BY <2>1 DEF Rebuilds
  <2> QED
    BY <2>1, <2>2, IndexStands, ConstantsFit
<1>3. CASE Begin(p)
  <2>1. PICK v \in Version :
          /\ version' = [version EXCEPT ![p] = v]
          /\ plan' = [plan EXCEPT ![p] = Needed(p, v)]
    BY <1>3 DEF Begin
  <2>2. /\ UNCHANGED <<memories, fts, late, lateNew, versions, stage, at>>
        /\ sole' # None => sole = sole'
    BY <1>3 DEF Begin, Steps, store, past
  <2>3. v = 6 => "stage" \in Needed(p, v)
    BY <2>1, NeededFits
  <2>4. /\ version'[p] = v /\ plan'[p] = Needed(p, v)
        /\ \A q \in Process \ {p} : version'[q] = version[q] /\ plan'[q] = plan[q]
    BY <2>1 DEF TypeOK
  <2>5. \A q \in Process : Rebuilds(q)' => Rebuilds(q) /\ q # p
    BY <2>2, <2>3, <2>4 DEF Rebuilds
  <2> QED
    BY <2>2, <2>4, <2>5, IndexStands, ConstantsFit
<1>4. CASE CommitBeforeScript(p)
  <2>1. /\ UNCHANGED <<memories, fts, late, lateNew, version, plan, stage, at>>
        /\ sole' # None => sole = sole'
        /\ versions' = versions \cup tx.rows
    BY <1>4 DEF CommitBeforeScript, Commit, Steps, mine, past
  <2>2. 6 \in versions' => 6 \in versions
    BY <2>1 DEF MigrationsFit
  <2>3. \A q \in Process : Rebuilds(q)' => Rebuilds(q)
    BY <2>1 DEF Rebuilds
  <2> QED
    BY <2>1, <2>2, <2>3, IndexStands, ConstantsFit
<1>5. CASE RecordVersion(p)
  <2>1. /\ UNCHANGED <<memories, fts, late, lateNew, versions, stage, at>>
        /\ sole' # None => sole = sole'
        /\ version'[p] = 0
        /\ \A q \in Process \ {p} : version'[q] = version[q] /\ plan'[q] = plan[q]
    BY <1>5 DEF RecordVersion, Steps, store, past, TypeOK
  <2>2. \A q \in Process : Rebuilds(q)' => Rebuilds(q) /\ q # p
    BY <2>1 DEF Rebuilds
  <2> QED
    BY <2>1, <2>2, IndexStands, ConstantsFit
<1>6. CASE Finish(p)
  <2>1. /\ UNCHANGED <<memories, fts, late, lateNew, version, plan, stage>>
        /\ sole' # None => sole = sole'
        /\ versions' = versions \/ versions' = versions \cup tx.rows
        /\ \A q \in Process : at'[q] = at[q] \/ at'[q] = "open"
    BY <1>6 DEF Finish, Commit, Steps, past, TypeOK
  <2>2. 6 \in versions' => 6 \in versions
    BY <2>1 DEF MigrationsFit
  <2>3. \A q \in Process : Rebuilds(q)' => Rebuilds(q)
    BY <2>1 DEF Rebuilds
  <2> QED
    BY <2>1, <2>2, <2>3, IndexStands, ConstantsFit
<1>7. CASE Report(p)
  <2>1. /\ UNCHANGED <<memories, fts, late, lateNew, versions, version, plan, stage, at>>
        /\ sole' # None => sole = sole'
    BY <1>7 DEF Report, Steps, store, past
  <2>2. \A q \in Process : Rebuilds(q)' => Rebuilds(q)
    BY <2>1 DEF Rebuilds
  <2> QED
    BY <2>1, <2>2, IndexStands, ConstantsFit
<1>8. CASE Leave(p)
  <2>1. /\ UNCHANGED <<memories, fts, late, lateNew, versions>>
        /\ sole' # None => sole = sole'
        /\ at'[p] = "closed"
        /\ \A q \in Process \ {p} : /\ at'[q] = at[q] /\ version'[q] = version[q]
                                    /\ plan'[q] = plan[q] /\ stage'[q] = stage[q]
    BY <1>8 DEF Leave, Steps, store, TypeOK
  <2>2. \A q \in Process : Rebuilds(q)' => Rebuilds(q) /\ q # p
    BY <2>1 DEF Rebuilds
  <2> QED
    BY <2>1, <2>2, IndexStands, ConstantsFit
<1> QED
  BY <1>1, <1>2, <1>3, <1>4, <1>5, <1>6, <1>7, <1>8

LEMMA FailIsQuiet ==
  ASSUME TypeOK, MigrationsFit, IndexFits, NEW p \in Process, Fail(p), Steps(p),
         UNCHANGED <<crashes, past>>
  PROVE  IndexFits'
<1>1. /\ UNCHANGED <<memories, fts, late, lateNew, versions, version>>
      /\ sole' # None => sole = sole'
      /\ at'[p] = "failed"
      /\ \A q \in Process \ {p} :
           at'[q] = at[q] /\ plan'[q] = plan[q] /\ stage'[q] = stage[q]
  BY DEF Fail, Steps, store, past, TypeOK
<1>2. \A q \in Process : Rebuilds(q)' => Rebuilds(q) /\ q # p
  BY <1>1 DEF Rebuilds
<1> QED
  BY <1>1, <1>2, IndexStands, ConstantsFit

LEMMA ExecuteIsQuiet ==
  ASSUME TypeOK, MigrationsFit, IndexFits, NEW p \in Process, Execute(p)
  PROVE  IndexFits'
<1>1. PICK s \in plan[p] :
        version[p] \in Version \ {6} /\ (Fails(p, s) \/ Adds(p, s))
  BY ExecutesOne
<1>2. Steps(p) /\ UNCHANGED <<crashes, past>>
  BY DEF Execute
<1>3. CASE Fails(p, s)
  BY <1>2, <1>3, FailIsQuiet DEF Fails
<1>4. CASE Adds(p, s)
  <2>1. /\ UNCHANGED <<memories, fts, late, lateNew, versions, version, stage, at>>
        /\ sole' # None => sole = sole'
        /\ \A q \in Process \ {p} : plan'[q] = plan[q]
    BY <1>2, <1>4 DEF Adds, Steps, past, TypeOK
  <2>2. \A q \in Process : Rebuilds(q)' => Rebuilds(q) /\ q # p
    BY <1>1, <2>1 DEF Rebuilds
  <2> QED
    BY <2>1, <2>2, IndexStands, ConstantsFit
<1> QED
  BY <1>1, <1>3, <1>4

LEMMA StageIsRight ==
  ASSUME TypeOK, MigrationsFit, IndexFits, NEW p \in Process, Stage(p)
  PROVE  IndexFits'
<1>1. /\ plan[p] = {"stage", "count", "swap"} /\ plan'[p] = {"count", "swap"}
      /\ \A q \in Process \ {p} : plan'[q] = plan[q] /\ stage'[q] = stage[q]
      /\ UNCHANGED <<memories, fts, late, lateNew, at, version>>
      /\ sole' # None => sole = sole'
      /\ versions' = versions \/ versions' = versions \cup tx.rows
  BY RebuildSteps DEF Stage, Steps, Commit, past, TypeOK
<1>2. \A r \in Record :
        stage'[p][r] = IF memories[r] # 0 /\ fts[r] # 0 THEN fts[r] ELSE memories[r]
  BY DEF Stage, TypeOK
<1>3. 6 \in versions' => 6 \in versions
  BY <1>1 DEF MigrationsFit
<1>4. 6 \in versions' => IndexIsRebuilt'
  BY <1>1, <1>3 DEF IndexFits, IndexIsRebuilt, Ids, Indexed, Texts
<1>5. \A r \in Record : fts'[r] # memories'[r] /\ fts'[r] # 0 /\ memories'[r] # 0 => r \in late'
  BY <1>1 DEF IndexFits
<1>6. StageStands(p)'
  <2>1. /\ \A r \in Record : stage'[p][r] # 0 => memories'[r] # 0
        /\ \A r \in Record : stage'[p][r] # memories'[r] => r \in late'
    BY <1>1, <1>2 DEF IndexFits
  <2>2. "count" \in plan'[p]
    BY <1>1
  <2>3. Texts(stage[p])' = Ids'
    BY <1>1, <1>2 DEF Texts, Ids
  <2> QED
    BY <2>1, <2>2, <2>3 DEF StageStands
<1>7. ASSUME NEW q \in Process, Rebuilds(q)'
      PROVE  StageStands(q)'
  <2>1. CASE q = p
    BY <1>6, <2>1
  <2>2. CASE q # p
    <3>1. Rebuilds(q) /\ StageStands(q)
      BY <1>1, <1>7, <2>2 DEF IndexFits, Rebuilds
    <3> QED
      BY <1>1, <2>2, <3>1, ConstantsFit DEF StageStands, Texts, Ids
  <2> QED
    BY <2>1, <2>2
<1> QED
  BY <1>4, <1>5, <1>7 DEF IndexFits, Rebuilds

LEMMA CountIsRight ==
  ASSUME TypeOK, MigrationsFit, IndexFits, NEW p \in Process, Count(p)
  PROVE  IndexFits'
<1>1. CASE Fail(p)
  BY <1>1, FailIsQuiet DEF Count
<1>2. CASE /\ Complete(p)
           /\ plan' = [plan EXCEPT ![p] = @ \ {"count"}]
           /\ UNCHANGED <<store, tx, at, applied, version, stage, flag, report>>
  <2>1. /\ plan[p] = {"count", "swap"} /\ plan'[p] = {"swap"} /\ Rebuilds(p)
        /\ \A q \in Process \ {p} : plan'[q] = plan[q]
        /\ UNCHANGED <<memories, fts, late, lateNew, at, version, versions, stage>>
        /\ sole' # None => sole = sole'
    BY <1>2, RebuildSteps DEF Count, Steps, store, past, TypeOK, Rebuilds
  <2>2. StageStands(p)
    BY <2>1 DEF IndexFits, Rebuilds
  <2>3. Texts(stage[p]) = Ids
    <3>1. Texts(stage[p]) \subseteq Ids /\ Ids \subseteq Record
      BY <2>2 DEF StageStands, Texts, Ids
    <3>2. IsFiniteSet(Ids)
      BY <3>1, ConstantsFit, FS_Subset
    <3>3. Cardinality(Ids) = Cardinality(Texts(stage[p]))
      BY <1>2 DEF Complete, Ids
    <3> QED
      BY <3>1, <3>2, <3>3, FS_Subset
  <2>4. StageStands(p)'
    <3>1. \A r \in Record : ~ (stage[p][r] = 0 /\ memories[r] # 0)
      BY <2>3 DEF Texts, Ids
    <3> QED
      BY <2>1, <2>2, <3>1 DEF StageStands
  <2>5. \A q \in Process \ {p} : Rebuilds(q)' => StageStands(q)'
    <3> SUFFICES ASSUME NEW q \in Process \ {p}, Rebuilds(q)'
                 PROVE  StageStands(q)'
      OBVIOUS
    <3>1. Rebuilds(q) /\ StageStands(q)
      BY <2>1 DEF IndexFits, Rebuilds
    <3> QED
      BY <2>1, <3>1, ConstantsFit DEF StageStands, Texts, Ids
  <2>6. 6 \in versions' => IndexIsRebuilt'
    BY <2>1 DEF IndexFits, IndexIsRebuilt, Ids, Indexed, Texts
  <2>7. \A r \in Record :
          fts'[r] # memories'[r] /\ fts'[r] # 0 /\ memories'[r] # 0 => r \in late'
    BY <2>1 DEF IndexFits
  <2> QED
    BY <2>4, <2>5, <2>6, <2>7 DEF IndexFits, Rebuilds
<1> QED
  BY <1>1, <1>2 DEF Count

LEMMA SwapIsRight ==
  ASSUME TypeOK, MigrationsFit, IndexFits, NEW p \in Process, Swap(p)
  PROVE  IndexFits'
<1>1. /\ plan[p] = {"swap"} /\ Rebuilds(p) /\ version'[p] = 0
      /\ fts' = stage[p]
      /\ \A q \in Process \ {p} :
           plan'[q] = plan[q] /\ stage'[q] = stage[q] /\ version'[q] = version[q]
      /\ UNCHANGED <<memories, late, lateNew, at>>
      /\ sole' # None => sole = sole'
  BY RebuildSteps DEF Swap, Steps, past, TypeOK, Rebuilds
<1>2. StageStands(p)
  BY <1>1 DEF IndexFits, Rebuilds
<1>3. /\ \A r \in Record : fts'[r] # 0 => memories'[r] # 0
      /\ \A r \in Record : fts'[r] # memories'[r] => r \in late'
      /\ \A r \in Record : fts'[r] = 0 /\ memories'[r] # 0 => r \in lateNew'
  BY <1>1, <1>2 DEF StageStands
<1>4. IndexIsRebuilt'
  BY <1>3 DEF IndexIsRebuilt, Ids, Indexed, Texts
<1>5. ASSUME NEW q \in Process, Rebuilds(q)'
      PROVE  StageStands(q)'
  <2>1. q # p
    BY <1>1, <1>5 DEF Rebuilds
  <2>2. Rebuilds(q) /\ StageStands(q)
    BY <1>1, <1>5, <2>1 DEF IndexFits, Rebuilds
  <2> QED
    BY <1>1, <2>1, <2>2, ConstantsFit DEF StageStands, Texts, Ids
<1> QED
  BY <1>3, <1>4, <1>5 DEF IndexFits, Rebuilds

LEMMA StoreIsRight ==
  ASSUME TypeOK, MigrationsFit, IndexFits, NEW p \in Process, NEW r \in Record, Store(p, r)
  PROVE  IndexFits'
<1>1. /\ memories'[r] = memories[r] + 1 /\ fts'[r] = memories[r] + 1
      /\ memories[r] + 1 # 0
      /\ \A s \in Record \ {r} : memories'[s] = memories[s] /\ fts'[s] = fts[s]
      /\ UNCHANGED <<versions, at, version, plan, stage>>
      /\ at[p] = "open"
      /\ sole' # None => sole' = p
  BY DEF Store, Steps, TypeOK, mine
<1>2. /\ late \subseteq late' /\ lateNew \subseteq lateNew'
      /\ (\E q \in Process : AtRebuild(q, "count") \/ AtRebuild(q, "swap")) => r \in late'
      /\ memories[r] = 0 /\ (\E q \in Process : AtRebuild(q, "swap")) => r \in lateNew'
  BY DEF Store
<1>3. 6 \in versions' => IndexIsRebuilt'
  BY <1>1, <1>2 DEF IndexFits, IndexIsRebuilt, Ids, Indexed, Texts
<1>4. \A s \in Record : fts'[s] # memories'[s] /\ fts'[s] # 0 /\ memories'[s] # 0 => s \in late'
  BY <1>1, <1>2 DEF IndexFits
<1>5. ASSUME NEW q \in Process, Rebuilds(q)'
      PROVE  StageStands(q)'
  <2>1. Rebuilds(q) /\ StageStands(q) /\ q # p
    BY <1>1, <1>5 DEF IndexFits, Rebuilds
  <2>2. \/ plan[q] = {"count", "swap"} /\ AtRebuild(q, "count")
        \/ plan[q] = {"swap"} /\ AtRebuild(q, "swap")
    BY <2>1, RebuildSteps DEF Rebuilds
  <2>3. r \in late'
    BY <1>2, <2>2
  <2>4. "count" \notin plan[q] /\ memories[r] = 0 => r \in lateNew'
    BY <1>2, <2>2
  <2>5. sole' # q
    BY <1>1, <2>1, ConstantsFit
  <2>6. /\ \A s \in Record : stage[q][s] # 0 => memories[s] # 0
        /\ \A s \in Record : stage[q][s] # memories[s] => s \in late
        /\ "count" \notin plan[q] =>
             \A s \in Record : stage[q][s] = 0 /\ memories[s] # 0 => s \in lateNew
    BY <2>1 DEF StageStands
  <2>7. \A s \in Record : stage'[q][s] # 0 => memories'[s] # 0
    BY <1>1, <2>6
  <2>8. \A s \in Record : stage'[q][s] # memories'[s] => s \in late'
    BY <1>1, <1>2, <2>3, <2>6
  <2>9. "count" \notin plan'[q] =>
          \A s \in Record : stage'[q][s] = 0 /\ memories'[s] # 0 => s \in lateNew'
    BY <1>1, <1>2, <2>4, <2>6
  <2> QED
    BY <2>5, <2>7, <2>8, <2>9 DEF StageStands
<1> QED
  BY <1>3, <1>4, <1>5 DEF IndexFits, Rebuilds
-----------------------------------------------------------------------------
(* An opener that is alone.                                                *)

AloneFits(p) ==
  /\ tx.by \in {None, p}
  /\ at[p] = "migrating" /\ version[p] \in {7, 9} => plan[p] \cap Columns \cap Visible(p) = {}
  /\ at[p] = "failed" => version[p] = 4

LEMMA QuietAlone ==
  ASSUME TypeOK, MigrationsFit, SoleFits, NEW p \in Process,
         \/ Open(p) \/ OpenReadOnly(p) \/ Begin(p) \/ CommitBeforeScript(p)
         \/ RecordVersion(p) \/ Finish(p) \/ Stage(p) \/ Swap(p)
         \/ Report(p) \/ Leave(p) \/ \E r \in Record : Store(p, r)
  PROVE  SoleFits'
<1>1. CASE Open(p)
  <2>1. sole' = p /\ tx' = tx /\ tx.by \in {None, p} /\ at'[p] = "migrating" /\ version'[p] = 0
    BY <1>1 DEF Open, MayWrite, TypeOK
  <2> QED
    BY <2>1, ConstantsFit DEF SoleFits, AloneFits, Visible
<1> DEFINE Stepped == (sole' # None => sole' = p /\ sole = p)
<1>2. Steps(p) => Stepped
  BY DEF Steps
<1>3. sole = p => AloneFits(p)
  BY DEF SoleFits, AloneFits
<1>4. CASE OpenReadOnly(p)
  <2>1. Stepped /\ tx' = tx /\ at'[p] \in {"closed", "reading"}
    BY <1>2, <1>4 DEF OpenReadOnly, TypeOK
  <2> QED
    BY <1>3, <2>1, ConstantsFit DEF SoleFits, AloneFits, Visible
<1>5. CASE Begin(p)
  <2>1. PICK v \in Version :
          /\ version' = [version EXCEPT ![p] = v]
          /\ plan' = [plan EXCEPT ![p] = Needed(p, v)]
    BY <1>5 DEF Begin
  <2>2. Stepped /\ tx' = tx /\ schema' = schema /\ at[p] = "migrating" /\ at' = at
    BY <1>2, <1>5 DEF Begin, store
  <2>3. version'[p] = v /\ plan'[p] = Needed(p, v) /\ Visible(p)' = Visible(p)
    BY <2>1, <2>2 DEF TypeOK, Visible
  <2>4. v \in {7, 9} => Needed(p, v) \cap Columns \cap Visible(p) = {}
    BY <2>1, NeededFits
  <2> QED
    BY <1>3, <2>2, <2>3, <2>4, ConstantsFit DEF SoleFits, AloneFits, Visible
<1>6. CASE CommitBeforeScript(p)
  <2>1. Stepped /\ tx.by = p /\ Commit /\ UNCHANGED mine
    BY <1>2, <1>6 DEF CommitBeforeScript
  <2>2. tx'.by = None /\ Visible(p)' = Visible(p)
    BY <2>1, CommitIsWhole, IdleFits DEF Commit
  <2> QED
    BY <1>3, <2>1, <2>2, ConstantsFit DEF SoleFits, AloneFits, Visible, mine
<1>7. CASE RecordVersion(p)
  <2>1. Stepped /\ tx'.by = p /\ at'[p] = "migrating" /\ version'[p] = 0
    BY <1>2, <1>7 DEF RecordVersion, TypeOK
  <2> QED
    BY <2>1, ConstantsFit DEF SoleFits, AloneFits, Visible
<1>8. CASE Finish(p)
  <2>1. Stepped /\ at'[p] = "open" /\ (tx' = tx \/ tx'.by = None)
    BY <1>2, <1>8, IdleFits DEF Finish, Commit, TypeOK
  <2> QED
    BY <1>3, <2>1, ConstantsFit DEF SoleFits, AloneFits, Visible
<1>9. CASE Stage(p)
  <2>1. /\ Stepped /\ at'[p] = "migrating" /\ version'[p] = 6
        /\ (tx' = tx \/ tx'.by = None)
    BY <1>2, <1>9, IdleFits, RebuildSteps DEF Stage, Commit, TypeOK
  <2> QED
    BY <1>3, <2>1, ConstantsFit DEF SoleFits, AloneFits, Visible
<1>10. CASE Swap(p)
  <2>1. Stepped /\ at'[p] = "migrating" /\ version'[p] = 0 /\ tx' = tx
    BY <1>2, <1>10, RebuildSteps DEF Swap, TypeOK
  <2> QED
    BY <1>3, <2>1, ConstantsFit DEF SoleFits, AloneFits, Visible
<1>11. CASE Report(p)
  <2>1. Stepped /\ at'[p] \in {"open", "reading"} /\ tx' = tx
    BY <1>2, <1>11 DEF Report
  <2> QED
    BY <1>3, <2>1, ConstantsFit DEF SoleFits, AloneFits, Visible
<1>12. CASE Leave(p)
  <2>1. Stepped /\ at'[p] = "closed" /\ (tx' = tx \/ tx'.by = None)
    BY <1>2, <1>12, IdleFits DEF Leave, Rollback, TypeOK
  <2> QED
    BY <1>3, <2>1, ConstantsFit DEF SoleFits, AloneFits, Visible
<1>13. CASE \E r \in Record : Store(p, r)
  <2>1. Stepped /\ at'[p] = "open" /\ tx' = tx
    BY <1>2, <1>13 DEF Store, mine
  <2> QED
    BY <1>3, <2>1, ConstantsFit DEF SoleFits, AloneFits, Visible
<1> QED
  BY <1>1, <1>4, <1>5, <1>6, <1>7, <1>8, <1>9, <1>10, <1>11, <1>12, <1>13

(* A version that fails alone can only be the fourth.                      *)
LEMMA FailsAlone ==
  ASSUME TypeOK, NEW p \in Process, Fail(p), Steps(p),
         sole = p => tx.by \in {None, p} /\ version[p] = 4
  PROVE  SoleFits'
<1>1. /\ sole' # None => sole' = p /\ sole = p
      /\ at'[p] = "failed" /\ version' = version /\ (tx' = tx \/ tx'.by = None)
  BY IdleFits DEF Fail, Steps, Rollback, TypeOK
<1> QED
  BY <1>1, ConstantsFit DEF SoleFits, AloneFits, Visible

LEMMA ExecuteAlone ==
  ASSUME TypeOK, MigrationsFit, SoleFits, NEW p \in Process, Execute(p)
  PROVE  SoleFits'
<1>1. PICK s \in plan[p] :
        /\ at[p] = "migrating" /\ version[p] \in Version \ {6}
        /\ plan[p] \subseteq Leaves(version[p])
        /\ Fails(p, s) \/ Adds(p, s)
  BY ExecutesOne
<1>2. Steps(p)
  BY DEF Execute
<1>3. CASE Fails(p, s)
  <2>1. sole = p => tx.by \in {None, p} /\ version[p] = 4
    <3>1. s \in Columns \cap Visible(p) /\ s \in Leaves(version[p])
      BY <1>1, <1>3 DEF Fails
    <3>2. version[p] \in {4, 7, 9}
      BY <1>1, <3>1, OnlyThreeVersionsAddColumns
    <3> QED
      BY <1>1, <3>1, <3>2 DEF SoleFits
  <2> QED
    BY <1>2, <1>3, <2>1, FailsAlone DEF Fails
<1>4. CASE Adds(p, s)
  <2>1. /\ sole' # None => sole' = p /\ sole = p
        /\ UNCHANGED <<at, version>> /\ plan'[p] = plan[p] \ {s}
        /\ tx'.by = tx.by
    BY <1>2, <1>4 DEF Adds, Steps, TypeOK
  <2>2. Visible(p)' = Visible(p) \cup {s}
    BY <1>4, ConstantsFit DEF Adds, Visible
  <2>3. sole = p => AloneFits(p)'
    BY <1>1, <2>1, <2>2 DEF SoleFits, AloneFits
  <2> QED
    BY <2>1, <2>3, ConstantsFit DEF SoleFits, AloneFits, Visible
<1> QED
  BY <1>1, <1>3, <1>4

LEMMA CountAlone ==
  ASSUME TypeOK, MigrationsFit, IndexFits, SoleFits, NEW p \in Process, Count(p)
  PROVE  SoleFits'
<1>1. /\ at[p] = "migrating" /\ version[p] = 6 /\ plan[p] = {"count", "swap"}
      /\ Steps(p)
  BY RebuildSteps DEF Count
<1>2. CASE ~ Complete(p) /\ Fail(p)
  <2>1. sole # p
    <3>1. sole = p => Texts(stage[p]) = Ids
      BY <1>1 DEF IndexFits, StageStands
    <3> QED
      BY <1>2, <3>1 DEF Complete, Ids
  <2> QED
    BY <1>1, <1>2, <2>1, FailsAlone
<1>3. CASE UNCHANGED <<store, tx, at, applied, version, stage, flag, report>>
  <2>1. sole' # None => sole' = p /\ sole = p
    BY <1>1 DEF Steps
  <2>2. sole = p => AloneFits(p)'
    BY <1>1, <1>3 DEF SoleFits, AloneFits
  <2> QED
    BY <2>1, <2>2, ConstantsFit DEF SoleFits, AloneFits, Visible
<1> QED
  BY <1>2, <1>3 DEF Count

-----------------------------------------------------------------------------
(* Readers and contests.                                                   *)

LEMMA ContestsStand ==
  ASSUME ContestsFit, UNCHANGED <<memories, contested>>, schema \subseteq schema',
         \A q \in Process : at'[q] \in {"open", "reading"} =>
           /\ at'[q] = at[q]
           /\ flag'[q] = flag[q] /\ found'[q] = found[q],
         \A q \in Process : found'[q] = found[q] \/ found'[q] \subseteq Ids
  PROVE  ContestsFit'
BY DEF ContestsFit, Ids, Texts

LEMMA QuietContests ==
  ASSUME TypeOK, MigrationsFit, ContestsFit, NEW p \in Process,
         \/ Open(p) \/ Begin(p) \/ CommitBeforeScript(p) \/ Execute(p)
         \/ RecordVersion(p) \/ Stage(p) \/ Count(p) \/ Swap(p) \/ Report(p) \/ Leave(p)
  PROVE  ContestsFit'
<1>1. CASE Open(p)
  <2>1. /\ UNCHANGED <<schema, memories, contested, flag>> /\ at'[p] = "migrating"
        /\ found'[p] = Ids
        /\ \A q \in Process \ {p} : at'[q] = at[q] /\ found'[q] = found[q]
    BY <1>1 DEF Open, store, TypeOK, Ids
  <2> QED
    BY <2>1, ContestsStand
<1>2. CASE Begin(p)
  BY <1>2, ContestsStand DEF Begin, store, past
<1>3. CASE CommitBeforeScript(p)
  BY <1>3, ContestsStand DEF CommitBeforeScript, Commit, mine, past
<1>4. ASSUME Fail(p), UNCHANGED past
      PROVE  ContestsFit'
  <2>1. /\ UNCHANGED <<schema, memories, contested, flag, found>> /\ at'[p] = "failed"
        /\ \A q \in Process \ {p} : at'[q] = at[q]
    BY <1>4 DEF Fail, store, past, TypeOK
  <2> QED
    BY <2>1, ContestsStand
<1>5. CASE Execute(p)
  <2>1. PICK s \in plan[p] : Fails(p, s) \/ Adds(p, s)
    BY <1>5, ExecutesOne
  <2>2. UNCHANGED past
    BY <1>5 DEF Execute
  <2>3. CASE Fails(p, s)
    BY <1>4, <2>2, <2>3 DEF Fails
  <2>4. CASE Adds(p, s)
    <3>1. /\ UNCHANGED <<memories, contested, at, flag, found>> /\ schema \subseteq schema'
      BY <2>2, <2>4 DEF Adds, past
    <3> QED
      BY <3>1, ContestsStand
  <2> QED
    BY <2>1, <2>3, <2>4
<1>6. CASE RecordVersion(p)
  BY <1>6, ContestsStand DEF RecordVersion, store, past
<1>7. CASE Stage(p)
  <2>1. UNCHANGED <<memories, contested, at, flag, found>> /\ schema \subseteq schema'
    BY <1>7 DEF Stage, Commit, past
  <2> QED
    BY <2>1, ContestsStand
<1>8. CASE Count(p)
  <2>1. UNCHANGED past
    BY <1>8 DEF Count
  <2>2. CASE Fail(p)
    BY <1>4, <2>1, <2>2
  <2>3. CASE UNCHANGED <<store, tx, at, applied, version, stage, flag, report>>
    BY <2>1, <2>3, ContestsStand DEF store, past
  <2> QED
    BY <1>8, <2>2, <2>3 DEF Count
<1>9. CASE Swap(p)
  BY <1>9, ContestsStand DEF Swap, past
<1>10. CASE Report(p)
  BY <1>10, ContestsStand DEF Report, store, past
<1>11. CASE Leave(p)
  <2>1. /\ UNCHANGED <<schema, memories, contested>> /\ at'[p] = "closed"
        /\ found'[p] = {}
        /\ \A q \in Process \ {p} :
             at'[q] = at[q] /\ flag'[q] = flag[q] /\ found'[q] = found[q]
    BY <1>11 DEF Leave, store, TypeOK
  <2> QED
    BY <2>1, ContestsStand
<1> QED
  BY <1>1, <1>2, <1>3, <1>5, <1>6, <1>7, <1>8, <1>9, <1>10, <1>11

LEMMA OpenReadOnlyContests ==
  ASSUME TypeOK, ContestsFit, NEW p \in Process, OpenReadOnly(p)
  PROVE  ContestsFit'
<1>1. at[p] = "closed" /\ tx.by # p /\ UNCHANGED <<schema, memories, contested>>
  BY DEF OpenReadOnly, store, TypeOK
<1>2. CASE UNCHANGED <<at, flag, found>>
  BY <1>1, <1>2, ContestsStand
<1>3. CASE /\ at' = [at EXCEPT ![p] = "reading"]
           /\ flag' = [flag EXCEPT ![p] = DetectContestSchema(p)]
           /\ found' = [found EXCEPT ![p] = Texts(memories)]
  <2>1. /\ at'[p] = "reading" /\ found'[p] = Ids
        /\ flag'[p] = DetectContestSchema(p)
        /\ \A q \in Process \ {p} :
             at'[q] = at[q] /\ flag'[q] = flag[q] /\ found'[q] = found[q]
    BY <1>3 DEF Ids, TypeOK
  <2>2. ~ flag'[p] => contested = {}
    BY <1>1, <2>1 DEF DetectContestSchema, Visible, ContestsFit
  <2> QED
    BY <1>1, <2>1, <2>2 DEF ContestsFit, Ids, Texts
<1> QED
  BY <1>2, <1>3 DEF OpenReadOnly

LEMMA FinishContests ==
  ASSUME TypeOK, MigrationsFit, ContestsFit, NEW p \in Process, Finish(p)
  PROVE  ContestsFit'
<1>1. /\ IF tx.by = p THEN Commit ELSE UNCHANGED <<versions, schema, tx>>
      /\ at[p] = "migrating" /\ Version \subseteq applied[p]
      /\ at'[p] = "open" /\ flag'[p] = DetectContestSchema(p)
      /\ \A q \in Process \ {p} : at'[q] = at[q] /\ flag'[q] = flag[q]
      /\ UNCHANGED <<memories, contested, found>>
  BY DEF Finish, TypeOK, past
<1>2. 7 \in versions \/ (tx.by = p /\ 7 \in tx.rows)
  BY <1>1 DEF MigrationsFit, RowsSeen, Version
<1>3. Leaves(7) \subseteq Visible(p)
  BY <1>2 DEF MigrationsFit, Visible
<1>4. ContestColumns \subseteq Visible(p) /\ flag'[p]
  BY <1>1, <1>3, ContestTables DEF DetectContestSchema
<1>5. schema \subseteq schema' /\ ContestColumns \subseteq schema'
  BY <1>1, <1>4 DEF Visible, Commit
<1> QED
  BY <1>1, <1>4, <1>5 DEF ContestsFit, Ids, Texts

LEMMA StoreContests ==
  ASSUME TypeOK, ContestsFit, NEW p \in Process, NEW r \in Record, Store(p, r)
  PROVE  ContestsFit'
<1>1. /\ at[p] = "open" /\ UNCHANGED <<schema, at, flag, found>>
      /\ memories'[r] # 0 /\ \A s \in Record \ {r} : memories'[s] = memories[s]
      /\ memories[r] = 0 => contested' \subseteq contested \cup {r}
      /\ memories[r] # 0 => contested' \subseteq contested
  BY DEF Store, mine, TypeOK
<1>2. ContestColumns \subseteq schema
  BY <1>1 DEF ContestsFit
<1>3. \A q \in Process : found[q] \subseteq Ids
  BY DEF ContestsFit
<1>4. Ids \subseteq Ids'
  BY <1>1 DEF Ids, Texts
<1>5. memories[r] = 0 => r \notin Ids
  BY DEF Ids, Texts
<1>6. \A q \in Process : at[q] \in {"open", "reading"} /\ ~ flag[q]
                          => contested' \cap found[q] = {}
  BY <1>1, <1>3, <1>5 DEF ContestsFit
<1> QED
  BY <1>1, <1>2, <1>3, <1>4, <1>6 DEF ContestsFit-----------------------------------------------------------------------------
(* The invariant: a store as it was left fits, and every step keeps it.    *)

LEMMA MigrationInit ==
  ASSUME Init
  PROVE  TypeOK /\ MigrationInv
<1>1. PICK n \in Released :
        /\ versions = 1 .. n
        /\ schema = UNION {Leaves(v) : v \in 1 .. n}
        /\ memories \in [Record -> IF n = 0 THEN {0} ELSE {0, 1}]
        /\ fts \in [Record -> IF n = 0 THEN {0} ELSE {0, 1}]
        /\ n \notin 1 .. 5 => fts = memories
  BY DEF Init
<1>2. n \in 0 .. 10 /\ 1 .. n \subseteq Version
  BY <1>1, ConstantsFit DEF Version
<1>3. schema \subseteq Newest /\ \A v \in versions : Leaves(v) \subseteq schema
  BY <1>1, <1>2, StatementTables
<1>4. /\ contested = {} /\ tx = Idle /\ crashes = 0 /\ sole = None
      /\ late = {} /\ lateNew = {}
      /\ at = [p \in Process |-> "closed"]
      /\ applied = [p \in Process |-> {}]
      /\ version = [p \in Process |-> 0]
      /\ plan = [p \in Process |-> {}]
      /\ stage = [p \in Process |-> NoText]
      /\ flag = [p \in Process |-> FALSE]
      /\ found = [p \in Process |-> {}]
  BY DEF Init
<1>5. TypeOK
  <2>1. memories \in [Record -> 0 .. MaxText] /\ fts \in [Record -> 0 .. MaxText]
    BY <1>1, ConstantsFit
  <2>2. tx \in Transaction
    BY <1>4, IdleFits
  <2> QED
    BY <1>1, <1>2, <1>3, <1>4, <2>1, <2>2, ConstantsFit, NoTextIsText, IdleFits
    DEF TypeOK, Transaction
<1>6. MigrationsFit
  BY <1>3, <1>4, IdleFits DEF MigrationsFit
<1>7. IndexFits
  <2>1. 6 \in versions => fts = memories
    BY <1>1, <1>2
  <2>2. \A r \in Record : fts[r] # 0 /\ memories[r] # 0 => fts[r] = memories[r]
    BY <1>1
  <2> QED
    BY <1>4, <2>1, <2>2 DEF IndexFits, IndexIsRebuilt, Indexed, Ids, Texts
<1>8. SoleFits /\ ContestsFit
  BY <1>4, ConstantsFit DEF SoleFits, ContestsFit
<1> QED
  BY <1>5, <1>6, <1>7, <1>8 DEF MigrationInv

LEMMA MigrationStep ==
  ASSUME TypeOK, MigrationInv, [Next]_vars
  PROVE  TypeOK' /\ MigrationInv'
<1> USE DEF MigrationInv
<1>1. ASSUME NEW p \in Process, Open(p)
      PROVE  TypeOK' /\ MigrationInv'
  BY <1>1, OpenTypes, OpenFits, QuietSteps, QuietAlone, QuietContests
<1>2. ASSUME NEW p \in Process, OpenReadOnly(p)
      PROVE  TypeOK' /\ MigrationInv'
  BY <1>2, OpenReadOnlyTypes, OpenReadOnlyFits, QuietSteps, QuietAlone, OpenReadOnlyContests
<1>3. ASSUME NEW p \in Process, Begin(p)
      PROVE  TypeOK' /\ MigrationInv'
  BY <1>3, BeginTypes, BeginFits, QuietSteps, QuietAlone, QuietContests
<1>4. ASSUME NEW p \in Process, CommitBeforeScript(p)
      PROVE  TypeOK' /\ MigrationInv'
  BY <1>4, CommitBeforeScriptTypes, CommitBeforeScriptFits, QuietSteps, QuietAlone,
     QuietContests
<1>5. ASSUME NEW p \in Process, Execute(p)
      PROVE  TypeOK' /\ MigrationInv'
  BY <1>5, ExecuteTypes, ExecuteFits, ExecuteIsQuiet, ExecuteAlone, QuietContests
<1>6. ASSUME NEW p \in Process, RecordVersion(p)
      PROVE  TypeOK' /\ MigrationInv'
  BY <1>6, RecordVersionTypes, RecordVersionFits, QuietSteps, QuietAlone, QuietContests
<1>7. ASSUME NEW p \in Process, Finish(p)
      PROVE  TypeOK' /\ MigrationInv'
  BY <1>7, FinishTypes, FinishFits, QuietSteps, QuietAlone, FinishContests
<1>8. ASSUME NEW p \in Process, Stage(p)
      PROVE  TypeOK' /\ MigrationInv'
  BY <1>8, StageTypes, StageFits, StageIsRight, QuietAlone, QuietContests
<1>9. ASSUME NEW p \in Process, Count(p)
      PROVE  TypeOK' /\ MigrationInv'
  BY <1>9, CountTypes, CountFits, CountIsRight, CountAlone, QuietContests
<1>10. ASSUME NEW p \in Process, Swap(p)
       PROVE  TypeOK' /\ MigrationInv'
  BY <1>10, SwapTypes, SwapFits, SwapIsRight, QuietAlone, QuietContests
<1>11. ASSUME NEW p \in Process, NEW r \in Record, Store(p, r)
       PROVE  TypeOK' /\ MigrationInv'
  BY <1>11, StoreTypes, StoreFits, StoreIsRight, QuietAlone, StoreContests
<1>12. ASSUME NEW p \in Process, Report(p)
       PROVE  TypeOK' /\ MigrationInv'
  BY <1>12, ReportTypes, ReportFits, QuietSteps, QuietAlone, QuietContests
<1>13. ASSUME NEW p \in Process, Close(p) \/ Crash(p)
       PROVE  TypeOK' /\ MigrationInv'
  <2>1. Leave(p) /\ crashes' \in 0 .. MaxCrashes
    BY <1>13, ConstantsFit DEF Close, Crash, TypeOK
  <2> QED
    BY <2>1, LeaveTypes, LeaveFits, QuietSteps, QuietAlone, QuietContests
<1>14. CASE UNCHANGED vars
  BY <1>14 DEF vars, store, mine, past, TypeOK, MigrationsFit, PlanFits, Visible, RowsSeen,
     IndexFits, IndexIsRebuilt, StageStands, Ids, Indexed, Texts, SoleFits, ContestsFit
<1> QED
  BY <1>1, <1>2, <1>3, <1>4, <1>5, <1>6, <1>7, <1>8, <1>9, <1>10, <1>11, <1>12, <1>13,
     <1>14 DEF Next, Migrate

(* Every state of the store has its types and fits the invariant.          *)
THEOREM MigrationsTypeCorrect == Spec => [](TypeOK /\ MigrationInv)
<1>1. Init => TypeOK /\ MigrationInv
  BY MigrationInit
<1>2. TypeOK /\ MigrationInv /\ [Next]_vars => (TypeOK /\ MigrationInv)'
  BY MigrationStep
<1> QED
  BY <1>1, <1>2, PTL DEF Spec

(* A version whose row is there is there whole, for any number of openers  *)
(* racing and dying between any two of their statements: _migrate may skip *)
(* a version on the strength of its row alone.                             *)
THEOREM RecordedVersionsAreApplied == Spec => []RecordedIsApplied
<1>1. TypeOK /\ MigrationInv => RecordedIsApplied
  BY DEF MigrationInv, MigrationsFit, IndexFits, RecordedIsApplied
<1> QED
  BY <1>1, MigrationsTypeCorrect, PTL

(* An opener nobody disturbs fails at version 4 only, the one version that *)
(* adds columns without looking whether they are there.                    *)
THEOREM OnlyVersionFourFails == Spec => []UndisturbedFailsAtVersionFour
<1>1. TypeOK /\ MigrationInv => UndisturbedFailsAtVersionFour
  BY DEF MigrationInv, SoleFits, UndisturbedFailsAtVersionFour
<1> QED
  BY <1>1, MigrationsTypeCorrect, PTL

(* A repository that found no contested column when it opened the store    *)
(* shows no memory that was contested before.                              *)
THEOREM ReadersAreBlindToLaterContests == Spec => []BlindReadersPredateContests
<1>1. TypeOK /\ MigrationInv => BlindReadersPredateContests
  BY DEF MigrationInv, ContestsFit, BlindReadersPredateContests
<1> QED
  BY <1>1, MigrationsTypeCorrect, PTL

-----------------------------------------------------------------------------
(* What a report has read is of ids and counts of memories.                *)
Reports ==
  report \in [Process -> [next : {"none", "indexed", "ids", "diff", "done"},
                         count : Nat, indexed : Nat,
                         ids : SUBSET Record, missing : SUBSET Record]]

LEMMA IdsAreFinite ==
  /\ Ids \subseteq Record /\ Indexed \subseteq Record
  /\ Cardinality(Ids) \in Nat /\ Cardinality(Indexed) \in Nat
<1>1. Ids \subseteq Record /\ Indexed \subseteq Record
  BY DEF Ids, Indexed, Texts
<1>2. IsFiniteSet(Ids) /\ IsFiniteSet(Indexed)
  BY <1>1, ConstantsFit, FS_Subset
<1> QED
  BY <1>1, <1>2, FS_CardinalityType

LEMMA ReportStep ==
  ASSUME Reports, NEW p \in Process, Report(p)
  PROVE  /\ Reports'
         /\ \A q \in Process : report'[q].next = "done" /\ report[q].next # "done" =>
              report'[q].missing \cap Indexed = {}
<1>1. CASE report' = [report EXCEPT ![p] =
             [NoReport EXCEPT !.next = "indexed", !.count = Cardinality(Ids)]]
  BY <1>1, IdsAreFinite DEF Reports, NoReport
<1>2. CASE report' = [report EXCEPT ![p] =
             [@ EXCEPT !.indexed = Cardinality(Indexed), !.next = "ids"]]
  BY <1>2, IdsAreFinite DEF Reports
<1>3. CASE report' = [report EXCEPT ![p] = [@ EXCEPT !.ids = Ids, !.next = "diff"]]
  BY <1>3, IdsAreFinite DEF Reports
<1>4. CASE report' = [report EXCEPT ![p] =
             [@ EXCEPT !.missing = report[p].ids \ Indexed, !.ids = Indexed \ report[p].ids,
                       !.next = "done"]]
  BY <1>4, IdsAreFinite DEF Reports
<1> QED
  BY <1>1, <1>2, <1>3, <1>4 DEF Report, Scan

LEMMA ReportsSpeakOfNow ==
  ASSUME Reports, [Next]_vars
  PROVE  /\ Reports'
         /\ \A p \in Process : report'[p].next = "done" =>
              report'[p].missing \cap Indexed = {} \/ report[p].next = "done"
<1>1. CASE \E p \in Process : Report(p)
  BY <1>1, ReportStep
<1>2. CASE \E p \in Process : Leave(p)
  <2>1. PICK p \in Process : report' = [report EXCEPT ![p] = NoReport]
    BY <1>2 DEF Leave
  <2> QED
    BY <2>1 DEF Reports, NoReport
<1>3. CASE UNCHANGED report
  BY <1>3 DEF Reports
<1> QED
  BY <1>1, <1>2, <1>3 DEF Next, Migrate, Open, OpenReadOnly, Begin, CommitBeforeScript,
     Execute, Fail, RecordVersion, Stage, Count, Swap, Finish, Store, Close, Crash, vars, mine

(* _fts_projection_diff: what a report calls missing is missing when it    *)
(* says so, whatever was stored between its two scans.                     *)
THEOREM ReportedMissingIsMissing == Spec => MissingIsMissing
<1>1. Init => Reports
  BY DEF Init, Reports, NoReport
<1>2. Reports /\ [Next]_vars => Reports'
  BY ReportsSpeakOfNow
<1>3. Reports /\ [Next]_vars =>
        [\A p \in Process : report'[p].next = "done" =>
           report'[p].missing \cap Indexed = {} \/ report[p].next = "done"]_vars
  BY ReportsSpeakOfNow
<1> QED
  BY <1>1, <1>2, <1>3, PTL DEF Spec, MissingIsMissing
=============================================================================
