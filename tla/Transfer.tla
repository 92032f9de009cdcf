------------------------------ MODULE Transfer ------------------------------
(***************************************************************************)
(* The jobs that move whole stores while agents go on using them: export   *)
(* and restore of a portable bundle (portable.py), imports of legacy and   *)
(* foreign memories (importer.py, importers/), bulk assignment of ownership*)
(* (ownership.py), and the log of recall receipts they carry along         *)
(* (repositories/sqlite.py).  A job works in several transactions, other   *)
(* writers come in between, and it may die after any of them.              *)
(*                                                                         *)
(* A memory is its text, its scope ("none" for a legacy record nobody owns *)
(* yet) and whether the contest gate holds it aside.                       *)
(***************************************************************************)
EXTENDS Integers, Sequences, FiniteSets, SequencesExt, FiniteSetsExt

CONSTANTS
  Store,         \* databases
  Name,          \* ids that callers choose and legacy records bring along
  Key,           \* what identifies an item in a foreign source
  Text,          \* texts of memories
  Workspace,     \* workspaces
  ClaimSlot,     \* claim keys, each with a scope and an author
  Slot,          \* the one of them that an id writes for
  Sources,       \* what can be imported: [form, files]
  Bundles,       \* what an export directory may be found to hold
  Found,         \* what the memories of the stores may be found to be
  BatchSize,     \* records per transaction of an import, a restore, an assignment
  Retention,     \* receipt_retention
  Budget,        \* receipt_byte_budget
  Sizes,         \* sizes of receipts
  MaxJobs,       \* BOUND: how many jobs are started
  MaxCalls,      \* BOUND: how many calls agents make
  None

ASSUME TransferConstants ==
  /\ BatchSize \in Nat \ {0}
  /\ Retention \in Nat \ {0} /\ Budget \in Nat \ {0}
  /\ Sizes \subseteq Nat \ {0}
  /\ MaxJobs \in Nat /\ MaxCalls \in Nat

(* The id of an item of a foreign source is a hash of its key and text.    *)
ContentId(key, text) == <<key, text>>

Id == Name \cup {ContentId(k, t) : k \in Key, t \in Text}

ASSUME SlotAssumption == Slot \in [Id -> ClaimSlot]

Global == "user-global"
Scopes == Workspace \cup {Global, None}

Memory == [text : Text, scope : Scopes, held : BOOLEAN]

(* A row of recall_receipts: its place in the order of when recalls began  *)
(* and, of two at one time, of their receipts' ids; how large it is, and   *)
(* what receipt_bytes says of that.                                        *)
Receipt == [at : Int, size : Nat, bytes : Nat]

(* An entry: the record it is about, the slot it is filed under now, and   *)
(* whether it waits for its verdict, has admitted its record or left it    *)
(* aside.                                                                  *)
Entry == [record : Id, slot : ClaimSlot, state : {"open", "admitted", "aside"}]

OpenEntry(i) == [record |-> i, slot |-> Slot[i], state |-> "open"]

Verdicts == {"admit", "split", "set-aside", "admit-superseding"}

(* An export directory: its files, None while they are not written, so it  *)
(* is empty while it is Blank, and the manifest that seals them.  It is    *)
(* intact while every file has the hash, length and count the manifest     *)
(* states and its format and schema are known to this program.             *)
Blank == [records |-> None, receipts |-> None, entries |-> None,
          sealed |-> FALSE, intact |-> TRUE, clean |-> TRUE]

Jobs == {"export", "restore", "import", "assign"}

(* What an import brings to which store, as its caller says it.            *)
Imports == [store : Store, source : Sources, scope : Scopes]

ASSUME NoneIsNothing == None \notin Jobs \cup {Global} /\ None \notin Imports

VARIABLES
  memories,   \* the memories of a store, by id
  receipts,   \* its recall receipts
  entries,    \* its contest entries
  bundle,     \* the export directory
  job,        \* what the job of a kind is at, None when there is none
  recalls,    \* recalls that have begun and not left their receipt
  clock,      \* recalls begun so far
  started,    \* jobs started
  calls,      \* calls made
  \* history the properties read
  disturbed,  \* kinds of job whose store somebody else has written to meanwhile
  torn,       \* stores a restore has begun to fill and not finished
  lost,       \* <<store, id>>: held memories an import has overwritten
  lastImport  \* the store, source and scope of an import nothing was written since

stores == <<memories, receipts, entries>>
bounds == <<started, calls>>
ghosts == <<disturbed, torn, lost, lastImport>>
vars   == <<stores, bundle, job, recalls, clock, bounds, ghosts>>

Stored(s) == DOMAIN memories[s]

Init ==
  /\ memories \in Found
  /\ receipts = [s \in Store |-> {}]
  /\ entries = [s \in Store |-> {}]
  /\ bundle \in Bundles
  /\ job = [k \in Jobs |-> None]
  /\ recalls = {}
  /\ clock = 0
  /\ started = 0
  /\ calls = 0
  /\ disturbed = {}
  /\ torn = {}
  /\ lost = {}
  /\ lastImport = None

Ids(batch) == {b.id : b \in Range(batch)}

(* One record is inserted, or put in the place of the one with its id.     *)
Put(f, i, memory) == [j \in DOMAIN f \cup {i} |-> IF j = i THEN memory ELSE f[j]]

(* store_many: the records of a batch, in order, so the last with an id    *)
(* stands; an imported record is admitted, whatever it replaces.           *)
PutAll(f, batch) ==
  [i \in DOMAIN f \cup Ids(batch) |->
     IF i \in Ids(batch)
     THEN LET b == batch[Max({n \in DOMAIN batch : batch[n].id = i})]
          IN [text |-> b.text, scope |-> b.scope, held |-> FALSE]
     ELSE f[i]]

(* contested_drift_report: a record that is admitted though an entry of it *)
(* is open, or held aside without an entry of its own or one filed under   *)
(* its slot.                                                               *)
Drift(records, ledger) ==
  {i \in DOMAIN records :
     \/ ~records[i].held /\ \E e \in ledger : e.record = i /\ e.state = "open"
     \/ records[i].held /\ \A e \in ledger : e.record # i /\ e.slot # Slot[i]}

(* A record held aside for a slot that an entry was opened in, which a     *)
(* split has filed elsewhere.                                              *)
EntryMoved(records, ledger, i) ==
  records[i].held /\ \E e \in ledger : Slot[e.record] = Slot[i] /\ e.slot # Slot[i]

(* Entries are of records that are there, one of each, an open one is where*)
(* its record was refused, and none says of a held one that it was admitted*)
Agree(records, ledger) ==
  \A e \in ledger :
    /\ e.record \in DOMAIN records
    /\ e.state = "open" => e.slot = Slot[e.record]
    /\ records[e.record].held => e.state # "admitted"
    /\ \A d \in ledger : d.record = e.record => d = e

IsBundle(b) ==
  /\ b = [records |-> b.records, receipts |-> b.receipts, entries |-> b.entries,
          sealed |-> b.sealed, intact |-> b.intact, clean |-> b.clean]
  /\ b.receipts \in {None} \cup SUBSET Receipt
  /\ b.entries \in {None} \cup SUBSET Entry
  /\ {b.sealed, b.intact, b.clean} \subseteq BOOLEAN
  /\ b.sealed => None \notin {b.receipts, b.entries}

(* Receipts no two of which have one place.                                *)
Apart(rows) == IsFiniteSet(rows) /\ \A p, q \in rows : p.at = q.at => p = q

Items(source) == UNION {Range(f) : f \in Range(source.files)}

(* A source is files of items, and an item is its texts, one after another.*)
ASSUME SourcesAssumption ==
  \A source \in Sources :
    /\ source.form \in {"legacy", "notes", "claude-mem"}
    /\ source.files \in Seq(Seq(Items(source)))
    /\ \A item \in Items(source) : item.parts \in Seq(Text)

(* A store that is found has no ledger yet, so nothing in it is held aside;*)
(* a bundle that is found was left by an export, finished or not, before   *)
(* any recall that is yet to begin.                                        *)
ASSUME FoundAssumption ==
  /\ \A m \in Found :
       /\ m = [s \in Store |-> m[s]]
       /\ \A s \in Store :
            /\ m[s] \in [DOMAIN m[s] -> Memory]
            /\ \A i \in DOMAIN m[s] : ~m[s][i].held
  /\ \A b \in Bundles :
       /\ IsBundle(b)
       /\ b.sealed => /\ b.records \in [DOMAIN b.records -> Memory]
                      /\ Agree(b.records, b.entries)
                      /\ b.clean => Drift(b.records, b.entries) = {}
                      /\ Apart(b.receipts) /\ \A q \in b.receipts : q.at <= 0

-----------------------------------------------------------------------------
(* Whoever writes to a store disturbs the other jobs at work on it.        *)
Disturb(s, kind) ==
  disturbed' = disturbed \cup {k \in Jobs \ {kind} : job[k] # None /\ job[k].store = s}

Touches(s, kind) ==
  /\ Disturb(s, kind)
  /\ lastImport' = IF lastImport # None /\ lastImport.store = s THEN None ELSE lastImport

Call ==
  /\ calls < MaxCalls
  /\ calls' = calls + 1
  /\ UNCHANGED <<job, started, torn, lost>>

(* remember stores a new id.  One that is held aside gets an entry, unless *)
(* an open one of its slot counts it in.  That was read earlier: the entry *)
(* may have had its verdict since, or another one may have been opened.    *)
Remember(s, i, held, counted) ==
  /\ Call
  /\ i \notin Stored(s)
  /\ counted => held /\ \E e \in entries[s] : Slot[e.record] = Slot[i]
  /\ memories' = [memories EXCEPT ![s] =
       Put(@, i, [text |-> CHOOSE t \in Text : TRUE,
                  scope |-> CHOOSE w \in Workspace : TRUE, held |-> held])]
  /\ entries' = [entries EXCEPT ![s] =
       IF held /\ ~counted THEN @ \cup {OpenEntry(i)} ELSE @]
  /\ Touches(s, None)
  /\ UNCHANGED <<receipts, bundle, recalls, clock>>

(* resolve_contest closes an open entry: its record is admitted, or stays  *)
(* aside, also when a successor written for it (a Remember) has its slot.  *)
(* A split files record and entry under another claim key; that no admitted*)
(* memory has that key is asked for earlier and may be so of any.          *)
Resolve(s, e, verdict, slot) ==
  LET admits == verdict \in {"admit", "split"} IN
  /\ Call
  /\ e \in entries[s] /\ e.state = "open"
  /\ verdict # "split" => slot = e.slot
  /\ memories' = [memories EXCEPT ![s][e.record].held = @ /\ ~admits]
  /\ entries' = [entries EXCEPT ![s] =
       (@ \ {e}) \cup {[record |-> e.record, slot |-> slot,
                       state |-> IF admits THEN "admitted" ELSE "aside"]}]
  /\ Touches(s, None)
  /\ UNCHANGED <<receipts, bundle, recalls, clock>>

-----------------------------------------------------------------------------
(* The log of recall receipts.                                             *)

Newer(rows, r) == {q \in rows : q.at >= r.at}

(* Seeded fault: the newest receipt has to fit the budget like any other.  *)
KeptWithinBudget(rows, limit) ==
  {r \in rows : /\ Cardinality(Newer(rows, r)) <= limit
                /\ MapThenSumSet(LAMBDA q : q.bytes, Newer(rows, r)) <= Budget}

(* _enforce_receipt_retention: the newest receipts that fit both bounds.   *)
Kept(rows, limit) ==
  {r \in rows : LET newer == Newer(rows, r) IN
     /\ Cardinality(newer) <= limit
     /\ \/ MapThenSumSet(LAMBDA q : q.bytes, newer) <= Budget
        \/ Cardinality(newer) = 1}

(* A recall takes its time stamp when it begins ...                        *)
RecallBegin(s) ==
  /\ Call
  /\ clock' = clock + 1
  /\ recalls' = recalls \cup {[store |-> s, at |-> clock + 1]}
  /\ UNCHANGED <<stores, bundle, disturbed, lastImport>>

(* ... and leaves its receipt when it is done, which may be long after.    *)
SaveReceipt(r, size) ==
  /\ r \in recalls
  /\ recalls' = recalls \ {r}
  /\ receipts' = [receipts EXCEPT ![r.store] =
       Kept(@ \cup {[at |-> r.at, size |-> size, bytes |-> size]}, Retention)]
  /\ Disturb(r.store, None)
  /\ UNCHANGED <<memories, entries, bundle, job, clock, bounds, torn, lost, lastImport>>

(* prune_recall_receipts, which may be told to keep none.                  *)
Prune(s, retain) ==
  /\ Call
  /\ receipts[s] # {}
  /\ receipts' = [receipts EXCEPT ![s] = Kept(@, retain)]
  /\ Disturb(s, None)
  /\ UNCHANGED <<memories, entries, bundle, recalls, clock, lastImport>>

-----------------------------------------------------------------------------
MayStart(kind) == started < MaxJobs /\ job[kind] = None

Start(kind, state) ==
  /\ MayStart(kind)
  /\ started' = started + 1
  /\ job' = [job EXCEPT ![kind] = state]
  /\ disturbed' = disturbed \ {kind}
  /\ UNCHANGED <<stores, recalls, clock, calls, torn, lost>>

(* export_bundle: an empty directory is asked for before anything is read. *)
ExportBegin(s) ==
  /\ bundle = Blank
  /\ Start("export", [store |-> s, read |-> FALSE, receipts |-> {}, entries |-> {}])
  /\ UNCHANGED <<bundle, lastImport>>

(* The first read fixes the snapshot that the other files are written from.*)
ExportRecords ==
  LET e == job["export"] IN
  /\ e # None /\ ~e.read
  /\ bundle' = [records |-> memories[e.store], receipts |-> None, entries |-> None,
                 sealed |-> FALSE, intact |-> TRUE,
                 clean |-> Drift(memories[e.store], entries[e.store]) = {}]
  /\ job' = [job EXCEPT !["export"] =
       [store |-> e.store, read |-> TRUE,
        receipts |-> receipts[e.store], entries |-> entries[e.store]]]
  /\ UNCHANGED <<stores, recalls, clock, bounds, ghosts>>

ExportReceipts ==
  LET e == job["export"] IN
  /\ e # None /\ e.read /\ bundle.receipts = None
  /\ bundle' = [bundle EXCEPT !.receipts = e.receipts]
  /\ UNCHANGED <<stores, job, recalls, clock, bounds, ghosts>>

(* Seeded fault: the ledger is read when its file is written.              *)
ExportEntriesOfNow ==
  LET e == job["export"] IN
  /\ e # None /\ e.read /\ bundle.receipts # None /\ bundle.entries = None
  /\ bundle' = [bundle EXCEPT !.entries = entries[e.store]]
  /\ UNCHANGED <<stores, job, recalls, clock, bounds, ghosts>>

ExportEntries ==
  LET e == job["export"] IN
  /\ e # None /\ e.read /\ bundle.receipts # None /\ bundle.entries = None
  /\ bundle' = [bundle EXCEPT !.entries = e.entries]
  /\ UNCHANGED <<stores, job, recalls, clock, bounds, ghosts>>

(* The manifest is written last.                                           *)
ExportSeal ==
  LET e == job["export"] IN
  /\ e # None /\ e.read /\ bundle.entries # None
  /\ bundle' = [bundle EXCEPT !.sealed = TRUE]
  /\ job' = [job EXCEPT !["export"] = None]
  /\ UNCHANGED <<stores, recalls, clock, bounds, ghosts>>

(* A file of the bundle changes on the disk.                               *)
Damage ==
  /\ Call
  /\ bundle.sealed /\ bundle.intact /\ job["restore"] = None
  /\ bundle' = [bundle EXCEPT !.intact = FALSE]
  /\ UNCHANGED <<stores, recalls, clock, disturbed, lastImport>>

-----------------------------------------------------------------------------
(* What a bundle has to be before anything of it is restored.              *)
Valid(b) == b.sealed /\ b.intact

(* Seeded fault: only the receipts are asked for.                          *)
RestoreOverMemories(s) ==
  /\ Valid(bundle)
  /\ receipts[s] = {}
  /\ Start("restore", [store |-> s, rest |-> DOMAIN bundle.records])
  /\ UNCHANGED <<bundle, lastImport>>

(* restore_bundle: everything is validated and the store found empty before*)
(* anything is written.                                                    *)
RestoreBegin(s) ==
  /\ Valid(bundle)
  /\ Stored(s) = {} /\ receipts[s] = {}
  /\ Start("restore", [store |-> s, rest |-> DOMAIN bundle.records])
  /\ UNCHANGED <<bundle, lastImport>>

(* A full batch, or all the rest when there is less.                       *)
Batches(rest) ==
  {batch \in SUBSET rest : \/ Cardinality(batch) = BatchSize
                           \/ batch = rest /\ Cardinality(rest) < BatchSize}

(* store_many_new inserts a batch or, when one of its ids is taken, fails. *)
RestoreBatch(batch) ==
  LET r == job["restore"] IN
  /\ r.rest # {}
  /\ IF batch \cap Stored(r.store) # {}
     THEN /\ job' = [job EXCEPT !["restore"] = None]
          /\ UNCHANGED <<memories, torn, disturbed, lastImport>>
     ELSE /\ memories' = [memories EXCEPT ![r.store] =
               [i \in DOMAIN @ \cup batch |->
                  IF i \in batch THEN bundle.records[i] ELSE @[i]]]
          /\ job' = [job EXCEPT !["restore"].rest = @ \ batch]
          /\ torn' = torn \cup {r.store}
          /\ Touches(r.store, "restore")
  /\ UNCHANGED <<receipts, entries, bundle, recalls, clock, bounds, lost>>

(* Seeded fault: the ledger stays behind.                                  *)
RestoreReceiptsOnly ==
  LET r == job["restore"] IN
  /\ r # None /\ r.rest = {}
  /\ receipts' = [receipts EXCEPT ![r.store] =
       @ \cup {[q EXCEPT !.bytes = 0] : q \in bundle.receipts}]
  /\ job' = [job EXCEPT !["restore"] = None]
  /\ torn' = torn \ {r.store}
  /\ Disturb(r.store, "restore")
  /\ UNCHANGED <<memories, entries, bundle, recalls, clock, bounds, lost, lastImport>>

(* The receipts and the ledger follow in one transaction, the receipts     *)
(* without what receipt_bytes said of them.                                *)
RestoreRest ==
  LET r == job["restore"] IN
  /\ r # None /\ r.rest = {}
  /\ receipts' = [receipts EXCEPT ![r.store] =
       @ \cup {[q EXCEPT !.bytes = 0] : q \in bundle.receipts}]
  /\ entries' = [entries EXCEPT ![r.store] = @ \cup bundle.entries]
  /\ job' = [job EXCEPT !["restore"] = None]
  /\ torn' = torn \ {r.store}
  /\ Touches(r.store, "restore")
  /\ UNCHANGED <<memories, bundle, recalls, clock, bounds, lost>>

-----------------------------------------------------------------------------
(* An adapter leaves an item in the scope the caller chose, or else in the *)
(* workspace of the item's own project or vault.                           *)
Place(scope, item) == IF scope = None THEN item.home ELSE scope

(* A line of a legacy file is not readable when it is no record or has no  *)
(* id; a note, when it cannot be parsed.                                   *)
Readable(item) == item.key # None

(* The record of a line of a legacy file keeps the id the line brings.     *)
LegacyRecord(scope, item) ==
  << [id |-> item.key, text |-> item.parts[1], scope |-> scope] >>

(* A note is one record, or when it is long one for each of its chunks.    *)
NoteRecords(scope, item) ==
  [n \in DOMAIN item.parts |->
     [id |-> ContentId(IF Len(item.parts) = 1 THEN item.key ELSE Append(item.key, n),
                       item.parts[n]),
      text |-> item.parts[n], scope |-> Place(scope, item)]]

(* An observation or a summary of claude-mem is one record, its key made of*)
(* what it is, its project and its number there.                           *)
ObservationRecord(scope, item) ==
  << [id |-> ContentId(item.key, item.parts[1]),
      text |-> item.parts[1], scope |-> Place(scope, item)] >>

(* What is not readable gives no record.                                   *)
Records(source, scope, item) ==
  IF ~Readable(item) THEN <<>>
  ELSE CASE source.form = "legacy"     -> LegacyRecord(scope, item)
         [] source.form = "notes"      -> NoteRecords(scope, item)
         [] source.form = "claude-mem" -> ObservationRecord(scope, item)

AllRecords(source, scope, items) ==
  FlattenSeq([n \in DOMAIN items |-> Records(source, scope, items[n])])

(* Seeded fault: the first line that is not readable ends its file.        *)
FileBatchesToIssue(source, scope, file) ==
  LET good == {n \in DOMAIN file : \A k \in 1..n : Readable(file[k])}
  IN [n \in 1..Cardinality(good) |-> LegacyRecord(scope, file[n])]

(* The readable lines of a legacy file, in batches; the lines that are not *)
(* are counted as issues and left out.                                     *)
FileBatches(source, scope, file) ==
  LET all == AllRecords(source, scope, file)
      count == (Len(all) + BatchSize - 1) \div BatchSize
  IN [n \in 1..count |->
        SubSeq(all, (n - 1) * BatchSize + 1, Min({n * BatchSize, Len(all)}))]

LegacyBatches(source, scope) ==
  FlattenSeq([n \in DOMAIN source.files |-> FileBatches(source, scope, source.files[n])])

(* An adapter refuses a database of another schema than the one it knows,  *)
SchemaKnown(source) == source.form = "claude-mem" => source.known

(* and a vault with a note it cannot parse, before anything is proposed.   *)
NotesParse(source) ==
  source.form = "notes" => \A f \in Range(source.files) : \A item \in Range(f) : Readable(item)

(* What it proposes is read to the end first and stored as one batch.      *)
Preview(source, scope) ==
  LET all == AllRecords(source, scope, FlattenSeq(source.files))
  IN IF all = <<>> THEN <<>> ELSE << all >>

Todo(source, scope) ==
  IF source.form = "legacy" THEN LegacyBatches(source, scope) ELSE Preview(source, scope)

(* The scopes a caller may choose: the legacy importer knows only its own  *)
(* workspace, an adapter any scope or, with None, each project's own.      *)
MayChoose(source) == IF source.form = "legacy" THEN Workspace ELSE Workspace \cup {Global, None}

ImportBegin(s, source, scope) ==
  /\ MayStart("import")
  /\ scope \in MayChoose(source) /\ SchemaKnown(source) /\ NotesParse(source)
  /\ LET todo == Todo(source, scope) IN
     /\ todo # <<>>
     /\ Start("import",
          [store |-> s, source |-> source, scope |-> scope, todo |-> todo, existing |-> 0,
           ask |-> IF source.form = "legacy" THEN <<>> ELSE todo[1]])
  /\ UNCHANGED <<bundle, lastImport>>

(* An adapter run asks for its records, one by one, to tell the new ones.  *)
CountExisting ==
  LET m == job["import"] IN
  /\ m # None /\ m.ask # <<>>
  /\ job' = [job EXCEPT
       !["import"].ask = Tail(@),
       !["import"].existing = @ + IF Head(m.ask).id \in Stored(m.store) THEN 1 ELSE 0]
  /\ UNCHANGED <<stores, bundle, recalls, clock, bounds, ghosts>>

ThisImport(m) == [store |-> m.store, source |-> m.source, scope |-> m.scope]

ImportBatch ==
  LET m == job["import"]
      batch == Head(m.todo)
      last == Len(m.todo) = 1
  IN
  /\ m # None /\ m.ask = <<>>
  /\ memories' = [memories EXCEPT ![m.store] = PutAll(@, batch)]
  /\ job' = [job EXCEPT !["import"] = IF last THEN None ELSE [m EXCEPT !.todo = Tail(@)]]
  /\ Disturb(m.store, "import")
  /\ lost' = lost \cup {<<m.store, i>> :
                          i \in {j \in Ids(batch) \cap Stored(m.store) :
                                   memories[m.store][j].held}}
  /\ lastImport' = IF last /\ "import" \notin disturbed THEN ThisImport(m)
                   ELSE IF lastImport = ThisImport(m) THEN lastImport ELSE None
  /\ UNCHANGED <<receipts, entries, bundle, recalls, clock, bounds, torn>>

-----------------------------------------------------------------------------
(* Memories nobody owns.  Whatever UNSCOPED_SQL takes is of this one scope *)
(* here, an old record with a workspace and no author too: nothing else    *)
(* looks at what an unowned memory has of a scope.                         *)
Unscoped(s) == {i \in Stored(s) : memories[s][i].scope = None}

AssignBegin(s) ==
  /\ Unscoped(s) # {}
  /\ Start("assign", [store |-> s])
  /\ UNCHANGED <<bundle, lastImport>>

(* Seeded fault: one batch is taken for all.                               *)
AssignOnce(batch) ==
  LET a == job["assign"] IN
  /\ batch \in Batches(Unscoped(a.store))
  /\ memories' = [memories EXCEPT ![a.store] =
       [i \in DOMAIN @ |-> IF i \in batch THEN [@[i] EXCEPT !.scope = Global] ELSE @[i]]]
  /\ job' = [job EXCEPT !["assign"] = None]
  /\ Touches(a.store, "assign")
  /\ UNCHANGED <<receipts, entries, bundle, recalls, clock, bounds, torn, lost>>

(* assign_unscoped_user_global_batch: a batch of what is unscoped now, in  *)
(* one transaction; the batch that finds nothing ends the job.             *)
AssignBatch(batch) ==
  LET a == job["assign"] IN
  /\ batch \in Batches(Unscoped(a.store))
  /\ memories' = [memories EXCEPT ![a.store] =
       [i \in DOMAIN @ |-> IF i \in batch THEN [@[i] EXCEPT !.scope = Global] ELSE @[i]]]
  /\ job' = [job EXCEPT !["assign"] = IF batch = {} THEN None ELSE a]
  /\ IF batch = {} THEN UNCHANGED <<disturbed, lastImport>> ELSE Touches(a.store, "assign")
  /\ UNCHANGED <<receipts, entries, bundle, recalls, clock, bounds, torn, lost>>

(* A job dies between two of its transactions.                             *)
Die(kind) ==
  /\ job[kind] # None
  /\ job' = [job EXCEPT ![kind] = None]
  /\ UNCHANGED <<stores, bundle, recalls, clock, bounds, ghosts>>

-----------------------------------------------------------------------------
Agents ==
  \E s \in Store :
    \/ \E i \in Name, held, counted \in BOOLEAN : Remember(s, i, held, counted)
    \/ \E e \in entries[s], verdict \in Verdicts, slot \in ClaimSlot :
         Resolve(s, e, verdict, slot)
    \/ RecallBegin(s)
    \/ \E r \in recalls, size \in Sizes : r.store = s /\ SaveReceipt(r, size)
    \/ \E retain \in 0..Retention : Prune(s, retain)

Export == (\E s \in Store : ExportBegin(s)) \/ ExportRecords \/ ExportReceipts
            \/ ExportEntries \/ ExportSeal

Restore == \/ \E s \in Store : RestoreBegin(s)
           \/ /\ job["restore"] # None
              /\ \E batch \in Batches(job["restore"].rest) : RestoreBatch(batch)
           \/ RestoreRest

Import == \/ \E s \in Store, source \in Sources, scope \in Scopes :
               ImportBegin(s, source, scope)
          \/ CountExisting
          \/ ImportBatch

AssignNext ==
  /\ job["assign"] # None
  /\ \E batch \in Batches(Unscoped(job["assign"].store)) : AssignBatch(batch)

Assign == (\E s \in Store : AssignBegin(s)) \/ AssignNext

Next == Agents \/ Export \/ Restore \/ Import \/ Assign \/ Damage
          \/ \E kind \in Jobs : Die(kind)

Spec == Init /\ [][Next]_vars
-----------------------------------------------------------------------------
TypeOK ==
  /\ \A s \in Store : /\ Stored(s) \subseteq Id
                      /\ \A i \in Stored(s) : memories[s][i] \in Memory
                      /\ receipts[s] \subseteq Receipt
                      /\ entries[s] \subseteq Entry
  /\ IsBundle(bundle) /\ (bundle.sealed => DOMAIN bundle.records \subseteq Id)
  /\ \A r \in recalls : r.store \in Store /\ r.at \in 1..clock
  /\ started \in 0..MaxJobs /\ calls \in 0..MaxCalls
  /\ disturbed \subseteq Jobs /\ torn \subseteq Store /\ lost \subseteq Store \X Id

(* A sealed bundle shows its store at one moment: if the ledger agreed with*)
(* the memories there, it does so in the bundle, and no memory is held     *)
(* aside in one file and admitted in the other, whatever agents wrote while*)
(* the files were written one after the other.                             *)
BundleIsOneMoment ==
  bundle.sealed /\ bundle.clean =>
    /\ Drift(bundle.records, bundle.entries) = {}
    /\ \A e \in bundle.entries :
         /\ e.record \in DOMAIN bundle.records
         /\ bundle.records[e.record].held => e.state # "admitted"

(* A restore that nobody disturbed leaves exactly what the bundle holds:   *)
(* its memories with their scope and disposition, its ledger, its receipts.*)
RestoreIsExactWhenAlone ==
  [][\A s \in torn \ torn' : "restore" \notin disturbed =>
       /\ memories'[s] = bundle.records
       /\ entries'[s] = bundle.entries
       /\ {<<r.at, r.size>> : r \in receipts'[s]}
            = {<<r.at, r.size>> : r \in bundle.receipts}]_vars

(* When the drift report names a record, a restore has not finished there, *)
(* or an import has overwritten that record while it was held aside, or    *)
(* the bundle in use was taken of a store that drifted before, or it is    *)
(* held aside and a split has filed an entry of its slot elsewhere.  No    *)
(* other verdict, no late decision and no export makes a record drift.     *)
DriftHasACause ==
  \A s \in Store : \A i \in Drift(memories[s], entries[s]) :
    \/ s \in torn
    \/ <<s, i>> \in lost
    \/ ~bundle.clean
    \/ EntryMoved(memories[s], entries[s], i)

(* Whenever a recall has left its receipt, in whatever order recalls end:  *)
(* the log is not empty, within the count, within the byte budget unless   *)
(* one receipt is all there is, and what went is older than what stayed.   *)
RetentionKeepsNewestWithinBounds ==
  [][\A r \in recalls \ recalls' :
       LET before == receipts[r.store]
           after == receipts'[r.store]
       IN /\ Cardinality(after) \in 1..Retention
          /\ \/ MapThenSumSet(LAMBDA q : q.bytes, after) <= Budget
             \/ Cardinality(after) = 1
          /\ \A at \in {q.at : q \in before} \cup {r.at}, q \in after :
               at \notin {k.at : k \in after} => at < q.at]_vars

(* When an assignment of owners ends by itself, every memory of the store  *)
(* has an owner, also those that turned up while it was at work.           *)
AssignCoversEveryRecord ==
  [][AssignNext /\ job'["assign"] = None =>
       \A i \in DOMAIN memories'[job["assign"].store] :
         memories'[job["assign"].store][i].scope # None]_vars

(* What an import makes of all that is readable in its source.             *)
Made(source, scope) ==
  UNION {Range(Records(source, scope, item)) : item \in Items(source)}

(* When an import ends that nobody disturbed, every readable item of its   *)
(* source is in the store; and an import that is repeated before anybody   *)
(* else writes changes no text, scope or disposition and reports no record *)
(* as new.                                                                 *)
ImportIsRepeatable ==
  [][ImportBatch =>
       LET m == job["import"]
           records == memories'[m.store]
           made == Made(m.source, m.scope)
       IN /\ "import" \notin disturbed /\ Len(m.todo) = 1 =>
               \A i \in {b.id : b \in made} :
                 /\ i \in DOMAIN records
                 /\ [id |-> i, text |-> records[i].text, scope |-> records[i].scope] \in made
          /\ lastImport = ThisImport(m) /\ (\A b, c \in made : b.id = c.id => b = c)
               => /\ memories' = memories
                  /\ m.source.form # "legacy" /\ "import" \notin disturbed =>
                       m.existing = Len(Head(m.todo))]_vars

-----------------------------------------------------------------------------
(* Why all that holds.  The rows of memories are not fully typed, as       *)
(* nothing is asked here of what the sources of an import contain.         *)
AreRows(f) ==
  /\ f = [i \in DOMAIN f |-> [text |-> f[i].text, scope |-> f[i].scope, held |-> f[i].held]]
  /\ \A i \in DOMAIN f : f[i].held \in BOOLEAN

WorksOn(j) == j # None => "store" \in DOMAIN j /\ j.store \in Store

ShapesFit ==
  /\ memories = [s \in Store |-> memories[s]]
  /\ \A s \in Store : AreRows(memories[s])
  /\ receipts \in [Store -> SUBSET Receipt]
  /\ entries \in [Store -> SUBSET Entry]
  /\ IsBundle(bundle)
  /\ recalls \subseteq [store : Store, at : Nat] /\ clock \in Nat
  /\ job = [k \in Jobs |-> job[k]]
  /\ \A k \in Jobs : WorksOn(job[k])

(* An export writes into a directory that was empty, all of it as of the   *)
(* moment of its first read; a sealed bundle is left alone.                *)
ExportFits ==
  LET e == job["export"] IN
  e # None =>
    /\ e = [store |-> e.store, read |-> e.read, receipts |-> e.receipts, entries |-> e.entries]
    /\ ~e.read => bundle = Blank
    /\ e.read =>
         /\ AreRows(bundle.records) /\ ~bundle.sealed
         /\ e.receipts \in SUBSET Receipt /\ e.entries \in SUBSET Entry
         /\ bundle.entries \in {None, e.entries}
         /\ bundle.entries # None => bundle.receipts # None
         /\ Agree(bundle.records, e.entries)
         /\ bundle.clean => Drift(bundle.records, e.entries) = {}

BundleFits ==
  bundle.sealed =>
    /\ AreRows(bundle.records)
    /\ Agree(bundle.records, bundle.entries)
    /\ bundle.clean => Drift(bundle.records, bundle.entries) = {}

LedgerFits == \A s \in Store : Agree(memories[s], entries[s])

(* What a restore has put into its store is there as it was in the bundle, *)
(* or admitted since, and the ledger knows nothing of it yet.              *)
PutThere(r) ==
  /\ Valid(bundle)
  /\ r = [store |-> r.store, rest |-> r.rest]
  /\ r.rest \subseteq DOMAIN bundle.records
  /\ \A i \in DOMAIN bundle.records \ r.rest :
       /\ i \in Stored(r.store)
       /\ memories[r.store][i].held => bundle.records[i].held
       /\ bundle.records[i].held => memories[r.store][i].held \/ <<r.store, i>> \in lost
       /\ \A e \in entries[r.store] : e.record # i

NothingElse(r) ==
  /\ memories[r.store] = [i \in DOMAIN bundle.records \ r.rest |-> bundle.records[i]]
  /\ receipts[r.store] = {} /\ entries[r.store] = {}

RestoreFits ==
  job["restore"] # None =>
    /\ PutThere(job["restore"])
    /\ "restore" \notin disturbed => NothingElse(job["restore"])

(* A store that a restore is filling drifts in what the restore has put    *)
(* there, and in nothing else.                                             *)
TornBy(s, i) ==
  /\ s \in torn
  /\ job["restore"] # None /\ job["restore"].store = s =>
       i \in DOMAIN bundle.records \ job["restore"].rest

DriftFits ==
  \A s \in Store : \A i \in Drift(memories[s], entries[s]) :
    \/ <<s, i>> \in lost
    \/ ~bundle.clean
    \/ EntryMoved(memories[s], entries[s], i)
    \/ TornBy(s, i)

TransferInv ==
  ShapesFit /\ ExportFits /\ BundleFits /\ LedgerFits /\ RestoreFits /\ DriftFits

(* Receipts of recalls that are over.                                      *)
OfThePast(rows) ==
  /\ rows \subseteq Receipt /\ Apart(rows)
  /\ \A q \in rows : q.at <= clock /\ \A r \in recalls : r.at # q.at

(* Wherever receipts are kept each has a place of its own, and none has    *)
(* that of a recall which has still to leave its receipt; what a restore   *)
(* brings is not in its store yet.                                         *)
LogsFit ==
  /\ \A s \in Store : OfThePast(receipts[s])
  /\ \A p, q \in recalls : p.at = q.at => p = q
  /\ \A r \in recalls : r.at <= clock
  /\ bundle.sealed => OfThePast(bundle.receipts)
  /\ job["export"] # None =>
       /\ OfThePast(job["export"].receipts)
       /\ bundle.receipts \in {None, job["export"].receipts}
  /\ job["restore"] # None =>
       \A p \in receipts[job["restore"].store], q \in bundle.receipts : p.at # q.at

(* A record of made is in the store s, as it was made.                     *)
Landed(s, made, i) ==
  /\ i \in Stored(s) /\ ~memories[s][i].held
  /\ [id |-> i, text |-> memories[s][i].text, scope |-> memories[s][i].scope] \in made

(* What an undisturbed import has to store is in its store or still to do; *)
(* when it repeats the last one, each record it has asked for was there.   *)
ImportFits ==
  LET m == job["import"]
      made == Made(m.source, m.scope)
  IN
  m # None =>
    /\ m = [store |-> m.store, source |-> m.source, scope |-> m.scope,
            todo |-> m.todo, existing |-> m.existing, ask |-> m.ask]
    /\ ThisImport(m) \in Imports
    /\ m.todo \in Seq(Seq(made)) \ {<<>>} /\ m.ask \in Seq(made) /\ m.existing \in Nat
    /\ "import" \notin disturbed =>
         \A b \in made : \/ \E n \in DOMAIN m.todo : b \in Range(m.todo[n])
                        \/ Landed(m.store, made, b.id)
    /\ m.source.form # "legacy" => Len(m.todo) = 1
    /\ m.source.form # "legacy" /\ "import" \notin disturbed /\ lastImport = ThisImport(m) =>
         m.existing + Len(m.ask) = Len(m.todo[1])

LastImportFits ==
  lastImport # None =>
    LET made == Made(lastImport.source, lastImport.scope)
    IN  \A b \in made : Landed(lastImport.store, made, b.id)

ImportInv == ImportFits /\ LastImportFits
=============================================================================
