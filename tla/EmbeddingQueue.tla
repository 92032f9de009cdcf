--------------------------- MODULE EmbeddingQueue ---------------------------
(***************************************************************************)
(* The durable embedding queue: what storing a memory, the sweeps of any   *)
(* number of processes, and a backfill do to the memories,                 *)
(* embedding_pending and vector tables (sqlite.py, embedding_jobs.py,      *)
(* backfill.py).  One action is one repository transaction, or the         *)
(* provider's answer between two of them.                                  *)
(*                                                                         *)
(* Data is abstracted to revisions: of a memory and of a vector only       *)
(* updated_at is kept, of a queue row what decides who may claim, complete *)
(* or fail it.  One embedding profile: rows of two profiles never meet.    *)
(* attempts and last_error are written and never read by the queue.        *)
(***************************************************************************)
EXTENDS Integers, FiniteSets

CONSTANTS
  Rec,          \* record ids
  Imported,     \* the ones an importer writes, again and again, with no profile
  Stamp,        \* values of updated_at
  Worker,       \* processes and tasks that sweep the queue
  Token,        \* claim tokens, a fresh uuid4 for each claim
  BatchSize,    \* how many rows a sweep claims at once
  MaxImports,   \* how often importers write, in all
  MaxCrashes,   \* how many workers and backfills die, in all
  SlowWorkers,  \* whether a lease can run out under a worker that is alive
  None          \* SQL's NULL, and the absence of a row

ASSUME QueueAssumption ==
  /\ Imported \subseteq Rec
  /\ BatchSize \in Nat \ {0}
  /\ MaxImports \in Nat
  /\ MaxCrashes \in Nat
  /\ SlowWorkers \in BOOLEAN
  /\ None \notin Stamp \cup Token
  /\ None \notin [rec : Rec, stamp : Stamp]
  /\ None \notin [stamp : Stamp, token : Token \cup {None}, over : BOOLEAN]

VARIABLES
  memories,  \* Rec -> updated_at, or None when there is no such memory
  pending,   \* Rec -> queue row or None
  before,    \* the order of enqueued_at among the rows, as a relation
  vectors,   \* Rec -> record_updated_at of its vector, or None
  pc,        \* Worker -> where its sweep stands
  token,     \* Worker -> the token of its claim
  batch,     \* Worker -> the items it claimed
  embedded,  \* Worker -> the items the provider returned a vector for
  first,     \* Worker -> the first item found current, before the transaction
  found,     \* what the backfill read and has not queued yet
  imports,   \* writes by importers so far
  crashes    \* deaths so far

tables  == <<memories, pending, before, vectors>>
workers == <<pc, token, batch, embedded, first>>
vars    == <<tables, workers, found, imports, crashes>>

Item == [rec : Rec, stamp : Stamp]

(* over: the lease of the claim has run out (claimed_at before the cutoff).*)
Row == {r \in [stamp : Stamp, token : Token \cup {None}, over : BOOLEAN] :
          r.token = None => ~ r.over}

FreshRow(u)    == [stamp |-> u, token |-> None, over |-> FALSE]
Leased(row, t) == [row EXCEPT !.token = t, !.over = FALSE]
Overdue(row)   == [row EXCEPT !.over = TRUE]

Steps == {"idle", "embed", "check", "complete", "missing", "fail"}

Stored  == {r \in Rec : memories[r] # None}
Queued  == {r \in Rec : pending[r] # None}
Current == {r \in Stored : vectors[r] = memories[r]}

Init ==
  /\ memories = [r \in Rec |-> None]
  /\ pending = [r \in Rec |-> None]
  /\ before = {}
  /\ vectors = [r \in Rec |-> None]
  /\ pc = [w \in Worker |-> "idle"]
  /\ token = [w \in Worker |-> None]
  /\ batch = [w \in Worker |-> {}]
  /\ embedded = [w \in Worker |-> {}]
  /\ first = [w \in Worker |-> None]
  /\ found = {}
  /\ imports = 0
  /\ crashes = 0

-----------------------------------------------------------------------------
(* Writing.                                                                *)

WithoutRows(order, S) == {p \in order : p[1] \notin S /\ p[2] \notin S}

(* _enqueue_record for a set of items: a new row, or the row reset when it *)
(* is of another revision; a row of this revision is left as it is.        *)
Enqueue(items) ==
  LET fresh == {i \in items : pending[i.rec] = None \/ pending[i.rec].stamp # i.stamp}
      S     == {i.rec : i \in fresh}
  IN /\ pending' = [r \in Rec |->
          IF r \in S THEN FreshRow((CHOOSE i \in fresh : i.rec = r).stamp)
          ELSE pending[r]]
     /\ before' = WithoutRows(before, S) \cup ((Queued \ S) \X S)

(* remember or supersede with a provider: the memory and its queue row in  *)
(* one transaction, never an update.                                       *)
Remember(r) ==
  /\ r \notin Imported
  /\ memories[r] = None
  /\ \E u \in Stamp : /\ memories' = [memories EXCEPT ![r] = u]
                      /\ Enqueue({[rec |-> r, stamp |-> u]})
  /\ UNCHANGED <<vectors, workers, found, imports, crashes>>

(* store_many: an upsert with no profile, with the source's own timestamp. *)
Import(r) ==
  /\ r \in Imported
  /\ imports < MaxImports
  /\ imports' = imports + 1
  /\ \E u \in Stamp \ {memories[r]} : memories' = [memories EXCEPT ![r] = u]
  /\ UNCHANGED <<pending, before, vectors, workers, found, crashes>>

-----------------------------------------------------------------------------
(* A sweep: claim, embed, complete, fail what is left.                     *)

(* Seeded fault: rows of a worker that died are not claimed again.         *)
ClaimableUnclaimed == {r \in Queued : pending[r].token = None}

Claimable == {r \in Queued : pending[r].token = None \/ pending[r].over}

InUse == {token[w] : w \in Worker} \cup {pending[r].token : r \in Queued}

(* The oldest claimable rows, at most a batch of them.                     *)
IsOldest(S) ==
  /\ S \subseteq Claimable
  /\ IF Cardinality(Claimable) <= BatchSize THEN S = Claimable
     ELSE Cardinality(S) = BatchSize
  /\ \A r \in S, q \in Claimable \ S : <<q, r>> \notin before

Goto(w, step) == pc' = [pc EXCEPT ![w] = step]

(* claim_pending_embeddings: lease the rows and read their memories.  The  *)
(* item carries the memory's revision, which is not always the row's.      *)
Claim(w) ==
  /\ pc[w] = "idle"
  /\ Claimable # {}
  /\ Token \ InUse # {}
  /\ \E S \in SUBSET Claimable : LET t == CHOOSE x \in Token : x \notin InUse IN
       /\ IsOldest(S)
       /\ pending' = [r \in Rec |->
            IF r \in S THEN Leased(pending[r], t)
            ELSE pending[r]]
       /\ token' = [token EXCEPT ![w] = t]
       /\ batch' = [batch EXCEPT ![w] = {[rec |-> r, stamp |-> memories[r]] : r \in S}]
  /\ Goto(w, "embed")
  /\ UNCHANGED <<memories, before, vectors, embedded, first, found, imports, crashes>>

(* The provider returns a vector for some of the items and None for others *)
(* ...                                                                     *)
Provide(w, S) ==
  /\ pc[w] = "embed"
  /\ embedded' = [embedded EXCEPT ![w] = S]
  /\ Goto(w, IF S = {} THEN "missing" ELSE "check")
  /\ UNCHANGED <<tables, token, batch, first, found, imports, crashes>>

ProvideAll(w)  == Provide(w, batch[w])
ProvideSome(w) == \E S \in SUBSET batch[w] \ {batch[w]} : Provide(w, S)

(* ... or raises, or returns the wrong number of vectors; or a repository  *)
(* call after it raises, whose transaction rolls back.                     *)
Raise(w) ==
  /\ pc[w] \in {"embed", "check", "complete"}
  /\ Goto(w, "fail")
  /\ UNCHANGED <<tables, token, batch, embedded, first, found, imports, crashes>>

UpToDate(i) == memories[i.rec] = i.stamp

(* complete_pending_embeddings reads a memory's revision before it writes, *)
(* and its connection opens a transaction only at the first write: the     *)
(* first item found current was read outside of it.  (Which of several is  *)
(* first in the list is left open.)                                        *)
Check(w) ==
  /\ pc[w] = "check"
  /\ \/ \E i \in embedded[w] : /\ UpToDate(i)
                               /\ first' = [first EXCEPT ![w] = i]
                               /\ Goto(w, "complete")
     \/ /\ \A i \in embedded[w] : ~ UpToDate(i)
        /\ Goto(w, "missing")
        /\ UNCHANGED first
  /\ UNCHANGED <<tables, token, batch, embedded, found, imports, crashes>>

(* The transaction: the item already checked, and the others found current *)
(* inside it, get their vectors; a row goes if it is of the item's         *)
(* revision and still under the worker's token.                            *)
Written(w) == {first[w]} \cup {i \in embedded[w] : UpToDate(i)}

VectorOf(items, r) == (CHOOSE i \in items : i.rec = r).stamp

(* Seeded fault: every row of the batch goes, with a vector or without.    *)
FinishedWholeBatch(w) ==
  {i.rec : i \in {j \in batch[w] : /\ pending[j.rec] # None
                                   /\ pending[j.rec].stamp = j.stamp
                                   /\ pending[j.rec].token = token[w]}}

Finished(w) ==
  {i.rec : i \in {j \in Written(w) : /\ pending[j.rec] # None
                                     /\ pending[j.rec].stamp = j.stamp
                                     /\ pending[j.rec].token = token[w]}}

Complete(w) ==
  /\ pc[w] = "complete"
  /\ LET recs == {i.rec : i \in Written(w)} IN
     vectors' = [r \in Rec |-> IF r \in recs THEN VectorOf(Written(w), r) ELSE vectors[r]]
  /\ pending' = [r \in Rec |-> IF r \in Finished(w) THEN None ELSE pending[r]]
  /\ before' = WithoutRows(before, Finished(w))
  /\ Goto(w, "missing")
  /\ UNCHANGED <<memories, token, batch, embedded, first, found, imports, crashes>>

(* Seeded fault: the claim token is cleared and claimed_at is not.         *)
ReleasedKeepingLease(w, items) ==
  [r \in Rec |->
     IF r \in Queued /\ pending[r].token = token[w] /\ r \in {i.rec : i \in items}
     THEN [pending[r] EXCEPT !.token = None] ELSE pending[r]]

(* Seeded fault: a row that failed is given up.                            *)
ReleasedDropping(w, items) ==
  [r \in Rec |->
     IF r \in Queued /\ pending[r].token = token[w] /\ r \in {i.rec : i \in items}
     THEN None ELSE pending[r]]

(* fail_pending_embeddings: rows still under the worker's token are given  *)
(* back.                                                                   *)
Released(w, items) ==
  [r \in Rec |->
     IF r \in Queued /\ pending[r].token = token[w] /\ r \in {i.rec : i \in items}
     THEN Leased(pending[r], None)
     ELSE pending[r]]

(* The sweep's call returns; a loop that goes on is a new call.            *)
Rest(w) ==
  /\ Goto(w, "idle")
  /\ token' = [token EXCEPT ![w] = None]
  /\ batch' = [batch EXCEPT ![w] = {}]
  /\ embedded' = [embedded EXCEPT ![w] = {}]
  /\ first' = [first EXCEPT ![w] = None]

FailMissing(w) ==
  /\ pc[w] = "missing"
  /\ pending' = Released(w, batch[w] \ embedded[w])
  /\ Rest(w)
  /\ UNCHANGED <<memories, before, vectors, found, imports, crashes>>

FailBatch(w) ==
  /\ pc[w] = "fail"
  /\ pending' = Released(w, batch[w])
  /\ Rest(w)
  /\ UNCHANGED <<memories, before, vectors, found, imports, crashes>>

(* The worker's process goes away, or its own failing call raises.         *)
Crash(w) ==
  /\ pc[w] # "idle"
  /\ crashes < MaxCrashes
  /\ crashes' = crashes + 1
  /\ Rest(w)
  /\ UNCHANGED <<tables, found, imports>>

(* lease_seconds pass after a claim.                                       *)
LeaseRunsOut(t) ==
  /\ SlowWorkers \/ \A w \in Worker : token[w] # t
  /\ \E r \in Queued : pending[r].token = t /\ ~ pending[r].over
  /\ pending' = [r \in Rec |->
       IF r \in Queued /\ pending[r].token = t THEN Overdue(pending[r])
       ELSE pending[r]]
  /\ UNCHANGED <<memories, before, vectors, workers, found, imports, crashes>>

-----------------------------------------------------------------------------
(* The backfill: read a page, then queue what of it has no current vector. *)

Scan ==
  /\ found = {}
  /\ \E page \in SUBSET Stored :
       /\ page \ Current # {}
       /\ found' = {[rec |-> r, stamp |-> memories[r]] : r \in page \ Current}
  /\ UNCHANGED <<tables, workers, imports, crashes>>

EnqueueFound ==
  /\ found # {}
  /\ Enqueue(found)
  /\ found' = {}
  /\ UNCHANGED <<memories, vectors, workers, imports, crashes>>

BackfillDies ==
  /\ found # {}
  /\ crashes < MaxCrashes
  /\ crashes' = crashes + 1
  /\ found' = {}
  /\ UNCHANGED <<tables, workers, imports>>

-----------------------------------------------------------------------------
WorkerStep(w) ==
  \/ Claim(w) \/ ProvideAll(w) \/ ProvideSome(w) \/ Raise(w)
  \/ Check(w) \/ Complete(w) \/ FailMissing(w) \/ FailBatch(w) \/ Crash(w)

Next ==
  \/ \E r \in Rec : Remember(r) \/ Import(r)
  \/ \E w \in Worker : WorkerStep(w)
  \/ \E t \in Token : LeaseRunsOut(t)
  \/ Scan \/ EnqueueFound \/ BackfillDies

(* The sweeps are scheduled again and again, time passes, and a provider   *)
(* or database that is asked forever answers in full in the end.  Nobody   *)
(* has to run a backfill, but one that has read a page queues it.          *)
Fairness ==
  /\ \A w \in Worker :
       /\ WF_vars(Claim(w) \/ FailMissing(w) \/ FailBatch(w))
       /\ SF_vars(ProvideAll(w))
       /\ SF_vars(Check(w))
       /\ SF_vars(Complete(w))
  /\ \A t \in Token : WF_vars(LeaseRunsOut(t))
  /\ WF_vars(EnqueueFound)

Spec == Init /\ [][Next]_vars

FairSpec == Spec /\ Fairness

-----------------------------------------------------------------------------
TypeOK ==
  /\ memories \in [Rec -> Stamp \cup {None}]
  /\ pending \in [Rec -> Row \cup {None}]
  /\ before \subseteq Rec \X Rec
  /\ vectors \in [Rec -> Stamp \cup {None}]
  /\ pc \in [Worker -> Steps]
  /\ token \in [Worker -> Token \cup {None}]
  /\ batch \in [Worker -> SUBSET Item]
  /\ embedded \in [Worker -> SUBSET Item]
  /\ first \in [Worker -> Item \cup {None}]
  /\ found \subseteq Item
  /\ imports \in 0 .. MaxImports
  /\ crashes \in 0 .. MaxCrashes

(* Whatever workers, leases, backfills and deaths do, a memory stored by   *)
(* remember has its vector or still has its row ("durable work remains     *)
(* queued").                                                               *)
WorkIsNeverLost ==
  \A r \in Stored \ Imported :
    r \in Current \/ (r \in Queued /\ pending[r].stamp = memories[r])

(* A row leaves the queue only in the step that leaves a vector of the     *)
(* row's revision: no lost lease, failure or missing vector drops work.    *)
RowsLeaveForTheirVector ==
  \A r \in Queued : pending'[r] = None => vectors'[r] = pending[r].stamp

RowsLeaveWithTheirVector == [][RowsLeaveForTheirVector]_vars

(* Every memory stored by remember gets its vector, through crashes, lost  *)
(* leases, partial answers and failures that come to an end.               *)
EveryMemoryIsEmbedded ==
  \A r \in Rec \ Imported : r \in Stored ~> r \in Current

-----------------------------------------------------------------------------
(* The inductive invariant of WorkIsNeverLost.  What a worker or backfill  *)
(* holds of a memory that no importer writes is the memory's one revision, *)
(* and a batch holds one item of each memory.                              *)
AsStored(items) ==
  \A i \in items : /\ i.rec \in Stored
                   /\ i.rec \notin Imported => i.stamp = memories[i.rec]

OneItemEach(items) == \A i, j \in items : i.rec = j.rec => i = j

BatchesAreSound ==
  \A w \in Worker :
    /\ AsStored(batch[w])
    /\ OneItemEach(batch[w])
    /\ embedded[w] \subseteq batch[w]
    /\ first[w] # None => first[w] \in embedded[w]
    /\ pc[w] = "complete" => first[w] # None
    /\ pc[w] \in {"idle", "embed"} => embedded[w] = {}

RowsAreAsStored ==
  \A r \in Queued : /\ r \in Stored
                    /\ r \notin Imported => pending[r].stamp = memories[r]

IInv ==
  /\ TypeOK
  /\ BatchesAreSound
  /\ AsStored(found)
  /\ RowsAreAsStored
  /\ WorkIsNeverLost
=============================================================================
