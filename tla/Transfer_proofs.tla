-------------------------- MODULE Transfer_proofs ---------------------------
(***************************************************************************)
(* Proofs about Transfer, for every set of stores, ids, sources and found  *)
(* bundles, and without its bounds.                                        *)
(***************************************************************************)
EXTENDS Transfer, FiniteSetTheorems, FunctionTheorems, SequenceTheorems,
        WellFoundedInduction, TLAPS

LEMMA TypedAreRows ==
  ASSUME NEW f, f \in [DOMAIN f -> Memory]
  PROVE  AreRows(f)
BY DEF AreRows, Memory

(* A set of rows is a function, every value of it with these three fields. *)
LEMMA RowsAre ==
  ASSUME NEW f
  PROVE  AreRows(f) <=>
           /\ f = [i \in DOMAIN f |-> f[i]]
           /\ \A i \in DOMAIN f :
                /\ f[i] = [text |-> f[i].text, scope |-> f[i].scope, held |-> f[i].held]
                /\ f[i].held \in BOOLEAN
<1>1. ASSUME AreRows(f), NEW i \in DOMAIN f
      PROVE  f[i] = [text |-> f[i].text, scope |-> f[i].scope, held |-> f[i].held]
  <2> DEFINE row(j) == [text |-> f[j].text, scope |-> f[j].scope, held |-> f[j].held]
  <2>1. f = [j \in DOMAIN f |-> row(j)]
    BY <1>1 DEF AreRows
  <2> HIDE DEF row
  <2>2. f[i] = row(i)
    BY <2>1
  <2> QED
    BY <2>2 DEF row
<1>2. AreRows(f) => f = [i \in DOMAIN f |-> f[i]]
  BY DEF AreRows
<1> QED
  BY <1>1, <1>2 DEF AreRows

LEMMA OpenEntries == \A i \in Name : OpenEntry(i) \in Entry
<1>1. \A i \in Name : i \in Id /\ Slot[i] \in ClaimSlot
  BY SlotAssumption DEF Id
<1> QED
  BY <1>1 DEF OpenEntry, Entry

(* What the drift of a store is, record by record.                         *)
LEMMA DriftIs ==
  ASSUME NEW f, NEW l, NEW i
  PROVE  i \in Drift(f, l) <=>
           /\ i \in DOMAIN f
           /\ \/ ~f[i].held /\ \E e \in l : e.record = i /\ e.state = "open"
              \/ f[i].held /\ \A e \in l : e.record # i /\ e.slot # Slot[i]
BY DEF Drift

LEMMA TransferInit == Init => TransferInv
<1> SUFFICES ASSUME Init
             PROVE  TransferInv
  OBVIOUS
<1>1. /\ memories = [s \in Store |-> memories[s]]
      /\ \A s \in Store : AreRows(memories[s]) /\ \A i \in Stored(s) : ~memories[s][i].held
  BY FoundAssumption, TypedAreRows DEF Init, Stored
<1>2. IsBundle(bundle)
  BY FoundAssumption DEF Init
<1>3. BundleFits
  BY FoundAssumption, TypedAreRows DEF Init, BundleFits
<1>4. \A s \in Store : entries[s] = {}
  BY DEF Init
<1>5. \A k \in Jobs : job[k] = None
  BY DEF Init
<1>6. ShapesFit
  BY <1>1, <1>2, <1>5 DEF Init, ShapesFit, WorksOn
<1>7. LedgerFits
  BY <1>4 DEF LedgerFits, Agree
<1>8. \A s \in Store : Drift(memories[s], entries[s]) = {}
  <2> SUFFICES ASSUME NEW s \in Store, NEW i \in Drift(memories[s], entries[s])
               PROVE  FALSE
    OBVIOUS
  <2>1. i \in Stored(s) /\ memories[s][i].held
    BY <1>4, DriftIs DEF Stored
  <2> QED
    BY <1>1, <2>1
<1> QED
  BY <1>3, <1>5, <1>6, <1>7, <1>8 DEF TransferInv, ExportFits, RestoreFits, DriftFits, Jobs

-----------------------------------------------------------------------------
(* Steps that leave memories, ledgers and the bundle alone: a restore at   *)
(* work goes on as it was, and is told when receipts of its store change.  *)
Onward ==
  /\ job' = [k \in Jobs |-> job'[k]]
  /\ \A k \in Jobs : WorksOn(job'[k])
  /\ job'["export"] \in {job["export"], None}
  /\ job'["restore"] \in {job["restore"], None}

LEMMA QuietFits ==
  ASSUME TransferInv, Onward,
         UNCHANGED <<memories, entries, bundle, torn, lost>>,
         receipts' \in [Store -> SUBSET Receipt],
         recalls' \subseteq [store : Store, at : Nat], clock' \in Nat,
         job'["restore"] # None /\ "restore" \notin disturbed' =>
           "restore" \notin disturbed
             /\ receipts'[job["restore"].store] = receipts[job["restore"].store]
  PROVE  TransferInv'
<1>1. ShapesFit'
  BY DEF TransferInv, ShapesFit, Onward
<1>2. ExportFits'
  BY DEF TransferInv, ExportFits, Onward
<1>3. BundleFits' /\ LedgerFits'
  BY DEF TransferInv, BundleFits, LedgerFits
<1>4. RestoreFits'
  <2> SUFFICES ASSUME job'["restore"] # None
               PROVE  RestoreFits'
    BY DEF RestoreFits
  <2>1. job'["restore"] = job["restore"] /\ RestoreFits
    BY DEF Onward, TransferInv
  <2>2. PutThere(job["restore"])'
    BY <2>1 DEF RestoreFits, PutThere, Stored
  <2>3. "restore" \notin disturbed' => NothingElse(job["restore"])'
    BY <2>1 DEF RestoreFits, NothingElse
  <2> QED
    BY <2>2, <2>3 DEF RestoreFits
<1>5. DriftFits'
  BY DEF TransferInv, DriftFits, TornBy, Onward
<1> QED
  BY <1>1, <1>2, <1>3, <1>4, <1>5 DEF TransferInv
-----------------------------------------------------------------------------
(* Steps by others than a restore that write memories f and a ledger l to  *)
(* a store.  No memory goes or comes to be held aside, entries are only    *)
(* added for memories that had one or that are new, and nothing drifts     *)
(* that did not, but what is noted as lost or had its entry moved.         *)
Writes(s, f, l) ==
  /\ memories' = [memories EXCEPT ![s] = f]
  /\ entries' = [entries EXCEPT ![s] = l]
  /\ AreRows(f) /\ l \subseteq Entry /\ Agree(f, l)
  /\ Stored(s) \subseteq DOMAIN f
  /\ \A i \in Stored(s) : f[i].held => memories[s][i].held
  /\ \A i \in Stored(s) : memories[s][i].held =>
       f[i].held \/ <<s, i>> \in lost' \/ \E e \in entries[s] : e.record = i
  /\ \A d \in l : d.record \in Stored(s) => \E e \in entries[s] : e.record = d.record
  /\ \A i \in Drift(f, l) :
       \/ i \in Drift(memories[s], entries[s]) /\ ~EntryMoved(memories[s], entries[s], i)
       \/ EntryMoved(f, l, i)
       \/ <<s, i>> \in lost'

LEMMA WriterFits ==
  ASSUME TransferInv, NEW s \in Store, NEW f, NEW l, Writes(s, f, l),
         UNCHANGED <<receipts, bundle, recalls, clock, torn>>, lost \subseteq lost',
         job' = [k \in Jobs |-> job'[k]],
         \A k \in Jobs : WorksOn(job'[k]),
         job'["export"] = job["export"], job'["restore"] = job["restore"],
         job["restore"] # None =>
           /\ job["restore"].store = s => "restore" \in disturbed'
           /\ "restore" \in disturbed => "restore" \in disturbed'
  PROVE  TransferInv'
<1>0. /\ ShapesFit /\ ExportFits /\ BundleFits /\ LedgerFits /\ RestoreFits /\ DriftFits
  BY DEF TransferInv
<1>1. /\ memories'[s] = f /\ entries'[s] = l
      /\ \A u \in Store \ {s} : memories'[u] = memories[u] /\ entries'[u] = entries[u]
  BY <1>0 DEF Writes, ShapesFit
<1>2. ShapesFit'
  <2>1. memories' = [u \in Store |-> memories'[u]]
    BY <1>0 DEF Writes, ShapesFit
  <2>2. \A u \in Store : AreRows(memories'[u])
    BY <1>0, <1>1 DEF Writes, ShapesFit
  <2>3. entries' \in [Store -> SUBSET Entry]
    BY <1>0 DEF Writes, ShapesFit
  <2> QED
    BY <1>0, <2>1, <2>2, <2>3 DEF ShapesFit
<1>3. ExportFits' /\ BundleFits'
  BY <1>0 DEF ExportFits, BundleFits
<1>4. LedgerFits'
  BY <1>0, <1>1 DEF LedgerFits, Writes
<1>5. RestoreFits'
  <2> SUFFICES ASSUME job["restore"] # None
               PROVE  RestoreFits'
    BY DEF RestoreFits
  <2> DEFINE r == job["restore"]
  <2>1. PutThere(r) /\ ("restore" \notin disturbed => NothingElse(r))
    BY <1>0 DEF RestoreFits
  <2>2. r.store \in Store
    BY <1>0 DEF ShapesFit, WorksOn, Jobs
  <2>3. CASE r.store # s
    <3>1. memories'[r.store] = memories[r.store] /\ entries'[r.store] = entries[r.store]
      BY <1>1, <2>2, <2>3
    <3>2. PutThere(r)'
      BY <2>1, <3>1 DEF PutThere, Stored
    <3>3. "restore" \notin disturbed' => NothingElse(r)'
      BY <2>1, <3>1 DEF NothingElse
    <3> QED
      BY <3>2, <3>3 DEF RestoreFits
  <2>4. CASE r.store = s
    <3>1. ASSUME NEW i \in DOMAIN bundle.records \ r.rest
          PROVE  /\ i \in DOMAIN f
                 /\ f[i].held => bundle.records[i].held
                 /\ bundle.records[i].held => f[i].held \/ <<s, i>> \in lost'
                 /\ \A e \in l : e.record # i
      BY <2>1, <2>4 DEF PutThere, Writes, Stored
    <3>2. PutThere(r)'
      BY <1>1, <2>1, <2>4, <3>1 DEF PutThere, Stored
    <3> QED
      BY <2>4, <3>2 DEF RestoreFits
  <2> QED
    BY <2>3, <2>4
<1>6. DriftFits'
  <2> SUFFICES ASSUME NEW u \in Store, NEW i \in Drift(memories'[u], entries'[u]),
                      <<u, i>> \notin lost', ~EntryMoved(memories'[u], entries'[u], i)
               PROVE  ~bundle.clean \/ TornBy(u, i)'
    BY DEF DriftFits
  <2>1. i \in Drift(memories[u], entries[u]) /\ ~EntryMoved(memories[u], entries[u], i)
    BY <1>1 DEF Writes
  <2> QED
    BY <1>0, <2>1 DEF DriftFits, TornBy
<1> QED
  BY <1>2, <1>3, <1>4, <1>5, <1>6 DEF TransferInv

(* What a writer means for a restore that is at work.                      *)
LEMMA RestoreIsTold ==
  ASSUME NEW s \in Store, NEW kind, kind # "restore", Disturb(s, kind)
  PROVE  job["restore"] # None =>
           /\ job["restore"].store = s => "restore" \in disturbed'
           /\ "restore" \in disturbed => "restore" \in disturbed'
BY DEF Disturb, Jobs
LEMMA RememberFits ==
  ASSUME TransferInv, NEW s \in Store, NEW i \in Name, NEW held \in BOOLEAN,
         NEW counted \in BOOLEAN, Remember(s, i, held, counted)
  PROVE  TransferInv'
<1> DEFINE m == [text |-> CHOOSE t \in Text : TRUE,
                 scope |-> CHOOSE w \in Workspace : TRUE, held |-> held]
           mine == OpenEntry(i)
           f == Put(memories[s], i, m)
           l == IF held /\ ~counted THEN entries[s] \cup {mine} ELSE entries[s]
<1>1. /\ i \notin Stored(s)
      /\ counted => held /\ \E e \in entries[s] : Slot[e.record] = Slot[i]
      /\ memories' = [memories EXCEPT ![s] = f] /\ entries' = [entries EXCEPT ![s] = l]
      /\ UNCHANGED <<receipts, bundle, recalls, clock, torn, lost, job>>
      /\ Disturb(s, None)
  BY DEF Remember, Call, Touches
<1>2. ShapesFit /\ AreRows(memories[s]) /\ Agree(memories[s], entries[s]) /\ entries[s] \subseteq Entry
  BY DEF TransferInv, ShapesFit, LedgerFits
<1>3. /\ DOMAIN f = Stored(s) \cup {i} /\ f[i] = m
      /\ \A j \in Stored(s) : f[j] = memories[s][j]
  BY <1>1 DEF Put, Stored
<1>4. AreRows(f)
  <2>1. f = [j \in DOMAIN f |-> f[j]]
    BY DEF Put
  <2> HIDE DEF f
  <2> QED
    BY <1>2, <1>3, <2>1, RowsAre DEF Stored
<1>5. /\ mine \in Entry /\ mine.record = i /\ mine.slot = Slot[i] /\ mine.state = "open"
  BY OpenEntries DEF OpenEntry
<1>6. \A e \in entries[s] : e.record \in Stored(s)
  BY <1>2 DEF Agree, Stored
<1> HIDE DEF mine
<1>7. /\ entries[s] \subseteq l /\ l \subseteq Entry
      /\ \A e \in l : e \in entries[s] \/ e = mine
      /\ held => counted \/ mine \in l
      /\ ~held => l = entries[s]
  BY <1>2, <1>5
<1> HIDE DEF f, l
<1>8. Agree(f, l)
  <2>1. ASSUME NEW e \in entries[s]
        PROVE  /\ e.record \in DOMAIN f /\ e.record # i
               /\ e.state = "open" => e.slot = Slot[e.record]
               /\ f[e.record].held => e.state # "admitted"
               /\ \A d \in entries[s] : d.record = e.record => d = e
    BY <1>1, <1>2, <1>3, <1>6 DEF Agree, Stored
  <2>2. i \in DOMAIN f
    BY <1>3
  <2> QED
    BY <1>5, <1>7, <2>1, <2>2 DEF Agree
<1>9. m.held = held
  OBVIOUS
<1> HIDE DEF m
<1>10. ASSUME NEW j \in Drift(f, l), ~EntryMoved(f, l, j)
       PROVE  j \in Drift(memories[s], entries[s]) /\ ~EntryMoved(memories[s], entries[s], j)
  <2>1. j # i
    <3>1. ~(held /\ \A e \in l : e.record # i /\ e.slot # Slot[i]) \/ j # i
      BY <1>1, <1>3, <1>5, <1>7, <1>9, <1>10 DEF EntryMoved
    <3>2. ~(~held /\ \E e \in l : e.record = i /\ e.state = "open")
      BY <1>1, <1>6, <1>7
    <3> QED
      BY <1>3, <1>9, <1>10, <3>1, <3>2, DriftIs
  <2>2. /\ j \in DOMAIN f
        /\ \/ ~f[j].held /\ \E e \in l : e.record = j /\ e.state = "open"
           \/ f[j].held /\ \A e \in l : e.record # j /\ e.slot # Slot[j]
    BY <1>10, DriftIs
  <2>3. j \in Stored(s) /\ f[j] = memories[s][j]
    BY <1>3, <2>1, <2>2
  <2>4. j \in Drift(memories[s], entries[s])
    BY <1>5, <1>7, <2>1, <2>2, <2>3, DriftIs DEF Stored
  <2>5. ~EntryMoved(memories[s], entries[s], j)
    BY <1>7, <1>10, <2>3 DEF EntryMoved
  <2> QED
    BY <2>4, <2>5
<1>11. \A d \in l : d.record \in Stored(s) => \E e \in entries[s] : e.record = d.record
  BY <1>1, <1>5, <1>7
<1>12. Writes(s, f, l)
  BY <1>1, <1>3, <1>4, <1>7, <1>8, <1>10, <1>11 DEF Writes
<1>13. job = [k \in Jobs |-> job[k]] /\ \A k \in Jobs : WorksOn(job[k])
  BY <1>2 DEF ShapesFit
<1> QED
  BY <1>1, <1>12, <1>13, NoneIsNothing, RestoreIsTold, WriterFits DEF Jobs

LEMMA ResolveFits ==
  ASSUME TransferInv, NEW s \in Store, NEW e \in entries[s], NEW verdict \in Verdicts,
         NEW slot \in ClaimSlot, Resolve(s, e, verdict, slot)
  PROVE  TransferInv'
<1> DEFINE i == e.record
           admits == verdict \in {"admit", "split"}
           d == [record |-> i, slot |-> slot, state |-> IF admits THEN "admitted" ELSE "aside"]
           f == [memories[s] EXCEPT ![i].held = @ /\ ~admits]
           l == (entries[s] \ {e}) \cup {d}
<1>1. /\ e.state = "open"
      /\ ~admits => slot = e.slot
      /\ memories' = [memories EXCEPT ![s] = f] /\ entries' = [entries EXCEPT ![s] = l]
      /\ UNCHANGED <<receipts, bundle, recalls, clock, torn, lost, job>>
      /\ Disturb(s, None)
  BY DEF Resolve, Call, Touches
<1>2. ShapesFit /\ AreRows(memories[s]) /\ Agree(memories[s], entries[s]) /\ entries[s] \subseteq Entry
  BY DEF TransferInv, ShapesFit, LedgerFits
<1>3. i \in Stored(s) /\ i \in Id /\ e.slot = Slot[i]
  BY <1>1, <1>2 DEF Agree, Stored, Entry
<1>4. /\ d \in Entry /\ d.record = i /\ d.slot = slot /\ d.state # "open"
      /\ d.state = "admitted" => admits
  BY <1>3 DEF Entry
<1>5. /\ \A c \in l : c \in entries[s] \/ c = d
      /\ d \in l /\ l \subseteq Entry
      /\ \A c \in entries[s] : c \in l \/ c = e
      /\ e \notin l
  BY <1>1, <1>2, <1>4
<1>6. /\ DOMAIN f = Stored(s) /\ f = [j \in DOMAIN f |-> f[j]]
      /\ \A j \in Stored(s) \ {i} : f[j] = memories[s][j]
      /\ f[i] = [memories[s][i] EXCEPT !.held = @ /\ ~admits]
  <2>1. memories[s] = [j \in Stored(s) |-> memories[s][j]]
    BY <1>2, RowsAre DEF Stored
  <2> QED
    BY <1>3, <2>1
<1> HIDE DEF d, f, l
<1>7. /\ f[i] = [text |-> f[i].text, scope |-> f[i].scope, held |-> f[i].held]
      /\ f[i].held = (memories[s][i].held /\ ~admits)
      /\ memories[s][i].held \in BOOLEAN
  <2>1. /\ memories[s][i] = [text |-> memories[s][i].text, scope |-> memories[s][i].scope,
                             held |-> memories[s][i].held]
        /\ memories[s][i].held \in BOOLEAN
    BY <1>2, <1>3, RowsAre DEF Stored
  <2> QED
    BY <1>6, <2>1
<1> HIDE DEF admits
<1>8. AreRows(f)
  <2>1. ASSUME NEW j \in DOMAIN f
        PROVE  /\ f[j] = [text |-> f[j].text, scope |-> f[j].scope, held |-> f[j].held]
               /\ f[j].held \in BOOLEAN
    <3>1. CASE j = i
      BY <1>7, <3>1
    <3>2. CASE j # i
      BY <1>2, <1>6, <3>2, RowsAre DEF Stored
    <3> QED
      BY <3>1, <3>2
  <2> QED
    BY <1>6, <2>1, RowsAre
<1>9. \A j \in Stored(s) : /\ f[j].held => memories[s][j].held
                           /\ memories[s][j].held => f[j].held \/ j = i
  BY <1>6, <1>7
<1>10. Agree(f, l)
  <2>1. ASSUME NEW c \in l
        PROVE  /\ c.record \in DOMAIN f
               /\ c.state = "open" => c.slot = Slot[c.record]
               /\ f[c.record].held => c.state # "admitted"
               /\ \A b \in l : b.record = c.record => b = c
    <3>0. \A b \in l : b.record = c.record => b = c
      BY <1>2, <1>4, <1>5 DEF Agree
    <3>1. CASE c = d
      BY <1>3, <1>4, <1>6, <1>7, <3>0, <3>1
    <3>2. CASE c \in entries[s]
      BY <1>2, <1>6, <1>9, <3>0, <3>2 DEF Agree, Stored
    <3> QED
      BY <1>5, <3>1, <3>2
  <2> QED
    BY <2>1 DEF Agree
<1>11. ASSUME NEW j \in Drift(f, l), ~EntryMoved(f, l, j)
       PROVE  j \in Drift(memories[s], entries[s]) /\ ~EntryMoved(memories[s], entries[s], j)
  <2>1. /\ j \in Stored(s)
        /\ \/ ~f[j].held /\ \E c \in l : c.record = j /\ c.state = "open"
           \/ f[j].held /\ \A c \in l : c.record # j /\ c.slot # Slot[j]
    BY <1>6, <1>11, DriftIs
  <2>2. CASE ~f[j].held /\ \E c \in l : c.record = j /\ c.state = "open"
    <3>1. PICK c \in l : c.record = j /\ c.state = "open"
      BY <2>2
    <3>2. c \in entries[s]
      BY <1>4, <1>5, <3>1
    <3>3. j # i /\ ~memories[s][j].held
      BY <1>2, <1>5, <1>6, <2>1, <2>2, <3>1, <3>2 DEF Agree
    <3> QED
      BY <2>1, <3>1, <3>2, <3>3, DriftIs DEF Stored, EntryMoved
  (* A held record that drifts has no entry of its slot: if that is news,   *)
  (* the entry that was closed had been of its slot and has been moved.     *)
  <2>3. CASE f[j].held /\ \A c \in l : c.record # j /\ c.slot # Slot[j]
    <3>1. j # i /\ memories[s][j].held
      BY <1>4, <1>5, <1>9, <2>1, <2>3
    <3>2. Slot[i] # Slot[j]
      BY <1>4, <1>5, <2>3, <1>11 DEF EntryMoved
    <3>3. \A c \in entries[s] : c.record # j /\ c.slot # Slot[j]
      BY <1>3, <1>5, <2>3, <3>1, <3>2
    <3>4. ~EntryMoved(memories[s], entries[s], j)
      BY <1>5, <1>11, <2>3, <3>2 DEF EntryMoved
    <3> QED
      BY <2>1, <3>1, <3>3, <3>4, DriftIs DEF Stored
  <2> QED
    BY <2>1, <2>2, <2>3
<1>12. \A c \in l : c.record \in Stored(s) => \E b \in entries[s] : b.record = c.record
  BY <1>4, <1>5
<1>13. Writes(s, f, l)
  BY <1>1, <1>5, <1>6, <1>8, <1>9, <1>10, <1>11, <1>12 DEF Writes
<1>14. job = [k \in Jobs |-> job[k]] /\ \A k \in Jobs : WorksOn(job[k])
  BY <1>2 DEF ShapesFit
<1> QED
  BY <1>1, <1>13, <1>14, NoneIsNothing, RestoreIsTold, WriterFits DEF Jobs

(* An import admits what it writes, new or not.                            *)
LEMMA ImportBatchFits ==
  ASSUME TransferInv, ImportBatch
  PROVE  TransferInv'
<1> DEFINE m == job["import"]
           s == m.store
           batch == Head(m.todo)
           f == PutAll(memories[s], batch)
           l == entries[s]
<1>1. /\ m # None
      /\ memories' = [memories EXCEPT ![s] = f]
      /\ \E x : job' = [job EXCEPT !["import"] = x] /\ (x = None \/ x = [m EXCEPT !.todo = Tail(@)])
      /\ lost' = lost \cup {<<s, i>> : i \in {j \in Ids(batch) \cap Stored(s) : memories[s][j].held}}
      /\ UNCHANGED <<receipts, entries, bundle, recalls, clock, torn>>
      /\ Disturb(s, "import")
  BY DEF ImportBatch
<1>2. ShapesFit /\ s \in Store
  BY <1>1 DEF TransferInv, ShapesFit, WorksOn, Jobs
<1>3. AreRows(memories[s]) /\ Agree(memories[s], l) /\ l \subseteq Entry
  BY <1>2 DEF TransferInv, ShapesFit, LedgerFits
<1>4. /\ f = [i \in DOMAIN f |-> f[i]] /\ DOMAIN f = Stored(s) \cup Ids(batch)
      /\ \A i \in DOMAIN f : i \notin Ids(batch) => i \in Stored(s) /\ f[i] = memories[s][i]
      /\ \A i \in Ids(batch) :
           /\ f[i] = [text |-> f[i].text, scope |-> f[i].scope, held |-> f[i].held]
           /\ f[i].held = FALSE
  BY DEF PutAll, Stored
<1> HIDE DEF f
<1>5. AreRows(f)
  BY <1>3, <1>4, RowsAre DEF Stored
<1>6. \A i \in Stored(s) : /\ f[i].held => memories[s][i].held
                           /\ memories[s][i].held => f[i].held \/ <<s, i>> \in lost'
  BY <1>1, <1>4
<1>7. Agree(f, l)
  BY <1>3, <1>4, <1>6 DEF Agree, Stored
<1>8. ASSUME NEW i \in Drift(f, l), <<s, i>> \notin lost'
      PROVE  /\ i \in Drift(memories[s], l)
             /\ EntryMoved(memories[s], l, i) => EntryMoved(f, l, i)
  <2>1. /\ i \in DOMAIN f
        /\ \/ ~f[i].held /\ \E e \in l : e.record = i /\ e.state = "open"
           \/ f[i].held /\ \A e \in l : e.record # i /\ e.slot # Slot[i]
    BY DriftIs
  <2>2. i \in Stored(s)
    BY <1>3, <1>4, <2>1 DEF Agree, Stored
  <2>3. f[i].held <=> memories[s][i].held
    BY <1>6, <1>8, <2>2
  <2> QED
    BY <2>1, <2>2, <2>3, DriftIs DEF Stored, EntryMoved
<1>9. /\ job' = [k \in Jobs |-> job'[k]]
      /\ \A k \in Jobs : WorksOn(job'[k])
      /\ job'["export"] = job["export"] /\ job'["restore"] = job["restore"]
  <2> PICK x : job' = [job EXCEPT !["import"] = x] /\ (x = None \/ x = [m EXCEPT !.todo = Tail(@)])
    BY <1>1
  <2>1. "store" \in DOMAIN m /\ m.store \in Store
    BY <1>1, <1>2 DEF ShapesFit, WorksOn, Jobs
  <2>2. WorksOn(x)
    BY <2>1 DEF WorksOn
  <2> QED
    BY <1>2, <2>2 DEF ShapesFit, Jobs
<1>10. Writes(s, f, l)
  BY <1>1, <1>3, <1>4, <1>5, <1>6, <1>7, <1>8, <1>2 DEF Writes, ShapesFit
<1>11. lost \subseteq lost'
  BY <1>1
<1> QED
  BY <1>1, <1>2, <1>9, <1>10, <1>11, RestoreIsTold, WriterFits
LEMMA AssignBatchFits ==
  ASSUME TransferInv, NEW batch, job["assign"] # None, AssignBatch(batch)
  PROVE  TransferInv'
<1> DEFINE a == job["assign"]
           s == a.store
           row(i) == IF i \in batch THEN [memories[s][i] EXCEPT !.scope = Global]
                     ELSE memories[s][i]
           f == [i \in Stored(s) |-> row(i)]
           l == entries[s]
<1>1. /\ memories' = [memories EXCEPT ![s] = f]
      /\ job' = [job EXCEPT !["assign"] = IF batch = {} THEN None ELSE a]
      /\ IF batch = {} THEN UNCHANGED <<disturbed, lastImport>> ELSE Disturb(s, "assign")
      /\ UNCHANGED <<receipts, entries, bundle, recalls, clock, torn, lost>>
  BY DEF AssignBatch, Touches, Stored
<1>2. ShapesFit /\ s \in Store
  BY DEF TransferInv, ShapesFit, WorksOn, Jobs
<1>3. AreRows(memories[s]) /\ Agree(memories[s], l) /\ l \subseteq Entry
  BY <1>2 DEF TransferInv, ShapesFit, LedgerFits
<1>4. ASSUME NEW i \in Stored(s)
      PROVE  /\ f[i] = [text |-> f[i].text, scope |-> f[i].scope, held |-> f[i].held]
             /\ f[i].held = memories[s][i].held
             /\ f[i].held \in BOOLEAN
  <2>1. /\ memories[s][i] = [text |-> memories[s][i].text, scope |-> memories[s][i].scope,
                             held |-> memories[s][i].held]
        /\ memories[s][i].held \in BOOLEAN
    BY <1>3, RowsAre DEF Stored
  <2>2. f[i] = row(i)
    OBVIOUS
  <2> HIDE DEF f
  <2> QED
    BY <2>1, <2>2
<1>5. DOMAIN f = Stored(s) /\ f = [i \in DOMAIN f |-> f[i]]
  OBVIOUS
<1>6. /\ job' = [k \in Jobs |-> job'[k]]
      /\ \A k \in Jobs : WorksOn(job'[k])
      /\ job'["export"] = job["export"] /\ job'["restore"] = job["restore"]
  BY <1>1, <1>2 DEF ShapesFit, WorksOn, Jobs
<1>7. CASE batch = {}
  <2>1. f = memories[s]
    <3>1. \A i \in Stored(s) : row(i) = memories[s][i]
      BY <1>7
    <3>2. memories[s] = [i \in Stored(s) |-> memories[s][i]]
      BY <1>3, RowsAre DEF Stored
    <3> HIDE DEF row
    <3> QED
      BY <3>1, <3>2
  <2> HIDE DEF f
  <2>2. memories' = memories
    BY <1>1, <1>2, <2>1 DEF ShapesFit
  <2> QED
    BY <1>1, <1>2, <1>6, <1>7, <2>2, QuietFits DEF Onward, ShapesFit
<1> HIDE DEF f
<1>8. CASE batch # {}
  <2>1. AreRows(f)
    BY <1>4, <1>5, RowsAre
  <2>2. Agree(f, l)
    BY <1>3, <1>4, <1>5 DEF Agree, Stored
  <2>3. ASSUME NEW i \in Drift(f, l)
        PROVE  /\ i \in Drift(memories[s], l)
               /\ EntryMoved(memories[s], l, i) => EntryMoved(f, l, i)
    <3>1. /\ i \in Stored(s)
          /\ \/ ~f[i].held /\ \E e \in l : e.record = i /\ e.state = "open"
             \/ f[i].held /\ \A e \in l : e.record # i /\ e.slot # Slot[i]
      BY <1>5, DriftIs
    <3>2. f[i].held = memories[s][i].held
      BY <1>4, <3>1
    <3>3. i \in DOMAIN memories[s]
      BY <3>1 DEF Stored
    <3> HIDE DEF l, row
    <3> QED
      BY <3>1, <3>2, <3>3, DriftIs DEF EntryMoved
  <2>4. Writes(s, f, l)
    BY <1>1, <1>2, <1>3, <1>4, <1>5, <2>1, <2>2, <2>3 DEF Writes, ShapesFit
  <2> QED
    BY <1>1, <1>2, <1>6, <1>8, <2>4, RestoreIsTold, WriterFits
<1> QED
  BY <1>7, <1>8

-----------------------------------------------------------------------------
(* Recalls and their receipts.                                             *)

LEMMA KeptAreOfThem ==
  ASSUME NEW rows, NEW limit
  PROVE  Kept(rows, limit) \subseteq rows
BY DEF Kept

LEMMA JobsGoOn == TransferInv /\ job' = job => Onward
BY DEF TransferInv, ShapesFit, Onward

LEMMA RecallBeginFits ==
  ASSUME TransferInv, NEW s \in Store, RecallBegin(s)
  PROVE  TransferInv'
<1>1. /\ clock' = clock + 1 /\ recalls' = recalls \cup {[store |-> s, at |-> clock + 1]}
      /\ UNCHANGED <<memories, receipts, entries, bundle, job, torn, lost, disturbed>>
  BY DEF RecallBegin, Call, stores
<1>2. ShapesFit
  BY DEF TransferInv
<1>3. clock' \in Nat /\ recalls' \subseteq [store : Store, at : Nat]
  BY <1>1, <1>2 DEF ShapesFit
<1> QED
  BY <1>1, <1>2, <1>3, JobsGoOn, QuietFits DEF ShapesFit

(* A receipt of a restore's own store is told to it.                       *)
LEMMA ReceiptsFit ==
  ASSUME TransferInv, NEW s \in Store, NEW rows \in SUBSET Receipt,
         receipts' = [receipts EXCEPT ![s] = rows], Disturb(s, None),
         UNCHANGED <<memories, entries, bundle, job, clock, torn, lost>>,
         recalls' \subseteq recalls
  PROVE  TransferInv'
<1>1. ShapesFit
  BY DEF TransferInv
<1>2. receipts' \in [Store -> SUBSET Receipt]
  BY <1>1 DEF ShapesFit
<1>3. recalls' \subseteq [store : Store, at : Nat] /\ clock' \in Nat
  BY <1>1 DEF ShapesFit
<1>4. job["restore"] # None => job["restore"].store \in Store
  BY <1>1 DEF ShapesFit, WorksOn, Jobs
<1>5. job["restore"] # None /\ "restore" \notin disturbed' =>
        "restore" \notin disturbed
          /\ receipts'[job["restore"].store] = receipts[job["restore"].store]
  BY <1>1, <1>4, NoneIsNothing, RestoreIsTold DEF ShapesFit, Jobs
<1> QED
  BY <1>2, <1>3, <1>5, JobsGoOn, QuietFits

LEMMA SaveReceiptFits ==
  ASSUME TransferInv, NEW r \in recalls, NEW size \in Sizes, SaveReceipt(r, size)
  PROVE  TransferInv'
<1> DEFINE rows == receipts[r.store] \cup {[at |-> r.at, size |-> size, bytes |-> size]}
<1>1. ShapesFit
  BY DEF TransferInv
<1>2. r.store \in Store /\ r.at \in Nat /\ receipts[r.store] \subseteq Receipt
  BY <1>1 DEF ShapesFit
<1>3. rows \subseteq Receipt
  BY <1>2, TransferConstants DEF Receipt
<1>4. Kept(rows, Retention) \in SUBSET Receipt
  BY <1>3, KeptAreOfThem
<1>5. /\ receipts' = [receipts EXCEPT ![r.store] = Kept(rows, Retention)]
      /\ Disturb(r.store, None) /\ recalls' \subseteq recalls
      /\ UNCHANGED <<memories, entries, bundle, job, clock, torn, lost>>
  BY DEF SaveReceipt
<1> HIDE DEF rows
<1> QED
  BY <1>2, <1>4, <1>5, ReceiptsFit

LEMMA PruneFits ==
  ASSUME TransferInv, NEW s \in Store, NEW retain, Prune(s, retain)
  PROVE  TransferInv'
<1>1. receipts[s] \in SUBSET Receipt
  BY DEF TransferInv, ShapesFit
<1>2. Kept(receipts[s], retain) \in SUBSET Receipt
  BY <1>1, KeptAreOfThem
<1>3. /\ receipts' = [receipts EXCEPT ![s] = Kept(receipts[s], retain)]
      /\ Disturb(s, None) /\ recalls' \subseteq recalls
      /\ UNCHANGED <<memories, entries, bundle, job, clock, torn, lost>>
  BY DEF Prune, Call
<1> QED
  BY <1>2, <1>3, ReceiptsFit
-----------------------------------------------------------------------------
(* Jobs that begin, end or die between two transactions.                   *)

LEMMA QuietJob ==
  ASSUME TransferInv, NEW kind \in Jobs \ {"export", "restore"}, NEW x,
         job' = [job EXCEPT ![kind] = x], WorksOn(x),
         UNCHANGED <<stores, bundle, recalls, clock, torn, lost>>,
         "restore" \in disturbed => "restore" \in disturbed'
  PROVE  TransferInv'
<1>1. ShapesFit
  BY DEF TransferInv
<1>2. Onward
  BY <1>1 DEF ShapesFit, Onward, WorksOn, Jobs
<1> QED
  BY <1>1, <1>2, QuietFits DEF ShapesFit, stores

LEMMA ImportBeginFits ==
  ASSUME TransferInv, NEW s \in Store, NEW source, NEW scope, ImportBegin(s, source, scope)
  PROVE  TransferInv'
<1> DEFINE todo == Todo(source, scope)
           x == [store |-> s, source |-> source, scope |-> scope, todo |-> todo,
                 existing |-> 0, ask |-> IF source.form = "legacy" THEN <<>> ELSE todo[1]]
<1>1. Start("import", x) /\ UNCHANGED bundle
  BY DEF ImportBegin
<1>2. WorksOn(x)
  BY DEF WorksOn
<1> HIDE DEF x
<1> QED
  BY <1>1, <1>2, QuietJob DEF Start, Jobs

LEMMA CountExistingFits ==
  ASSUME TransferInv, CountExisting
  PROVE  TransferInv'
<1> DEFINE m == job["import"]
<1>1. /\ m # None
      /\ UNCHANGED <<stores, bundle, recalls, clock, ghosts>>
      /\ \E n : job' = [job EXCEPT !["import"] = [m EXCEPT !.ask = Tail(@), !.existing = n]]
  BY DEF CountExisting
<1>2. WorksOn(m) /\ m # None
  BY <1>1 DEF TransferInv, ShapesFit, Jobs
<1> PICK n : job' = [job EXCEPT !["import"] = [m EXCEPT !.ask = Tail(@), !.existing = n]]
  BY <1>1
<1>3. WorksOn([m EXCEPT !.ask = Tail(@), !.existing = n])
  BY <1>2 DEF WorksOn
<1> QED
  BY <1>1, <1>3, QuietJob DEF ghosts, Jobs

LEMMA AssignBeginFits ==
  ASSUME TransferInv, NEW s \in Store, AssignBegin(s)
  PROVE  TransferInv'
<1>1. Start("assign", [store |-> s]) /\ UNCHANGED bundle
  BY DEF AssignBegin
<1>2. WorksOn([store |-> s])
  BY DEF WorksOn
<1> QED
  BY <1>1, <1>2, QuietJob DEF Start, Jobs

LEMMA DieFits ==
  ASSUME TransferInv, NEW kind \in Jobs, Die(kind)
  PROVE  TransferInv'
<1>1. job' = [job EXCEPT ![kind] = None] /\ UNCHANGED <<stores, bundle, recalls, clock, ghosts>>
  BY DEF Die
<1>2. ShapesFit
  BY DEF TransferInv
<1>3. Onward
  BY <1>1, <1>2 DEF ShapesFit, Onward, WorksOn, Jobs
<1> QED
  BY <1>1, <1>2, <1>3, QuietFits DEF ShapesFit, stores, ghosts

-----------------------------------------------------------------------------
(* An export.  No restore is at work meanwhile: it would have found the    *)
(* bundle sealed.                                                          *)
LEMMA ExportIsAlone ==
  ASSUME TransferInv, job["export"] # None
  PROVE  job["restore"] = None
BY DEF TransferInv, ExportFits, RestoreFits, PutThere, Valid, Blank

LEMMA ExportStepFits ==
  ASSUME TransferInv, job["restore"] = None,
         NEW x, job' = [job EXCEPT !["export"] = x], WorksOn(x),
         UNCHANGED <<stores, recalls, clock, torn, lost>>,
         IsBundle(bundle'), ~bundle.clean => ~bundle'.clean,
         x # None => ExportFits', BundleFits'
  PROVE  TransferInv'
<1>1. ShapesFit /\ LedgerFits /\ DriftFits
  BY DEF TransferInv
<1>2. job'["export"] = x /\ job'["restore"] = None
  BY <1>1 DEF ShapesFit, Jobs
<1>3. ShapesFit'
  BY <1>1 DEF ShapesFit, stores, IsBundle
<1>4. LedgerFits'
  BY <1>1 DEF LedgerFits, stores
<1>5. RestoreFits'
  BY <1>2 DEF RestoreFits
<1>6. DriftFits'
  BY <1>1, <1>2 DEF DriftFits, TornBy, stores
<1>7. ExportFits'
  BY <1>2 DEF ExportFits
<1> QED
  BY <1>3, <1>4, <1>5, <1>6, <1>7 DEF TransferInv
(* What becomes of a bundle that a step changes a field of.                *)
LEMMA BundleWith ==
  ASSUME NEW b, IsBundle(b), NEW y
  PROVE  /\ [b EXCEPT !.sealed = y] =
              [records |-> b.records, receipts |-> b.receipts, entries |-> b.entries,
               sealed |-> y, intact |-> b.intact, clean |-> b.clean]
         /\ [b EXCEPT !.intact = y] =
              [records |-> b.records, receipts |-> b.receipts, entries |-> b.entries,
               sealed |-> b.sealed, intact |-> y, clean |-> b.clean]
BY DEF IsBundle

LEMMA ExportBeginFits ==
  ASSUME TransferInv, NEW s \in Store, ExportBegin(s)
  PROVE  TransferInv'
<1> DEFINE x == [store |-> s, read |-> FALSE, receipts |-> {}, entries |-> {}]
<1>1. /\ bundle = Blank /\ bundle' = bundle
      /\ job' = [job EXCEPT !["export"] = x]
      /\ UNCHANGED <<stores, recalls, clock, torn, lost>>
  BY DEF ExportBegin, Start
<1>2. job["restore"] = None
  BY <1>1 DEF TransferInv, RestoreFits, PutThere, Valid, Blank
<1>3. ShapesFit /\ BundleFits
  BY DEF TransferInv
<1>4. WorksOn(x)
  BY DEF WorksOn
<1>5. job'["export"] = x
  BY <1>1, <1>3 DEF ShapesFit, Jobs
<1>6. ExportFits'
  <2>1. x.read = FALSE
    OBVIOUS
  <2>2. x = [store |-> x.store, read |-> x.read, receipts |-> x.receipts, entries |-> x.entries]
    OBVIOUS
  <2> HIDE DEF x
  <2> QED
    BY <1>1, <1>5, <2>1, <2>2 DEF ExportFits
<1>7. BundleFits' /\ IsBundle(bundle')
  BY <1>1, <1>3 DEF BundleFits, ShapesFit
<1> HIDE DEF x
<1> QED
  BY <1>1, <1>2, <1>4, <1>6, <1>7, ExportStepFits

LEMMA ExportRecordsFits ==
  ASSUME TransferInv, ExportRecords
  PROVE  TransferInv'
<1> DEFINE e == job["export"]
           s == e.store
           x == [store |-> s, read |-> TRUE, receipts |-> receipts[s], entries |-> entries[s]]
           b == [records |-> memories[s], receipts |-> None, entries |-> None, sealed |-> FALSE,
                 intact |-> TRUE, clean |-> Drift(memories[s], entries[s]) = {}]
<1>1. /\ e # None /\ ~e.read /\ bundle' = b
      /\ job' = [job EXCEPT !["export"] = x]
      /\ UNCHANGED <<stores, recalls, clock, torn, lost>>
  BY DEF ExportRecords, ghosts
<1>2. ShapesFit /\ ExportFits /\ LedgerFits /\ job["restore"] = None
  BY <1>1, ExportIsAlone DEF TransferInv
<1>3. /\ e = [store |-> e.store, read |-> e.read, receipts |-> e.receipts, entries |-> e.entries]
      /\ bundle = Blank
  BY <1>1, <1>2 DEF ExportFits
<1>4. s \in Store
  BY <1>1, <1>2 DEF ShapesFit, WorksOn, Jobs
<1>5. /\ x.read = TRUE /\ x.receipts = receipts[s] /\ x.entries = entries[s] /\ x.store = s
      /\ x = [store |-> x.store, read |-> x.read, receipts |-> x.receipts, entries |-> x.entries]
  OBVIOUS
<1>6. b = [records |-> b.records, receipts |-> b.receipts, entries |-> b.entries,
           sealed |-> b.sealed, intact |-> b.intact, clean |-> b.clean]
  OBVIOUS
<1>7. /\ b.records = memories[s] /\ b.receipts = None /\ b.entries = None
      /\ b.sealed = FALSE /\ b.intact = TRUE
      /\ b.clean = (Drift(memories[s], entries[s]) = {})
  OBVIOUS
<1> HIDE DEF b
<1>8. IsBundle(b) /\ ~b.sealed
  BY <1>6, <1>7 DEF IsBundle
<1>9. WorksOn(x)
  BY <1>4 DEF WorksOn
<1>10. job'["export"] = x
  BY <1>1, <1>2 DEF ShapesFit, Jobs
<1>11. /\ AreRows(memories[s]) /\ Agree(memories[s], entries[s])
       /\ receipts[s] \in SUBSET Receipt /\ entries[s] \in SUBSET Entry
  BY <1>2, <1>4 DEF ShapesFit, LedgerFits
<1>12. ExportFits'
  <2> HIDE DEF x
  <2>1. /\ AreRows(b.records) /\ ~b.sealed /\ b.entries = None
        /\ x.receipts \in SUBSET Receipt /\ x.entries \in SUBSET Entry
        /\ Agree(b.records, x.entries)
        /\ b.clean => Drift(b.records, x.entries) = {}
    BY <1>5, <1>7, <1>11
  <2> QED
    BY <1>1, <1>5, <1>10, <2>1 DEF ExportFits
<1>13. BundleFits'
  BY <1>1, <1>8 DEF BundleFits
<1>14. bundle.clean
  BY <1>3 DEF Blank
<1> HIDE DEF x
<1> QED
  BY <1>1, <1>2, <1>8, <1>9, <1>12, <1>13, <1>14, ExportStepFits

(* A further file is written of an export that has been read.              *)
LEMMA ExportFileFits ==
  ASSUME TransferInv, NEW b, job["export"] # None, job["export"].read,
         bundle' = b, IsBundle(b), ~b.sealed,
         b.records = bundle.records, b.clean = bundle.clean,
         b.entries \in {None, job["export"].entries},
         b.entries # None => b.receipts # None,
         UNCHANGED <<stores, job, recalls, clock, torn, lost>>
  PROVE  TransferInv'
<1> DEFINE e == job["export"]
<1>1. ShapesFit /\ ExportFits /\ job["restore"] = None
  BY ExportIsAlone DEF TransferInv
<1>2. WorksOn(e) /\ job' = [job EXCEPT !["export"] = e]
  BY <1>1 DEF ShapesFit, Jobs
<1>3. ExportFits' /\ BundleFits'
  BY <1>1 DEF ExportFits, BundleFits
<1> QED
  BY <1>1, <1>2, <1>3, ExportStepFits

LEMMA ExportReceiptsFits ==
  ASSUME TransferInv, ExportReceipts
  PROVE  TransferInv'
<1> DEFINE e == job["export"]
           b == [bundle EXCEPT !.receipts = e.receipts]
<1>1. /\ e # None /\ e.read /\ bundle.receipts = None /\ bundle' = b
      /\ UNCHANGED <<stores, job, recalls, clock, torn, lost>>
  BY DEF ExportReceipts, ghosts
<1>2. ShapesFit /\ ExportFits
  BY DEF TransferInv
<1>3. e.receipts \in SUBSET Receipt /\ ~bundle.sealed /\ bundle.entries = None
  BY <1>1, <1>2 DEF ExportFits
<1>4. IsBundle(bundle)
  BY <1>2 DEF ShapesFit
<1>5. b = [records |-> bundle.records, receipts |-> e.receipts, entries |-> bundle.entries,
           sealed |-> bundle.sealed, intact |-> bundle.intact, clean |-> bundle.clean]
  BY <1>4 DEF IsBundle
<1>6. IsBundle(b)
  BY <1>3, <1>4, <1>5 DEF IsBundle
<1>7. b.records = bundle.records /\ b.clean = bundle.clean /\ b.entries = None /\ ~b.sealed
  BY <1>3, <1>5
<1> HIDE DEF b
<1> QED
  BY <1>1, <1>6, <1>7, ExportFileFits

LEMMA ExportEntriesFits ==
  ASSUME TransferInv, ExportEntries
  PROVE  TransferInv'
<1> DEFINE e == job["export"]
           b == [bundle EXCEPT !.entries = e.entries]
<1>1. /\ e # None /\ e.read /\ bundle.receipts # None /\ bundle' = b
      /\ UNCHANGED <<stores, job, recalls, clock, torn, lost>>
  BY DEF ExportEntries, ghosts
<1>2. ShapesFit /\ ExportFits
  BY DEF TransferInv
<1>3. e.entries \in SUBSET Entry /\ ~bundle.sealed
  BY <1>1, <1>2 DEF ExportFits
<1>4. IsBundle(bundle)
  BY <1>2 DEF ShapesFit
<1>5. b = [records |-> bundle.records, receipts |-> bundle.receipts, entries |-> e.entries,
           sealed |-> bundle.sealed, intact |-> bundle.intact, clean |-> bundle.clean]
  BY <1>4 DEF IsBundle
<1>6. IsBundle(b)
  BY <1>3, <1>4, <1>5 DEF IsBundle
<1>7. /\ b.records = bundle.records /\ b.clean = bundle.clean /\ b.entries = e.entries
      /\ b.receipts = bundle.receipts /\ ~b.sealed
  BY <1>3, <1>5
<1> HIDE DEF b
<1> QED
  BY <1>1, <1>6, <1>7, ExportFileFits

LEMMA ExportSealFits ==
  ASSUME TransferInv, ExportSeal
  PROVE  TransferInv'
<1> DEFINE e == job["export"]
           b == [bundle EXCEPT !.sealed = TRUE]
<1>1. /\ e # None /\ e.read /\ bundle.entries # None /\ bundle' = b
      /\ job' = [job EXCEPT !["export"] = None]
      /\ UNCHANGED <<stores, recalls, clock, torn, lost>>
  BY DEF ExportSeal, ghosts
<1>2. ShapesFit /\ ExportFits /\ job["restore"] = None
  BY <1>1, ExportIsAlone DEF TransferInv
<1>3. /\ AreRows(bundle.records) /\ bundle.entries = e.entries /\ bundle.receipts # None
      /\ Agree(bundle.records, e.entries)
      /\ bundle.clean => Drift(bundle.records, e.entries) = {}
  BY <1>1, <1>2 DEF ExportFits
<1>4. IsBundle(bundle)
  BY <1>2 DEF ShapesFit
<1>5. b = [records |-> bundle.records, receipts |-> bundle.receipts, entries |-> bundle.entries,
           sealed |-> TRUE, intact |-> bundle.intact, clean |-> bundle.clean]
  BY <1>4, BundleWith
<1>6. IsBundle(b)
  BY <1>1, <1>3, <1>4, <1>5 DEF IsBundle
<1>7. b.records = bundle.records /\ b.clean = bundle.clean /\ b.entries = bundle.entries
  BY <1>5
<1> HIDE DEF b
<1>8. BundleFits'
  BY <1>1, <1>3, <1>7 DEF BundleFits
<1>9. WorksOn(None)
  BY DEF WorksOn
<1> QED
  BY <1>1, <1>2, <1>6, <1>7, <1>8, <1>9, ExportStepFits

(* A bundle that is damaged has been sealed and is not being restored.     *)
LEMMA DamageFits ==
  ASSUME TransferInv, Damage
  PROVE  TransferInv'
<1> DEFINE b == [bundle EXCEPT !.intact = FALSE]
<1>1. /\ bundle.sealed /\ bundle' = b /\ job["restore"] = None /\ job' = job
      /\ UNCHANGED <<stores, recalls, clock, torn, lost>>
  BY DEF Damage, Call
<1>2. ShapesFit /\ ExportFits /\ BundleFits
  BY DEF TransferInv
<1>3. job["export"] = None
  BY <1>1, <1>2 DEF ExportFits, Blank
<1>4. IsBundle(bundle)
  BY <1>2 DEF ShapesFit
<1>5. b = [records |-> bundle.records, receipts |-> bundle.receipts, entries |-> bundle.entries,
           sealed |-> bundle.sealed, intact |-> FALSE, clean |-> bundle.clean]
  BY <1>4, BundleWith
<1>6. IsBundle(b)
  BY <1>4, <1>5 DEF IsBundle
<1>7. b.records = bundle.records /\ b.clean = bundle.clean /\ b.entries = bundle.entries
  BY <1>5
<1> HIDE DEF b
<1>8. BundleFits'
  BY <1>1, <1>2, <1>7 DEF BundleFits
<1>9. WorksOn(None) /\ job' = [job EXCEPT !["export"] = None]
  BY <1>1, <1>2, <1>3 DEF WorksOn, ShapesFit
<1> QED
  BY <1>1, <1>6, <1>7, <1>8, <1>9, ExportStepFits
-----------------------------------------------------------------------------
(* A restore.                                                              *)

(* While the bundle is sealed no export is at work.                        *)
LEMMA SealedIsLeftAlone ==
  ASSUME TransferInv, bundle.sealed
  PROVE  job["export"] = None
BY DEF TransferInv, ExportFits, Blank

LEMMA RestoreBeginFits ==
  ASSUME TransferInv, NEW s \in Store, RestoreBegin(s)
  PROVE  TransferInv'
<1> DEFINE r == [store |-> s, rest |-> DOMAIN bundle.records]
<1>1. /\ Valid(bundle) /\ Stored(s) = {} /\ receipts[s] = {}
      /\ job' = [job EXCEPT !["restore"] = r] /\ job["restore"] = None
      /\ UNCHANGED <<memories, receipts, entries, bundle, recalls, clock, torn, lost>>
  BY DEF RestoreBegin, Start, MayStart, stores
<1>2. ShapesFit /\ BundleFits /\ LedgerFits /\ DriftFits
  BY DEF TransferInv
<1>3. entries[s] = {}
  BY <1>1, <1>2 DEF LedgerFits, Agree, Stored
<1>4. r.store = s /\ r.rest = DOMAIN bundle.records /\ r = [store |-> r.store, rest |-> r.rest]
  OBVIOUS
<1>5. WorksOn(r)
  BY DEF WorksOn
<1> HIDE DEF r
<1>6. /\ job'["restore"] = r /\ job'["export"] = None
  BY <1>1, <1>2, SealedIsLeftAlone DEF ShapesFit, Jobs, Valid
<1>7. ShapesFit'
  <2>1. job' = [k \in Jobs |-> job'[k]] /\ \A k \in Jobs : WorksOn(job'[k])
    BY <1>1, <1>2, <1>5 DEF ShapesFit
  <2> QED
    BY <1>1, <1>2, <2>1 DEF ShapesFit
<1>8. ExportFits' /\ BundleFits' /\ LedgerFits'
  BY <1>1, <1>2, <1>6 DEF ExportFits, BundleFits, LedgerFits
<1>9. RestoreFits'
  <2>1. PutThere(job["restore"])'
    BY <1>1, <1>4, <1>6 DEF PutThere
  <2>2. memories[s] = [i \in DOMAIN bundle.records \ r.rest |-> bundle.records[i]]
    <3>1. memories[s] = [i \in {} |-> memories[s][i]]
      BY <1>1, <1>2, RowsAre DEF ShapesFit, Stored
    <3>2. DOMAIN bundle.records \ r.rest = {}
      BY <1>4
    <3> QED
      BY <3>1, <3>2
  <2>3. NothingElse(job["restore"])'
    BY <1>1, <1>3, <1>4, <1>6, <2>2 DEF NothingElse
  <2> QED
    BY <2>1, <2>3 DEF RestoreFits
<1>10. DriftFits'
  <2> SUFFICES ASSUME NEW u \in Store, NEW i \in Drift(memories[u], entries[u]),
                      <<u, i>> \notin lost, bundle.clean,
                      ~EntryMoved(memories[u], entries[u], i)
               PROVE  TornBy(u, i)'
    BY <1>1 DEF DriftFits
  <2>1. u # s
    BY <1>1, DriftIs DEF Stored
  <2>2. u \in torn
    BY <1>2 DEF DriftFits, TornBy
  <2> QED
    BY <1>1, <1>4, <1>6, <2>1, <2>2 DEF TornBy
<1> QED
  BY <1>7, <1>8, <1>9, <1>10 DEF TransferInv

LEMMA RestoreBatchFits ==
  ASSUME TransferInv, job["restore"] # None,
         NEW batch \in SUBSET job["restore"].rest, RestoreBatch(batch)
  PROVE  TransferInv'
<1> DEFINE r == job["restore"]
           s == r.store
           x == [r EXCEPT !.rest = @ \ batch]
           f == [i \in Stored(s) \cup batch |->
                   IF i \in batch THEN bundle.records[i] ELSE memories[s][i]]
<1>1. ShapesFit /\ BundleFits /\ LedgerFits /\ RestoreFits /\ DriftFits
  BY DEF TransferInv
<1>2. s \in Store /\ PutThere(r) /\ ("restore" \notin disturbed => NothingElse(r))
  BY <1>1 DEF ShapesFit, WorksOn, RestoreFits, Jobs
<1>3. CASE batch \cap Stored(s) # {}
  <2>1. /\ job' = [job EXCEPT !["restore"] = None]
        /\ UNCHANGED <<memories, torn, receipts, entries, bundle, recalls, clock, lost>>
    BY <1>3 DEF RestoreBatch
  <2>2. Onward /\ job'["restore"] = None
    BY <1>1, <2>1 DEF ShapesFit, Onward, WorksOn, Jobs
  <2> QED
    BY <1>1, <2>1, <2>2, QuietFits DEF ShapesFit
<1>4. CASE batch \cap Stored(s) = {}
  <2>1. /\ memories' = [memories EXCEPT ![s] = f]
        /\ job' = [job EXCEPT !["restore"] = x]
        /\ torn' = torn \cup {s} /\ Disturb(s, "restore")
        /\ UNCHANGED <<receipts, entries, bundle, recalls, clock, lost>>
    BY <1>4 DEF RestoreBatch, Touches, Stored
  <2>2. x.store = s /\ x.rest = r.rest \ batch /\ x = [store |-> x.store, rest |-> x.rest]
    BY <1>2 DEF PutThere
  <2>3. job'["restore"] = x /\ job'["export"] = job["export"]
    BY <1>1, <2>1 DEF ShapesFit, Jobs
  <2>4. /\ DOMAIN f = Stored(s) \cup batch /\ f = [i \in DOMAIN f |-> f[i]]
        /\ \A i \in batch : f[i] = bundle.records[i]
        /\ \A i \in Stored(s) : i \notin batch /\ f[i] = memories[s][i]
    BY <1>4
  <2>5. batch \subseteq DOMAIN bundle.records
    BY <1>2 DEF PutThere
  <2> HIDE DEF f, x
  <2>6. AreRows(bundle.records) /\ AreRows(memories[s]) /\ Agree(memories[s], entries[s])
    BY <1>1, <1>2 DEF PutThere, Valid, BundleFits, ShapesFit, LedgerFits
  <2>7. AreRows(f)
    <3>1. ASSUME NEW i \in DOMAIN f
          PROVE  /\ f[i] = [text |-> f[i].text, scope |-> f[i].scope, held |-> f[i].held]
                 /\ f[i].held \in BOOLEAN
      <4>1. CASE i \in batch
        BY <2>4, <2>5, <2>6, <4>1, RowsAre
      <4>2. CASE i \in Stored(s)
        BY <2>4, <2>6, <4>2, RowsAre DEF Stored
      <4> QED
        BY <2>4, <4>1, <4>2
    <3> QED
      BY <2>4, <3>1, RowsAre
  <2>8. ShapesFit'
    <3>1. memories' = [u \in Store |-> memories'[u]] /\ \A u \in Store : AreRows(memories'[u])
      BY <1>1, <2>1, <2>7 DEF ShapesFit
    <3>2. WorksOn(x)
      BY <1>2, <2>2 DEF WorksOn
    <3>3. job' = [k \in Jobs |-> job'[k]] /\ \A k \in Jobs : WorksOn(job'[k])
      BY <1>1, <2>1, <3>2 DEF ShapesFit
    <3> QED
      BY <1>1, <2>1, <3>1, <3>3 DEF ShapesFit
  <2>9. ExportFits' /\ BundleFits'
    BY <1>1, <2>1, <2>3 DEF TransferInv, ExportFits, BundleFits
  <2>10. memories'[s] = f /\ \A u \in Store \ {s} : memories'[u] = memories[u]
    BY <1>1, <1>2, <2>1 DEF ShapesFit
  <2>11. LedgerFits'
    <3>1. Agree(f, entries[s])
      BY <2>4, <2>6 DEF Agree, Stored
    <3> QED
      BY <1>1, <2>1, <2>10, <3>1 DEF LedgerFits
  <2>12. RestoreFits'
    <3>1. ASSUME NEW i \in DOMAIN bundle.records \ x.rest
          PROVE  /\ i \in DOMAIN f
                 /\ f[i].held => bundle.records[i].held
                 /\ bundle.records[i].held => f[i].held \/ <<s, i>> \in lost
                 /\ \A e \in entries[s] : e.record # i
      <4>1. CASE i \in batch
        BY <1>4, <2>4, <2>6, <4>1 DEF Agree, Stored
      <4>2. CASE i \notin batch
        BY <1>2, <2>2, <2>4, <4>2 DEF PutThere
      <4> QED
        BY <4>1, <4>2
    <3>2. PutThere(job["restore"])'
      BY <1>2, <2>1, <2>2, <2>3, <2>10, <3>1 DEF PutThere, Stored
    <3>3. ASSUME "restore" \notin disturbed'
          PROVE  NothingElse(job["restore"])'
      <4>1. "restore" \notin disturbed
        BY <2>1, <3>3 DEF Disturb
      <4>2. NothingElse(r)
        BY <1>2, <4>1
      <4>3. /\ Stored(s) = DOMAIN bundle.records \ r.rest
            /\ \A i \in Stored(s) : memories[s][i] = bundle.records[i]
        BY <4>2 DEF NothingElse, Stored
      <4>4. DOMAIN f = DOMAIN bundle.records \ x.rest
        BY <1>2, <2>2, <2>4, <2>5, <4>3 DEF PutThere
      <4>5. \A i \in DOMAIN f : f[i] = bundle.records[i]
        BY <2>4, <4>3
      <4>6. f = [i \in DOMAIN bundle.records \ x.rest |-> bundle.records[i]]
        BY <2>4, <4>4, <4>5
      <4> QED
        BY <2>1, <2>2, <2>3, <2>10, <4>2, <4>6 DEF NothingElse
    <3> QED
      BY <3>2, <3>3 DEF RestoreFits
  <2>13. DriftFits'
    <3> SUFFICES ASSUME NEW u \in Store, NEW i \in Drift(memories'[u], entries[u]),
                        <<u, i>> \notin lost, bundle.clean,
                        ~EntryMoved(memories'[u], entries[u], i)
                 PROVE  TornBy(u, i)'
      BY <2>1 DEF DriftFits
    <3>1. CASE u # s
      <4>1. u \in torn
        BY <1>1, <2>10, <3>1 DEF DriftFits, TornBy
      <4> QED
        BY <2>1, <2>2, <2>3, <3>1, <4>1 DEF TornBy
    <3>2. CASE u = s
      <4>1. i \in DOMAIN bundle.records \ x.rest
        <5>1. CASE i \in batch
          BY <2>2, <2>5, <5>1
        <5>2. CASE i \notin batch
          <6>1. i \in Drift(memories[s], entries[s]) /\ ~EntryMoved(memories[s], entries[s], i)
            <7>1. /\ i \in DOMAIN f
                  /\ \/ ~f[i].held /\ \E e \in entries[s] : e.record = i /\ e.state = "open"
                     \/ f[i].held /\ \A e \in entries[s] : e.record # i /\ e.slot # Slot[i]
              BY <2>10, <3>2, DriftIs
            <7>2. i \in DOMAIN memories[s] /\ f[i] = memories[s][i]
              BY <2>4, <5>2, <7>1 DEF Stored
            <7>3. ~EntryMoved(f, entries[s], i)
              BY <2>10, <3>2
            <7> QED
              BY <7>1, <7>2, <7>3, DriftIs DEF EntryMoved
          <6>2. i \in DOMAIN bundle.records \ r.rest
            BY <1>1, <1>2, <3>2, <6>1 DEF DriftFits, TornBy
          <6> QED
            BY <2>2, <6>2
        <5> QED
          BY <5>1, <5>2
      <4> QED
        BY <2>1, <2>3, <3>2, <4>1 DEF TornBy
    <3> QED
      BY <3>1, <3>2
  <2> QED
    BY <2>8, <2>9, <2>11, <2>12, <2>13 DEF TransferInv
<1> QED
  BY <1>3, <1>4
(* When the ledger of the bundle arrives, whatever still lacked its entry  *)
(* has it: the bundle itself did not drift.                                *)
LEMMA RestoreRestFits ==
  ASSUME TransferInv, RestoreRest
  PROVE  TransferInv'
<1> DEFINE r == job["restore"]
           s == r.store
           l == entries[s] \cup bundle.entries
           rows == receipts[s] \cup {[q EXCEPT !.bytes = 0] : q \in bundle.receipts}
<1>1. /\ r # None /\ r.rest = {}
      /\ receipts' = [receipts EXCEPT ![s] = rows]
      /\ entries' = [entries EXCEPT ![s] = l]
      /\ job' = [job EXCEPT !["restore"] = None] /\ torn' = torn \ {s}
      /\ UNCHANGED <<memories, bundle, recalls, clock, lost>>
  BY DEF RestoreRest
<1>2. ShapesFit /\ BundleFits /\ LedgerFits /\ DriftFits
  BY DEF TransferInv
<1>3. s \in Store /\ PutThere(r)
  BY <1>1, <1>2 DEF TransferInv, ShapesFit, WorksOn, RestoreFits, Jobs
<1>4. /\ bundle.sealed /\ Agree(bundle.records, bundle.entries)
      /\ bundle.clean => Drift(bundle.records, bundle.entries) = {}
  BY <1>2, <1>3 DEF PutThere, Valid, BundleFits
<1>5. bundle.receipts \subseteq Receipt /\ bundle.entries \subseteq Entry
  BY <1>2, <1>4 DEF ShapesFit, IsBundle
<1>6. \A i \in DOMAIN bundle.records :
        /\ i \in Stored(s)
        /\ memories[s][i].held => bundle.records[i].held
        /\ bundle.records[i].held => memories[s][i].held \/ <<s, i>> \in lost
        /\ \A e \in entries[s] : e.record # i
  BY <1>1, <1>3 DEF PutThere
<1>7. job'["restore"] = None /\ job'["export"] = None
  BY <1>1, <1>2, <1>4, SealedIsLeftAlone DEF ShapesFit, Jobs
<1>8. ShapesFit'
  <2>1. \A q \in Receipt : [q EXCEPT !.bytes = 0] \in Receipt
    BY DEF Receipt
  <2>2. rows \in SUBSET Receipt
    BY <1>2, <1>3, <1>5, <2>1 DEF ShapesFit
  <2>3. l \in SUBSET Entry
    BY <1>2, <1>3, <1>5 DEF ShapesFit
  <2> HIDE DEF rows, l
  <2>4. receipts' \in [Store -> SUBSET Receipt] /\ entries' \in [Store -> SUBSET Entry]
    BY <1>1, <1>2, <2>2, <2>3 DEF ShapesFit
  <2>5. job' = [k \in Jobs |-> job'[k]] /\ \A k \in Jobs : WorksOn(job'[k])
    BY <1>1, <1>2 DEF ShapesFit, WorksOn
  <2> QED
    BY <1>1, <1>2, <2>4, <2>5 DEF ShapesFit
<1>9. ExportFits' /\ BundleFits' /\ RestoreFits'
  BY <1>1, <1>2, <1>7 DEF ExportFits, BundleFits, RestoreFits
<1> HIDE DEF rows
<1>10. entries'[s] = l /\ \A u \in Store \ {s} : entries'[u] = entries[u]
  BY <1>1, <1>2, <1>3 DEF ShapesFit
<1>11. LedgerFits'
  <2>1. Agree(memories[s], entries[s])
    BY <1>2, <1>3 DEF LedgerFits
  <2>2. Agree(memories[s], l)
    BY <1>4, <1>6, <2>1 DEF Agree, Stored
  <2> HIDE DEF l
  <2> QED
    BY <1>1, <1>2, <1>10, <2>2 DEF LedgerFits
<1>12. ASSUME NEW i \in Drift(memories[s], l), <<s, i>> \notin lost,
              ~EntryMoved(memories[s], l, i)
       PROVE  ~bundle.clean
  <2> SUFFICES ASSUME bundle.clean
               PROVE  FALSE
    OBVIOUS
  <2>1. i \notin Drift(bundle.records, bundle.entries)
    BY <1>4
  <2>2. i \in Drift(memories[s], entries[s]) => i \in DOMAIN bundle.records
    <3>1. ~EntryMoved(memories[s], entries[s], i)
      BY <1>12 DEF EntryMoved
    <3> QED
      BY <1>1, <1>2, <1>3, <1>12, <3>1 DEF DriftFits, TornBy
  <2>3. /\ i \in DOMAIN memories[s]
        /\ \/ ~memories[s][i].held /\ \E e \in l : e.record = i /\ e.state = "open"
           \/ memories[s][i].held /\ \A e \in l : e.record # i /\ e.slot # Slot[i]
    BY <1>12, DriftIs
  <2>4. ASSUME ~memories[s][i].held, NEW e \in bundle.entries, e.record = i, e.state = "open"
        PROVE  FALSE
    <3>1. i \in DOMAIN bundle.records
      BY <1>4, <2>4 DEF Agree
    <3>2. ~bundle.records[i].held
      BY <1>6, <1>12, <2>4, <3>1
    <3> QED
      BY <2>1, <2>4, <3>1, <3>2, DriftIs
  <2>5. ASSUME ~memories[s][i].held, NEW e \in entries[s], e.record = i, e.state = "open"
        PROVE  FALSE
    <3>1. i \in Drift(memories[s], entries[s])
      BY <2>3, <2>5, DriftIs
    <3> QED
      BY <1>6, <2>2, <2>5, <3>1
  <2>6. ASSUME memories[s][i].held, \A e \in l : e.record # i /\ e.slot # Slot[i]
        PROVE  FALSE
    <3>1. i \in Drift(memories[s], entries[s])
      BY <2>3, <2>6, DriftIs
    <3>2. i \in DOMAIN bundle.records /\ bundle.records[i].held
      BY <1>6, <2>2, <2>6, <3>1
    <3> QED
      BY <2>1, <2>6, <3>2, DriftIs
  <2> QED
    BY <2>3, <2>4, <2>5, <2>6
<1>13. DriftFits'
  <2> HIDE DEF l
  <2> SUFFICES ASSUME NEW u \in Store, NEW i \in Drift(memories[u], entries'[u]),
                      <<u, i>> \notin lost, bundle.clean,
                      ~EntryMoved(memories[u], entries'[u], i)
               PROVE  TornBy(u, i)'
    BY <1>1 DEF DriftFits
  <2>1. u # s
    BY <1>10, <1>12
  <2>2. u \in torn
    BY <1>2, <1>10, <2>1 DEF DriftFits, TornBy
  <2> QED
    BY <1>1, <1>7, <2>1, <2>2 DEF TornBy
<1> QED
  BY <1>8, <1>9, <1>11, <1>13 DEF TransferInv

-----------------------------------------------------------------------------
LEMMA StutterFits ==
  ASSUME TransferInv, UNCHANGED vars
  PROVE  TransferInv'
BY QuietFits, JobsGoOn DEF vars, stores, ghosts, TransferInv, ShapesFit

LEMMA TransferStep == TransferInv /\ [Next]_vars => TransferInv'
<1> SUFFICES ASSUME TransferInv, [Next]_vars
             PROVE  TransferInv'
  OBVIOUS
<1>1. CASE Agents
  <2> PICK s \in Store :
             \/ \E i \in Name, held, counted \in BOOLEAN : Remember(s, i, held, counted)
             \/ \E e \in entries[s], verdict \in Verdicts, slot \in ClaimSlot :
                  Resolve(s, e, verdict, slot)
             \/ RecallBegin(s)
             \/ \E r \in recalls, size \in Sizes : r.store = s /\ SaveReceipt(r, size)
             \/ \E retain \in 0..Retention : Prune(s, retain)
    BY <1>1 DEF Agents
  <2> QED
    BY RememberFits, ResolveFits, RecallBeginFits, SaveReceiptFits, PruneFits
<1>2. CASE Export
  BY <1>2, ExportBeginFits, ExportRecordsFits, ExportReceiptsFits, ExportEntriesFits,
     ExportSealFits DEF Export
<1>3. CASE Restore
  <2>1. CASE \E s \in Store : RestoreBegin(s)
    BY <2>1, RestoreBeginFits
  <2>2. CASE job["restore"] # None /\ \E batch \in Batches(job["restore"].rest) : RestoreBatch(batch)
    BY <2>2, RestoreBatchFits DEF Batches
  <2>3. CASE RestoreRest
    BY <2>3, RestoreRestFits
  <2> QED
    BY <1>3, <2>1, <2>2, <2>3 DEF Restore
<1>4. CASE Import
  BY <1>4, ImportBeginFits, CountExistingFits, ImportBatchFits DEF Import
<1>5. CASE Assign
  BY <1>5, AssignBeginFits, AssignBatchFits DEF Assign, AssignNext
<1>6. CASE Damage
  BY <1>6, DamageFits
<1>7. CASE \E kind \in Jobs : Die(kind)
  BY <1>7, DieFits
<1>8. CASE UNCHANGED vars
  BY <1>8, StutterFits
<1> QED
  BY <1>1, <1>2, <1>3, <1>4, <1>5, <1>6, <1>7, <1>8 DEF Next
(* Exports, restores, imports and assignments, whatever agents do between  *)
(* their transactions and wherever they die, keep memories and ledger in   *)
(* step as TransferInv says.                                               *)
THEOREM TransferInvariant == Spec => []TransferInv
BY TransferInit, TransferStep, PTL DEF Spec

(* A sealed bundle shows its store at one moment, however many writers came*)
(* in between the files that export_bundle writes one after the other.     *)
THEOREM BundlesAreOneMoment == Spec => []BundleIsOneMoment
<1>1. TransferInv => BundleIsOneMoment
  BY DEF TransferInv, BundleFits, Agree, BundleIsOneMoment
<1> QED
  BY <1>1, TransferInvariant, PTL

(* What contested_drift_report names is the work of a restore that has not *)
(* finished, of an import over a held memory, or of a split that moved the *)
(* entry it was counted into, or came with the bundle.                     *)
THEOREM DriftAlwaysHasACause == Spec => []DriftHasACause
<1>1. TransferInv => DriftHasACause
  BY DEF TransferInv, DriftFits, TornBy, DriftHasACause
<1> QED
  BY <1>1, TransferInvariant, PTL

(* Only the end of a restore takes a store from those that are torn.       *)
LEMMA OnlyRestRepairs ==
  ASSUME [Next]_vars, torn' # torn
  PROVE  RestoreRest \/ torn \subseteq torn'
<1>1. Agents => torn' = torn
  <2>1. ASSUME NEW s, NEW e, NEW verdict, NEW slot, Resolve(s, e, verdict, slot)
        PROVE  torn' = torn
    BY <2>1 DEF Resolve, Call
  <2>2. ASSUME NEW s, NEW i, NEW held, NEW counted, Remember(s, i, held, counted)
        PROVE  torn' = torn
    BY <2>2 DEF Remember, Call
  <2> QED
    BY <2>1, <2>2 DEF Agents, RecallBegin, SaveReceipt, Prune, Call
<1>2. Export => torn' = torn
  BY DEF Export, ExportBegin, ExportRecords, ExportReceipts, ExportEntries, ExportSeal, Start, ghosts
<1>3. Import => torn' = torn
  BY DEF Import, ImportBegin, CountExisting, ImportBatch, Start, ghosts
<1>4. Assign => torn' = torn
  BY DEF Assign, AssignNext, AssignBegin, AssignBatch, Start
<1>5. Damage => torn' = torn
  BY DEF Damage, Call
<1>6. (\E kind \in Jobs : Die(kind)) => torn' = torn
  BY DEF Die, ghosts
<1>7. ASSUME NEW s, RestoreBegin(s)
      PROVE  torn' = torn
  BY <1>7 DEF RestoreBegin, Start
<1>8. ASSUME NEW batch, RestoreBatch(batch)
      PROVE  torn \subseteq torn'
  BY <1>8 DEF RestoreBatch
<1>9. Restore => RestoreRest \/ torn \subseteq torn'
  BY <1>7, <1>8 DEF Restore
<1> QED
  BY <1>1, <1>2, <1>3, <1>4, <1>5, <1>6, <1>9 DEF Next, vars, ghosts

(* A restore_bundle that ends without anybody else having written to its   *)
(* store leaves there exactly the memories, the ledger and the receipts of *)
(* the bundle, whatever happened to other stores meanwhile.                *)
THEOREM RestoresAreExact == Spec => RestoreIsExactWhenAlone
<1> DEFINE Exact(s) ==
      /\ memories'[s] = bundle.records
      /\ entries'[s] = bundle.entries
      /\ {<<r.at, r.size>> : r \in receipts'[s]} = {<<r.at, r.size>> : r \in bundle.receipts}
<1>1. ASSUME TransferInv, [Next]_vars, NEW s \in torn \ torn', "restore" \notin disturbed
      PROVE  Exact(s)
  <2> DEFINE r == job["restore"]
             bare(q) == [q EXCEPT !.bytes = 0]
             rows == {bare(q) : q \in bundle.receipts}
  <2>1. RestoreRest
    BY <1>1, OnlyRestRepairs
  <2>2. /\ r # None /\ r.rest = {} /\ s = r.store
        /\ receipts' = [receipts EXCEPT ![s] = @ \cup rows]
        /\ entries' = [entries EXCEPT ![s] = @ \cup bundle.entries]
        /\ memories' = memories
    BY <1>1, <2>1 DEF RestoreRest
  <2>3. ShapesFit /\ BundleFits /\ PutThere(r) /\ NothingElse(r) /\ s \in Store
    BY <1>1, <2>2 DEF TransferInv, RestoreFits, ShapesFit, WorksOn, Jobs
  <2>4. memories'[s] = bundle.records
    <3>1. AreRows(bundle.records)
      BY <2>3 DEF BundleFits, PutThere, Valid
    <3>2. memories[s] = [i \in DOMAIN bundle.records |-> bundle.records[i]]
      BY <2>2, <2>3 DEF NothingElse
    <3> QED
      BY <2>2, <3>1, <3>2, RowsAre
  <2>5. entries'[s] = bundle.entries
    BY <2>2, <2>3 DEF ShapesFit, NothingElse
  <2>6. receipts'[s] = rows
    <3> HIDE DEF rows
    <3>1. receipts'[s] = receipts[s] \cup rows
      BY <2>2, <2>3 DEF ShapesFit
    <3> QED
      BY <2>2, <2>3, <3>1 DEF NothingElse
  <2>7. bundle.receipts \subseteq Receipt
    BY <2>3 DEF ShapesFit, IsBundle, PutThere, Valid
  <2>8. \A q \in bundle.receipts : bare(q).at = q.at /\ bare(q).size = q.size
    BY <2>7 DEF Receipt
  <2>9. {<<q.at, q.size>> : q \in rows} = {<<q.at, q.size>> : q \in bundle.receipts}
    <3> HIDE DEF bare
    <3> QED
      BY <2>8
  <2> HIDE DEF rows
  <2> QED
    BY <2>4, <2>5, <2>6, <2>9
<1>2. TransferInv /\ [Next]_vars =>
        [\A s \in torn \ torn' : "restore" \notin disturbed => Exact(s)]_vars
  BY <1>1
<1> QED
  BY <1>2, TransferInvariant, PTL DEF Spec, RestoreIsExactWhenAlone

(* assign_unscoped_user_global ends by itself only when no memory of the   *)
(* store lacks an owner, however many turned up while it was at work.      *)
THEOREM AssignmentsCover == Spec => AssignCoversEveryRecord
<1> DEFINE Covered == \A i \in DOMAIN memories'[job["assign"].store] :
                        memories'[job["assign"].store][i].scope # None
<1>1. ASSUME TransferInv, AssignNext, job'["assign"] = None
      PROVE  Covered
  <2> DEFINE s == job["assign"].store
  <2>1. job["assign"] # None
    BY <1>1 DEF AssignNext
  <2>2. PICK batch \in Batches(Unscoped(s)) : AssignBatch(batch)
    BY <1>1 DEF AssignNext
  <2>3. ShapesFit /\ s \in Store
    BY <1>1, <2>1 DEF TransferInv, ShapesFit, WorksOn, Jobs
  <2>4. batch = {}
    BY <1>1, <2>1, <2>2, <2>3 DEF AssignBatch, ShapesFit, Jobs
  <2>5. Cardinality({}) = 0
    BY FS_EmptySet
  <2>6. Unscoped(s) = {}
    BY <2>2, <2>4, <2>5, TransferConstants DEF Batches
  <2>7. memories'[s] = [i \in Stored(s) |-> memories[s][i]]
    BY <2>2, <2>3, <2>4 DEF AssignBatch, ShapesFit, Stored
  <2> QED
    BY <2>6, <2>7 DEF Unscoped
<1>2. TransferInv /\ [Next]_vars =>
        [AssignNext /\ job'["assign"] = None => Covered]_vars
  BY <1>1
<1> QED
  BY <1>2, TransferInvariant, PTL DEF Spec, AssignCoversEveryRecord

-----------------------------------------------------------------------------
(* The receipt log.                                                        *)

(* Induction without induction theorems: a set of numbers has a least one. *)
LEMMA LeastNumber ==
  ASSUME NEW T \in SUBSET Nat, T # {}
  PROVE  \E n \in T : \A m \in T : n <= m
<1>1. PICK n \in T : \A m \in T : ~ (<<m, n>> \in OpToRel(<, Nat))
  BY NatLessThanWellFounded, WFMin
<1>2. ASSUME NEW m \in T, ~ (n <= m) PROVE FALSE
  <2>1. <<m, n>> \in Nat \X Nat /\ m < n
    BY <1>2
  <2>2. <<m, n>> \in OpToRel(<, Nat)
    BY <2>1 DEF OpToRel
  <2> QED BY <2>2, <1>1
<1> QED
  BY <1>2

(* Induction over the parts of a finite set: what holds of a part when it  *)
(* holds of all smaller ones holds of every part.                          *)
LEMMA PartsByInduction ==
  ASSUME NEW X, IsFiniteSet(X), NEW P \in SUBSET (SUBSET X),
         \A t \in SUBSET X :
           (\A u \in SUBSET X : Cardinality(u) < Cardinality(t) => u \in P) => t \in P
  PROVE  P = SUBSET X
<1>1. \A t \in SUBSET X : Cardinality(t) \in Nat
  BY FS_Subset, FS_CardinalityType
<1> DEFINE T == {Cardinality(t) : t \in (SUBSET X) \ P}
<1> SUFFICES ASSUME P # SUBSET X PROVE FALSE
  OBVIOUS
<1>2. T \in SUBSET Nat /\ T # {}
  BY <1>1
<1>3. PICK n \in T : \A m \in T : n <= m
  <2> HIDE DEF T
  <2> QED
    BY <1>2, LeastNumber
<1>4. PICK t \in (SUBSET X) \ P : n = Cardinality(t)
  OBVIOUS
<1>5. ASSUME NEW u \in SUBSET X, Cardinality(u) < Cardinality(t), u \notin P PROVE FALSE
  <2>1. Cardinality(t) <= Cardinality(u)
    BY <1>3, <1>4, <1>5
  <2> QED
    BY <1>1, <1>5, <2>1
<1> QED
  BY <1>4, <1>5

Bytes(rows) == MapThenSumSet(LAMBDA q : q.bytes, rows)

OneOf(t) == CHOOSE x \in t : TRUE

(* h sums the bytes of every part of X, taking out one receipt of a part.  *)
SumsParts(h, X) ==
  h = [t \in SUBSET X |-> IF t = {} THEN 0 ELSE OneOf(t).bytes + h[t \ {OneOf(t)}]]

(* A sum over a set is the value at it of a function on its parts.         *)
LEMMA BytesOf ==
  ASSUME NEW X
  PROVE  Bytes(X) = (CHOOSE h : SumsParts(h, X))[X]
BY DEF Bytes, MapThenSumSet, MapThenFoldSet, SumsParts, OneOf

LEMMA SumIs ==
  ASSUME NEW X, NEW h, SumsParts(h, X)
  PROVE  \A t \in SUBSET X :
           h[t] = IF t = {} THEN 0 ELSE OneOf(t).bytes + h[t \ {OneOf(t)}]
<1> DEFINE sum(u) == IF u = {} THEN 0 ELSE OneOf(u).bytes + h[u \ {OneOf(u)}]
<1>1. h = [u \in SUBSET X |-> sum(u)]
  BY DEF SumsParts
<1> HIDE DEF sum
<1>2. \A t \in SUBSET X : h[t] = sum(t)
  BY <1>1
<1> QED
  BY <1>2 DEF sum

(* Two such sums agree on the parts they share.                            *)
LEMMA SumsAgree ==
  ASSUME NEW X, IsFiniteSet(X), NEW Y \in SUBSET X, NEW g, NEW h, SumsParts(g, X), SumsParts(h, Y)
  PROVE  \A t \in SUBSET Y : g[t] = h[t]
<1> DEFINE P == {t \in SUBSET Y : g[t] = h[t]}
<1>0. IsFiniteSet(Y)
  BY FS_Subset
<1>1. ASSUME NEW t \in SUBSET Y,
             \A u \in SUBSET Y : Cardinality(u) < Cardinality(t) => u \in P
      PROVE  t \in P
  <2>1. CASE t = {}
    BY <2>1, SumIs
  <2>2. CASE t # {}
    <3>1. OneOf(t) \in t
      BY <2>2 DEF OneOf
    <3>2. t \ {OneOf(t)} \in SUBSET Y /\ Cardinality(t \ {OneOf(t)}) < Cardinality(t)
      BY <1>0, <3>1, FS_Subset, FS_RemoveElement, FS_CardinalityType
    <3>3. g[t \ {OneOf(t)}] = h[t \ {OneOf(t)}]
      BY <1>1, <3>2
    <3>4. g[t] = OneOf(t).bytes + g[t \ {OneOf(t)}] /\ h[t] = OneOf(t).bytes + h[t \ {OneOf(t)}]
      BY <2>2, SumIs
    <3> QED
      BY <3>3, <3>4
  <2> QED
    BY <2>1, <2>2
<1>2. P = SUBSET Y
  <2>1. P \in SUBSET (SUBSET Y)
    OBVIOUS
  <2> HIDE DEF P
  <2> QED
    BY <1>0, <1>1, <2>1, PartsByInduction
<1> QED
  BY <1>2

(* The fold of MapThenSumSet is defined on every finite set.               *)
LEMMA SumsExist ==
  ASSUME NEW X, IsFiniteSet(X)
  PROVE  \E h : SumsParts(h, X)
<1> DEFINE P == {t \in SUBSET X : \E h : SumsParts(h, t)}
<1>1. ASSUME NEW t \in SUBSET X,
             \A u \in SUBSET X : Cardinality(u) < Cardinality(t) => u \in P
      PROVE  t \in P
  <2> DEFINE of(u) == CHOOSE h : SumsParts(h, u)
             rest == t \ {OneOf(t)}
             h == [u \in SUBSET t |-> IF u = {} THEN 0
                                      ELSE OneOf(u).bytes + of(u \ {OneOf(u)})[u \ {OneOf(u)}]]
  <2>1. ASSUME NEW u \in SUBSET t, u # {}
        PROVE  h[u \ {OneOf(u)}] = of(u \ {OneOf(u)})[u \ {OneOf(u)}]
    <3> DEFINE v == u \ {OneOf(u)}
    <3>1. v \in SUBSET X /\ v \in SUBSET t /\ IsFiniteSet(v)
      BY FS_Subset
    <3>2. Cardinality(v) < Cardinality(t)
      <4>1. OneOf(u) \in t /\ v \subseteq t \ {OneOf(u)}
        BY <2>1 DEF OneOf
      <4>2. IsFiniteSet(t) /\ IsFiniteSet(t \ {OneOf(u)})
        BY FS_Subset
      <4>3. Cardinality(v) <= Cardinality(t \ {OneOf(u)})
        BY <4>1, <4>2, FS_Subset
      <4>4. Cardinality(t \ {OneOf(u)}) = Cardinality(t) - 1
        BY <4>1, <4>2, FS_RemoveElement
      <4> QED
        BY <3>1, <4>2, <4>3, <4>4, FS_CardinalityType
    <3>3. SumsParts(of(v), v)
      <4>1. \E k : SumsParts(k, v)
        BY <1>1, <3>1, <3>2
      <4> QED
        BY <4>1
    <3> HIDE DEF of
    <3>4. CASE v = {}
      <4>1. of(v)[v] = 0
        BY <3>3, <3>4, SumIs
      <4>2. h[v] = 0
        BY <3>1, <3>4
      <4> QED
        BY <4>1, <4>2
    <3>5. CASE v # {}
      <4> DEFINE w == v \ {OneOf(v)}
      <4>1. OneOf(v) \in v
        BY <3>5 DEF OneOf
      <4>2. w \in SUBSET v /\ w \in SUBSET X /\ Cardinality(w) < Cardinality(t)
        <5>1. Cardinality(w) = Cardinality(v) - 1
          <6> HIDE DEF v
          <6> QED
            BY <3>1, <4>1, FS_RemoveElement
        <5>2. IsFiniteSet(t) /\ Cardinality(t) \in Nat /\ Cardinality(v) \in Nat
          BY <3>1, FS_Subset, FS_CardinalityType
        <5> QED
          BY <3>1, <3>2, <5>1, <5>2
      <4>3. SumsParts(of(w), w)
        <5>1. \E k : SumsParts(k, w)
          BY <1>1, <4>2
        <5> QED
          BY <5>1 DEF of
      <4>4. of(v)[w] = of(w)[w]
        BY <3>1, <3>3, <4>2, <4>3, SumsAgree
      <4>5. of(v)[v] = OneOf(v).bytes + of(v)[w]
        <5> HIDE DEF v
        <5>1. PICK g : g = of(v)
          OBVIOUS
        <5>2. SumsParts(g, v)
          BY <3>3, <5>1
        <5>3. \A s \in SUBSET v : g[s] = IF s = {} THEN 0 ELSE OneOf(s).bytes + g[s \ {OneOf(s)}]
          <6> HIDE DEF h, w
          <6> QED
            BY <5>2, SumIs
        <5>4. v \in SUBSET v /\ v # {}
          BY <3>5
        <5>5. g[v] = OneOf(v).bytes + g[v \ {OneOf(v)}]
          BY <5>3, <5>4
        <5> QED
          BY <5>1, <5>5 DEF w
      <4>6. h[v] = OneOf(v).bytes + of(w)[w]
        BY <3>1, <3>5
      <4> QED
        BY <4>4, <4>5, <4>6
    <3> QED
      BY <3>4, <3>5
  <2>2. SumsParts(h, t)
    <3> HIDE DEF of
    <3>1. \A u \in SUBSET t : h[u] = IF u = {} THEN 0 ELSE OneOf(u).bytes + h[u \ {OneOf(u)}]
      BY <2>1
    <3>2. h = [u \in SUBSET t |-> h[u]]
      OBVIOUS
    <3> HIDE DEF h
    <3>3. h = [u \in SUBSET t |-> IF u = {} THEN 0 ELSE OneOf(u).bytes + h[u \ {OneOf(u)}]]
      BY <3>1, <3>2
    <3> QED
      BY <3>3 DEF SumsParts
  <2> HIDE DEF h
  <2> QED
    BY <2>2
<1>2. P = SUBSET X
  <2>1. P \in SUBSET (SUBSET X)
    OBVIOUS
  <2> HIDE DEF P
  <2> QED
    BY <1>1, <2>1, PartsByInduction
<1>3. X \in P
  BY <1>2
<1> QED
  BY <1>3

(* So the bytes of a set are those of any one receipt and of the others.   *)
LEMMA BytesOneByOne ==
  ASSUME NEW X \in SUBSET Receipt, IsFiniteSet(X)
  PROVE  \A t \in SUBSET X :
           /\ Bytes(t) \in Nat
           /\ \A x \in t : Bytes(t) = x.bytes + Bytes(t \ {x})
<1>1. PICK h : SumsParts(h, X)
  BY SumsExist
<1>2. ASSUME NEW t \in SUBSET X PROVE Bytes(t) = h[t]
  <2>1. IsFiniteSet(t)
    BY FS_Subset
  <2>2. SumsParts(CHOOSE g : SumsParts(g, t), t)
    BY <2>1, SumsExist
  <2>3. h[t] = (CHOOSE g : SumsParts(g, t))[t]
    BY <1>1, <2>2, SumsAgree
  <2> QED
    BY <2>3, BytesOf
<1> DEFINE P == {t \in SUBSET X : /\ h[t] \in Nat
                                  /\ \A x \in t : h[t] = x.bytes + h[t \ {x}]}
<1>3. \A x \in X : x.bytes \in Nat
  BY DEF Receipt
<1> DEFINE sum(t) == IF t = {} THEN 0 ELSE OneOf(t).bytes + h[t \ {OneOf(t)}]
<1>9. \A t \in SUBSET X : h[t] = sum(t)
  BY <1>1, SumIs
<1>4. ASSUME NEW t \in SUBSET X,
             \A u \in SUBSET X : Cardinality(u) < Cardinality(t) => u \in P
      PROVE  t \in P
  <2>1. CASE t = {}
    <3>1. h[t] = 0
      BY <1>9, <2>1
    <3> QED
      BY <2>1, <3>1
  <2>2. CASE t # {}
    <3> DEFINE y == OneOf(t)
    <3>1. y \in t
      BY <2>2 DEF OneOf
    <3>2. h[t] = y.bytes + h[t \ {y}]
      BY <1>9, <2>2
    <3>3. \A x \in t : t \ {x} \in SUBSET X /\ Cardinality(t \ {x}) < Cardinality(t)
      BY FS_Subset, FS_RemoveElement, FS_CardinalityType
    <3>4. \A x \in t : t \ {x} \in P
      BY <1>4, <3>3
    <3>5. h[t] \in Nat
      BY <1>3, <3>1, <3>2, <3>4
    <3>6. ASSUME NEW x \in t, x # y PROVE h[t] = x.bytes + h[t \ {x}]
      <4>1. (t \ {x}) \ {y} = (t \ {y}) \ {x}
        OBVIOUS
      <4>2. h[t \ {x}] = y.bytes + h[(t \ {x}) \ {y}]
        BY <3>1, <3>4, <3>6
      <4>3. h[t \ {y}] = x.bytes + h[(t \ {x}) \ {y}]
        BY <3>1, <3>4, <3>6, <4>1
      <4>4. h[(t \ {x}) \ {y}] \in Nat
        <5>1. (t \ {x}) \ {y} \in SUBSET X /\ Cardinality((t \ {x}) \ {y}) < Cardinality(t)
          <6>1. IsFiniteSet(t) /\ IsFiniteSet(t \ {x}) /\ (t \ {x}) \ {y} \subseteq t \ {x}
            BY FS_Subset
          <6> QED
            BY <3>3, <6>1, FS_Subset, FS_CardinalityType
        <5> QED
          BY <1>4, <5>1
      <4>5. x.bytes \in Nat /\ y.bytes \in Nat
        BY <1>3, <3>1
      <4> HIDE DEF y
      <4> QED
        BY <3>2, <4>2, <4>3, <4>4, <4>5
    <3> QED
      BY <3>2, <3>5, <3>6
  <2> QED
    BY <2>1, <2>2
<1>5. P = SUBSET X
  <2>1. P \in SUBSET (SUBSET X)
    OBVIOUS
  <2> HIDE DEF P
  <2> QED
    BY <1>4, <2>1, PartsByInduction
<1>6. ASSUME NEW t \in SUBSET X, NEW x \in t PROVE Bytes(t \ {x}) = h[t \ {x}]
  BY <1>2
<1> QED
  BY <1>2, <1>5, <1>6

LEMMA FewerReceiptsFewerBytes ==
  ASSUME NEW X \in SUBSET Receipt, IsFiniteSet(X), NEW u \in SUBSET X
  PROVE  Bytes(u) \in Nat /\ Bytes(X) \in Nat /\ Bytes(u) <= Bytes(X)
<1> DEFINE P == {t \in SUBSET X : u \subseteq t => Bytes(u) <= Bytes(t)}
<1>1. \A t \in SUBSET X : Bytes(t) \in Nat
  BY BytesOneByOne
<1>2. ASSUME NEW t \in SUBSET X,
             \A v \in SUBSET X : Cardinality(v) < Cardinality(t) => v \in P
      PROVE  t \in P
  <2> SUFFICES ASSUME u \subseteq t, u # t PROVE Bytes(u) <= Bytes(t)
    BY <1>1
  <2>1. PICK x \in t : x \notin u
    OBVIOUS
  <2>2. t \ {x} \in SUBSET X /\ Cardinality(t \ {x}) < Cardinality(t)
    BY FS_Subset, FS_RemoveElement, FS_CardinalityType
  <2>3. Bytes(u) <= Bytes(t \ {x})
    BY <1>2, <2>1, <2>2
  <2>4. Bytes(t) = x.bytes + Bytes(t \ {x}) /\ x.bytes \in Nat
    BY BytesOneByOne DEF Receipt
  <2> QED
    BY <1>1, <2>2, <2>3, <2>4
<1>3. P = SUBSET X
  <2>1. P \in SUBSET (SUBSET X)
    OBVIOUS
  <2> HIDE DEF P
  <2> QED
    BY <1>2, <2>1, PartsByInduction
<1>4. X \in P
  BY <1>3
<1> QED
  BY <1>1, <1>4

(* A log that is not empty has an oldest and a newest receipt.             *)
LEMMA OldestAndNewest ==
  ASSUME NEW X \in SUBSET Receipt, IsFiniteSet(X), X # {}
  PROVE  /\ \E x \in X : \A y \in X : x.at <= y.at
         /\ \E x \in X : \A y \in X : y.at <= x.at
<1> DEFINE Ends(t) == /\ \E x \in t : \A y \in t : x.at <= y.at
                      /\ \E x \in t : \A y \in t : y.at <= x.at
           P == {t \in SUBSET X : t # {} => Ends(t)}
<1>1. \A x \in X : x.at \in Int
  BY DEF Receipt
<1>2. ASSUME NEW t \in SUBSET X,
             \A v \in SUBSET X : Cardinality(v) < Cardinality(t) => v \in P
      PROVE  t \in P
  <2> SUFFICES ASSUME t # {} PROVE Ends(t)
    OBVIOUS
  <2>1. PICK x : x \in t
    OBVIOUS
  <2>2. t \ {x} \in SUBSET X /\ Cardinality(t \ {x}) < Cardinality(t)
    BY <2>1, FS_Subset, FS_RemoveElement, FS_CardinalityType
  <2>3. CASE t \ {x} = {}
    <3>1. \A y \in t : y = x
      BY <2>3
    <3> QED
      BY <1>1, <2>1, <3>1
  <2>4. CASE t \ {x} # {}
    <3>1. Ends(t \ {x})
      BY <1>2, <2>2, <2>4
    <3>2. PICK o \in t \ {x} : \A y \in t \ {x} : o.at <= y.at
      BY <3>1
    <3>3. PICK n \in t \ {x} : \A y \in t \ {x} : y.at <= n.at
      BY <3>1
    <3>4. \E z \in t : \A y \in t : z.at <= y.at
      <4>1. CASE x.at <= o.at
        BY <1>1, <2>1, <3>2, <4>1
      <4>2. CASE ~ (x.at <= o.at)
        BY <1>1, <2>1, <3>2, <4>2
      <4> QED
        BY <4>1, <4>2
    <3>5. \E z \in t : \A y \in t : y.at <= z.at
      <4>1. CASE n.at <= x.at
        BY <1>1, <2>1, <3>3, <4>1
      <4>2. CASE ~ (n.at <= x.at)
        BY <1>1, <2>1, <3>3, <4>2
      <4> QED
        BY <4>1, <4>2
    <3> QED
      BY <3>4, <3>5
  <2> QED
    BY <2>3, <2>4
<1>3. P = SUBSET X
  <2>1. P \in SUBSET (SUBSET X)
    OBVIOUS
  <2> HIDE DEF P
  <2> QED
    BY <1>2, <2>1, PartsByInduction
<1>4. X \in P
  BY <1>3
<1> QED
  BY <1>4

LEMMA KeptIs ==
  ASSUME NEW rows, NEW limit, NEW r
  PROVE  r \in Kept(rows, limit) <=>
           /\ r \in rows
           /\ Cardinality(Newer(rows, r)) <= limit
           /\ Bytes(Newer(rows, r)) <= Budget \/ Cardinality(Newer(rows, r)) = 1
BY DEF Kept, Bytes

(* What _enforce_receipt_retention keeps: the newest, within both bounds.  *)
LEMMA KeptAreNewest ==
  ASSUME NEW rows \in SUBSET Receipt, Apart(rows), NEW limit \in Nat
  PROVE  /\ \A p \in Kept(rows, limit), q \in rows : q.at >= p.at => q \in Kept(rows, limit)
         /\ rows # {} /\ limit # 0 => Kept(rows, limit) # {}
         /\ Kept(rows, limit) # {} =>
              /\ Cardinality(Kept(rows, limit)) \in 1..limit
              /\ \/ Bytes(Kept(rows, limit)) <= Budget
                 \/ Cardinality(Kept(rows, limit)) = 1
<1> DEFINE kept == Kept(rows, limit)
<1>1. \A q \in rows : q.at \in Int
  BY DEF Receipt
<1>2. IsFiniteSet(rows) /\ kept \subseteq rows
  BY DEF Apart, Kept
<1>3. ASSUME NEW r \in rows
      PROVE  /\ r \in Newer(rows, r) /\ Newer(rows, r) \subseteq rows
             /\ IsFiniteSet(Newer(rows, r)) /\ Cardinality(Newer(rows, r)) \in Nat \ {0}
             /\ Bytes(Newer(rows, r)) \in Nat
  <2>1. r \in Newer(rows, r) /\ Newer(rows, r) \subseteq rows
    BY <1>1 DEF Newer
  <2>2. IsFiniteSet(Newer(rows, r)) /\ Cardinality(Newer(rows, r)) \in Nat
    BY <1>2, <2>1, FS_Subset, FS_CardinalityType
  <2>3. Cardinality(Newer(rows, r)) # 0
    BY <2>1, <2>2, FS_EmptySet
  <2>4. Bytes(Newer(rows, r)) \in Nat
    BY <1>2, <2>1, BytesOneByOne
  <2> QED
    BY <2>1, <2>2, <2>3, <2>4
<1>4. ASSUME NEW p \in kept, NEW q \in rows, q.at >= p.at PROVE q \in kept
  <2>1. p \in rows /\ Newer(rows, q) \subseteq Newer(rows, p)
    BY <1>1, <1>2, <1>4 DEF Newer
  <2>2. Cardinality(Newer(rows, q)) <= Cardinality(Newer(rows, p))
    BY <1>3, <2>1, FS_Subset
  <2>3. Bytes(Newer(rows, q)) <= Bytes(Newer(rows, p))
    BY <1>3, <2>1, FewerReceiptsFewerBytes
  <2>4. /\ Cardinality(Newer(rows, p)) <= limit
        /\ Bytes(Newer(rows, p)) <= Budget \/ Cardinality(Newer(rows, p)) = 1
    BY KeptIs
  <2>5. /\ Cardinality(Newer(rows, q)) <= limit
        /\ Bytes(Newer(rows, q)) <= Budget \/ Cardinality(Newer(rows, q)) = 1
    <3> DEFINE cp == Cardinality(Newer(rows, p))
               cq == Cardinality(Newer(rows, q))
               bp == Bytes(Newer(rows, p))
               bq == Bytes(Newer(rows, q))
    <3>1. cp \in Nat \ {0} /\ cq \in Nat \ {0} /\ bp \in Nat /\ bq \in Nat /\ Budget \in Nat
      BY <1>3, <2>1, TransferConstants
    <3>2. cq <= cp /\ bq <= bp /\ cp <= limit /\ (bp <= Budget \/ cp = 1)
      BY <2>2, <2>3, <2>4
    <3> HIDE DEF cp, cq, bp, bq
    <3>3. cq <= limit /\ (bq <= Budget \/ cq = 1)
      BY <3>1, <3>2
    <3> QED
      BY <3>3 DEF cq, bq
  <2> QED
    BY <2>5, KeptIs
<1>5. ASSUME rows # {}, limit # 0 PROVE kept # {}
  <2>1. PICK r \in rows : \A y \in rows : y.at <= r.at
    BY <1>2, <1>5, OldestAndNewest
  <2>2. Newer(rows, r) = {r}
    <3>1. ASSUME NEW q \in Newer(rows, r) PROVE q = r
      <4>1. q \in rows /\ q.at = r.at
        BY <1>1, <2>1 DEF Newer
      <4> QED
        BY <4>1 DEF Apart
    <3> QED
      BY <1>3, <3>1
  <2>3. Cardinality(Newer(rows, r)) = 1
    BY <2>2, FS_Singleton
  <2>4. r \in kept
    BY <1>5, <2>3, KeptIs
  <2> QED
    BY <2>4
<1>6. ASSUME kept # {}
      PROVE  Cardinality(kept) \in 1..limit /\ (Bytes(kept) <= Budget \/ Cardinality(kept) = 1)
  <2>1. IsFiniteSet(kept) /\ kept \in SUBSET Receipt
    BY <1>2, FS_Subset
  <2>2. PICK r \in kept : \A y \in kept : r.at <= y.at
    BY <1>6, <2>1, OldestAndNewest
  <2>3. kept = Newer(rows, r)
    <3>1. \A y \in kept : y \in Newer(rows, r)
      BY <1>1, <1>2, <2>2 DEF Newer
    <3>2. \A y \in Newer(rows, r) : y \in kept
      BY <1>4 DEF Newer
    <3> HIDE DEF kept
    <3> QED
      BY <3>1, <3>2
  <2>4. /\ Cardinality(Newer(rows, r)) <= limit
        /\ Bytes(Newer(rows, r)) <= Budget \/ Cardinality(Newer(rows, r)) = 1
    BY KeptIs
  <2>5. Cardinality(Newer(rows, r)) \in Nat \ {0}
    BY <1>2, <1>3
  <2> HIDE DEF kept
  <2> QED
    BY <2>3, <2>4, <2>5
<1> QED
  BY <1>4, <1>5, <1>6

(* What one save leaves of a log.                                          *)
LEMMA RetentionStep ==
  ASSUME TransferInv, LogsFit, NEW r, NEW size \in Sizes, SaveReceipt(r, size)
  PROVE  LET before == receipts[r.store]
             after == receipts'[r.store]
         IN /\ Cardinality(after) \in 1..Retention
            /\ \/ MapThenSumSet(LAMBDA q : q.bytes, after) <= Budget
               \/ Cardinality(after) = 1
            /\ \A at \in {q.at : q \in before} \cup {r.at}, q \in after :
                 at \notin {k.at : k \in after} => at < q.at
<1> DEFINE s == r.store
           new == [at |-> r.at, size |-> size, bytes |-> size]
           rows == receipts[s] \cup {new}
           after == Kept(rows, Retention)
<1>1. r \in recalls /\ s \in Store /\ r.at \in Nat /\ size \in Nat
  BY TransferConstants DEF SaveReceipt, TransferInv, ShapesFit
<1>2. OfThePast(receipts[s])
  BY <1>1 DEF LogsFit
<1>3. new \in Receipt
  BY <1>1 DEF Receipt
<1>4. rows \in SUBSET Receipt /\ IsFiniteSet(rows)
  BY <1>2, <1>3, FS_AddElement DEF OfThePast, Apart
<1>5. Apart(rows)
  <2>1. \A q \in receipts[s] : q.at # new.at
    BY <1>1, <1>2 DEF OfThePast
  <2>2. \A p, q \in receipts[s] : p.at = q.at => p = q
    BY <1>2 DEF OfThePast, Apart
  <2>3. \A p, q \in rows : p.at = q.at => p = q
    <3> HIDE DEF new
    <3> QED
      BY <2>1, <2>2
  <2> QED
    BY <1>4, <2>3 DEF Apart
<1>6. receipts'[s] = after
  <2>1. receipts' = [receipts EXCEPT ![s] = Kept(@ \cup {new}, Retention)]
    BY DEF SaveReceipt
  <2> QED
    BY <1>1, <2>1 DEF TransferInv, ShapesFit
<1>7. /\ \A p \in after, q \in rows : q.at >= p.at => q \in after
      /\ after # {}
      /\ Cardinality(after) \in 1..Retention
      /\ Bytes(after) <= Budget \/ Cardinality(after) = 1
  <2>1. rows # {} /\ Retention \in Nat /\ Retention # 0
    BY TransferConstants
  <2> HIDE DEF rows
  <2> QED
    BY <1>4, <1>5, <2>1, KeptAreNewest
<1>8. ASSUME NEW at \in {q.at : q \in receipts[s]} \cup {r.at}, NEW q \in after,
             at \notin {k.at : k \in after}
      PROVE  at < q.at
  <2>1. PICK p \in rows : at = p.at
    <3>1. new \in rows /\ new.at = r.at /\ receipts[s] \subseteq rows
      OBVIOUS
    <3> HIDE DEF new, rows
    <3>2. CASE at = r.at
      BY <3>1, <3>2
    <3>3. CASE at # r.at
      BY <1>8, <3>1, <3>3
    <3> QED
      BY <3>2, <3>3
  <2>2. p \notin after
    BY <1>8, <2>1
  <2>3. q \in rows
    BY DEF after, Kept
  <2>4. p.at \in Int /\ q.at \in Int
    <3> HIDE DEF rows
    <3> QED
      BY <1>4, <2>3 DEF Receipt
  <2>5. ~ (p.at >= q.at)
    BY <1>7, <2>2
  <2> QED
    BY <2>1, <2>4, <2>5
<1> HIDE DEF after
<1> QED
  BY <1>6, <1>7, <1>8 DEF Bytes

(* A recall ends only by leaving its receipt.                              *)
LEMMA OnlySavesEndRecalls ==
  ASSUME [Next]_vars, NEW r \in recalls \ recalls'
  PROVE  \E size \in Sizes : SaveReceipt(r, size)
<1>1. ASSUME NEW s \in Store,
             \/ \E i \in Name, held, counted \in BOOLEAN : Remember(s, i, held, counted)
             \/ \E e \in entries[s], verdict \in Verdicts, slot \in ClaimSlot :
                  Resolve(s, e, verdict, slot)
             \/ RecallBegin(s)
             \/ \E retain \in 0..Retention : Prune(s, retain)
      PROVE  FALSE
  BY <1>1 DEF Remember, Resolve, RecallBegin, Prune
<1>2. ASSUME NEW q \in recalls, NEW size \in Sizes, SaveReceipt(q, size)
      PROVE  q = r
  BY <1>2 DEF SaveReceipt
<1>3. ~Export
  BY DEF Export, ExportBegin, ExportRecords, ExportReceipts, ExportEntries, ExportSeal, Start
<1>4. ~Restore
  BY DEF Restore, RestoreBegin, RestoreBatch, RestoreRest, Start
<1>5. ~Import
  BY DEF Import, ImportBegin, CountExisting, ImportBatch, Start
<1>6. ~Assign
  BY DEF Assign, AssignNext, AssignBegin, AssignBatch, Start
<1>7. ~Damage /\ ~(\E kind \in Jobs : Die(kind)) /\ ~(UNCHANGED vars)
  BY DEF Damage, Die, vars
<1> QED
  BY <1>1, <1>2, <1>3, <1>4, <1>5, <1>6, <1>7 DEF Next, Agents

LEMMA FewerAreApart ==
  ASSUME NEW rows, Apart(rows), NEW fewer \in SUBSET rows
  PROVE  Apart(fewer)
BY FS_Subset DEF Apart

LEMMA LogsInit == Init => LogsFit
<1> SUFFICES ASSUME Init
             PROVE  LogsFit
  OBVIOUS
<1>1. \A s \in Store : receipts[s] = {}
  BY DEF Init
<1>2. OfThePast({})
  BY FS_EmptySet DEF OfThePast, Apart
<1>3. recalls = {} /\ clock = 0 /\ job["export"] = None /\ job["restore"] = None
  BY DEF Init, Jobs
<1>4. ASSUME bundle.sealed PROVE OfThePast(bundle.receipts)
  <2>1. bundle \in Bundles
    BY DEF Init
  <2>2. IsBundle(bundle) /\ Apart(bundle.receipts) /\ \A q \in bundle.receipts : q.at <= 0
    BY <1>4, <2>1, FoundAssumption
  <2>3. bundle.receipts \subseteq Receipt
    BY <1>4, <2>2 DEF IsBundle
  <2> QED
    BY <1>3, <2>2, <2>3 DEF OfThePast
<1> QED
  BY <1>1, <1>2, <1>3, <1>4 DEF LogsFit

(* Steps that leave the logs, the recalls and the files of receipts alone. *)
LEMMA LogsLeftAlone ==
  ASSUME LogsFit, UNCHANGED <<receipts, recalls, clock>>,
         bundle'.receipts = bundle.receipts, bundle'.sealed = bundle.sealed,
         job'["export"] \in {None, job["export"]},
         job'["restore"] # None =>
           job["restore"] # None /\ job'["restore"].store = job["restore"].store
  PROVE  LogsFit'
<1>1. /\ \A s \in Store : OfThePast(receipts[s])'
      /\ (\A p, q \in recalls : p.at = q.at => p = q)'
      /\ (\A r \in recalls : r.at <= clock)'
  BY DEF LogsFit, OfThePast
<1>2. (bundle.sealed => OfThePast(bundle.receipts))'
  BY DEF LogsFit, OfThePast
<1>3. (job["export"] # None =>
         /\ OfThePast(job["export"].receipts)
         /\ bundle.receipts \in {None, job["export"].receipts})'
  BY DEF LogsFit, OfThePast
<1>4. (job["restore"] # None =>
         \A p \in receipts[job["restore"].store], q \in bundle.receipts : p.at # q.at)'
  BY DEF LogsFit
<1> QED
  BY <1>1, <1>2, <1>3, <1>4 DEF LogsFit

(* A restore works on a sealed bundle, so nothing is exported meanwhile.   *)
LEMMA RestoreOfSealed ==
  ASSUME TransferInv, job["restore"] # None
  PROVE  bundle.sealed /\ job["export"] = None /\ job["restore"].store \in Store
<1>1. PutThere(job["restore"]) /\ ShapesFit
  BY DEF TransferInv, RestoreFits
<1>2. bundle.sealed
  BY <1>1 DEF PutThere, Valid
<1> QED
  BY <1>1, <1>2, SealedIsLeftAlone DEF ShapesFit, WorksOn, Jobs

LEMMA RecallBeginLogs ==
  ASSUME TransferInv, LogsFit, NEW s \in Store, RecallBegin(s)
  PROVE  LogsFit'
<1> DEFINE new == [store |-> s, at |-> clock + 1]
<1>1. /\ clock' = clock + 1 /\ recalls' = recalls \cup {new}
      /\ UNCHANGED <<receipts, bundle, job>> /\ clock \in Nat
  BY DEF RecallBegin, Call, stores, TransferInv, ShapesFit
<1>2. ASSUME NEW rows, OfThePast(rows)
      PROVE  /\ \A q \in rows : q.at <= clock'
             /\ \A r \in recalls', q \in rows : r.at # q.at
  <2>1. \A q \in rows : q.at \in Int /\ q.at <= clock
    BY <1>2 DEF OfThePast, Receipt
  <2>2. \A r \in recalls' : r \in recalls \/ r.at = clock + 1
    BY <1>1
  <2> QED
    BY <1>1, <1>2, <2>1, <2>2 DEF OfThePast
<1>3. \A r \in recalls : r.at \in Nat /\ r.at <= clock
  BY DEF LogsFit, TransferInv, ShapesFit
<1>4. (\A p, q \in recalls : p.at = q.at => p = q)'
  <2>1. \A p, q \in recalls : p.at = q.at => p = q
    BY DEF LogsFit
  <2>2. \A p \in recalls : p.at # new.at
    BY <1>1, <1>3
  <2> HIDE DEF new
  <2> QED
    BY <1>1, <2>1, <2>2
<1>5. (\A r \in recalls : r.at <= clock)'
  BY <1>1, <1>3
<1>6. \A s2 \in Store : OfThePast(receipts[s2])'
  BY <1>1, <1>2 DEF LogsFit, OfThePast
<1>7. (bundle.sealed => OfThePast(bundle.receipts))'
  BY <1>1, <1>2 DEF LogsFit, OfThePast
<1>8. (job["export"] # None => OfThePast(job["export"].receipts))'
  BY <1>1, <1>2 DEF LogsFit, OfThePast
<1> QED
  BY <1>1, <1>4, <1>5, <1>6, <1>7, <1>8 DEF LogsFit

LEMMA SaveReceiptLogs ==
  ASSUME TransferInv, LogsFit, NEW r, NEW size \in Sizes, SaveReceipt(r, size)
  PROVE  LogsFit'
<1> DEFINE s == r.store
           new == [at |-> r.at, size |-> size, bytes |-> size]
           rows == receipts[s] \cup {new}
<1>1. r \in recalls /\ s \in Store /\ r.at \in Nat /\ r.at <= clock /\ size \in Nat
  BY TransferConstants DEF SaveReceipt, TransferInv, ShapesFit, LogsFit
<1>2. recalls' = recalls \ {r} /\ UNCHANGED <<bundle, job, clock>>
  BY DEF SaveReceipt
<1>3. receipts' = [receipts EXCEPT ![s] = Kept(rows, Retention)]
  BY DEF SaveReceipt
<1>4. new \in Receipt
  BY <1>1 DEF Receipt
<1>5. OfThePast(receipts[s])
  BY <1>1 DEF LogsFit
<1>6. rows \subseteq Receipt /\ Apart(rows)
  <2>1. IsFiniteSet(rows) /\ rows \subseteq Receipt
    BY <1>4, <1>5, FS_AddElement DEF OfThePast, Apart
  <2>2. \A q \in receipts[s] : q.at # new.at
    BY <1>1, <1>5 DEF OfThePast
  <2>3. \A p, q \in receipts[s] : p.at = q.at => p = q
    BY <1>5 DEF OfThePast, Apart
  <2>4. \A p, q \in rows : p.at = q.at => p = q
    <3> HIDE DEF new
    <3> QED
      BY <2>2, <2>3
  <2> QED
    BY <2>1, <2>4 DEF Apart
<1>7. \A q \in rows : q.at <= clock /\ \A p \in recalls \ {r} : p.at # q.at
  <2>1. \A q \in receipts[s] : q.at <= clock /\ \A p \in recalls : p.at # q.at
    BY <1>5 DEF OfThePast
  <2>2. \A p \in recalls \ {r} : p.at # new.at
    BY <1>1 DEF LogsFit
  <2>3. new.at <= clock
    BY <1>1
  <2> HIDE DEF new
  <2> QED
    BY <2>1, <2>2, <2>3
<1>8. Kept(rows, Retention) \subseteq rows
  BY DEF Kept
<1>9. /\ receipts'[s] = Kept(rows, Retention)
      /\ \A s2 \in Store \ {s} : receipts'[s2] = receipts[s2]
  BY <1>1, <1>3 DEF TransferInv, ShapesFit
<1>10. \A s2 \in Store : OfThePast(receipts[s2])'
  <2>1. OfThePast(receipts[s])'
    <3> HIDE DEF rows
    <3> QED
      BY <1>2, <1>6, <1>7, <1>8, <1>9, FewerAreApart DEF OfThePast
  <2>2. ASSUME NEW s2 \in Store \ {s} PROVE OfThePast(receipts[s2])'
    <3>1. OfThePast(receipts[s2])
      BY DEF LogsFit
    <3> QED
      BY <1>2, <1>9, <3>1 DEF OfThePast
  <2> QED
    BY <2>1, <2>2
<1>11. (bundle.sealed => OfThePast(bundle.receipts))'
  BY <1>2 DEF LogsFit, OfThePast
<1>12. (job["export"] # None =>
          /\ OfThePast(job["export"].receipts)
          /\ bundle.receipts \in {None, job["export"].receipts})'
  BY <1>2 DEF LogsFit, OfThePast
<1>13. (job["restore"] # None =>
          \A p \in receipts[job["restore"].store], q \in bundle.receipts : p.at # q.at)'
  <2> SUFFICES ASSUME job["restore"] # None,
                      NEW p \in receipts'[job["restore"].store], NEW q \in bundle.receipts
               PROVE  p.at # q.at
    BY <1>2
  <2>1. bundle.sealed /\ job["restore"].store \in Store
    BY RestoreOfSealed
  <2>2. q.at # r.at
    BY <1>1, <2>1 DEF LogsFit, OfThePast
  <2>3. \A o \in receipts[job["restore"].store] : o.at # q.at
    BY DEF LogsFit
  <2>4. p \in receipts[job["restore"].store] \/ p = new
    BY <1>8, <1>9, <2>1
  <2> QED
    BY <2>2, <2>3, <2>4
<1>14. (\A p, q \in recalls : p.at = q.at => p = q)' /\ (\A p \in recalls : p.at <= clock)'
  BY <1>2 DEF LogsFit
<1> QED
  BY <1>10, <1>11, <1>12, <1>13, <1>14 DEF LogsFit

LEMMA PruneLogs ==
  ASSUME TransferInv, LogsFit, NEW s \in Store, NEW retain, Prune(s, retain)
  PROVE  LogsFit'
<1>1. UNCHANGED <<bundle, job, clock, recalls>>
  BY DEF Prune, Call
<1>2. \A s2 \in Store : receipts'[s2] \subseteq receipts[s2]
  BY DEF Prune, Kept, TransferInv, ShapesFit
<1>3. ASSUME NEW s2 \in Store PROVE OfThePast(receipts[s2])'
  <2>1. OfThePast(receipts[s2])
    BY DEF LogsFit
  <2> QED
    BY <1>1, <1>2, <2>1, FewerAreApart DEF OfThePast
<1>4. (job["restore"] # None =>
          \A p \in receipts[job["restore"].store], q \in bundle.receipts : p.at # q.at)'
  BY <1>1, <1>2, RestoreOfSealed DEF LogsFit
<1> QED
  BY <1>1, <1>3, <1>4 DEF LogsFit, OfThePast

LEMMA ExportLogs ==
  ASSUME TransferInv, LogsFit, Export
  PROVE  LogsFit'
<1> DEFINE e == job["export"]
<1>1. /\ job = [k \in Jobs |-> job[k]] /\ IsBundle(bundle)
      /\ receipts \in [Store -> SUBSET Receipt] /\ \A k \in Jobs : WorksOn(job[k])
  BY DEF TransferInv, ShapesFit
<1>2. UNCHANGED <<receipts, recalls, clock>>
  BY DEF Export, ExportBegin, ExportRecords, ExportReceipts, ExportEntries, ExportSeal, Start,
         stores
<1>3. job'["restore"] = job["restore"]
  BY <1>1 DEF Export, ExportBegin, ExportRecords, ExportReceipts, ExportEntries, ExportSeal, Start,
              Jobs
<1>4. job["restore"] = None
  <2>1. ASSUME e # None PROVE ~bundle.sealed
    BY <2>1, SealedIsLeftAlone DEF TransferInv
  <2>2. (\E s \in Store : ExportBegin(s)) => ~bundle.sealed
    BY DEF ExportBegin, Blank
  <2>3. ~bundle.sealed
    BY <2>1, <2>2 DEF Export, ExportRecords, ExportReceipts, ExportEntries, ExportSeal
  <2> QED
    BY <2>3, RestoreOfSealed
<1>5. /\ \A s \in Store : OfThePast(receipts[s])'
      /\ (\A p, q \in recalls : p.at = q.at => p = q)'
      /\ (\A r \in recalls : r.at <= clock)'
  BY <1>2 DEF LogsFit, OfThePast
<1>6. ASSUME NEW s \in Store, ExportBegin(s) PROVE LogsFit'
  <2>1. /\ bundle' = Blank
        /\ job'["export"] = [store |-> s, read |-> FALSE, receipts |-> {}, entries |-> {}]
    BY <1>1, <1>6 DEF ExportBegin, Start, Jobs
  <2>2. ~bundle'.sealed /\ bundle'.receipts = None /\ job'["export"].receipts = {}
    BY <2>1 DEF Blank
  <2>3. OfThePast({})'
    BY FS_EmptySet DEF OfThePast, Apart
  <2>4. OfThePast(job["export"].receipts)'
    BY <2>2, <2>3 DEF OfThePast
  <2> QED
    BY <1>3, <1>4, <1>5, <2>2, <2>4 DEF LogsFit
<1>7. ASSUME ExportRecords PROVE LogsFit'
  <2>1. /\ ~bundle'.sealed /\ bundle'.receipts = None
        /\ job'["export"].receipts = receipts[e.store] /\ e.store \in Store
    BY <1>1, <1>7 DEF ExportRecords, WorksOn, Jobs
  <2>2. OfThePast(receipts[e.store])
    BY <2>1 DEF LogsFit
  <2>3. OfThePast(job["export"].receipts)'
    BY <1>2, <2>1, <2>2 DEF OfThePast
  <2> QED
    BY <1>3, <1>4, <1>5, <2>1, <2>3 DEF LogsFit
<1>8. ASSUME ExportReceipts PROVE LogsFit'
  <2>1. bundle'.sealed = bundle.sealed /\ bundle'.receipts = e.receipts /\ job' = job /\ e # None
    BY <1>1, <1>8 DEF ExportReceipts, IsBundle
  <2>2. OfThePast(e.receipts)
    BY <2>1 DEF LogsFit
  <2>3. OfThePast(job["export"].receipts)' /\ OfThePast(bundle.receipts)'
    BY <1>2, <2>1, <2>2 DEF OfThePast
  <2> QED
    BY <1>3, <1>4, <1>5, <2>1, <2>3 DEF LogsFit
<1>9. ASSUME ExportEntries PROVE LogsFit'
  <2>1. bundle'.sealed = bundle.sealed /\ bundle'.receipts = bundle.receipts /\ job' = job
    BY <1>1, <1>9 DEF ExportEntries, IsBundle
  <2> QED
    BY <1>2, <2>1, LogsLeftAlone
<1>10. ASSUME ExportSeal PROVE LogsFit'
  <2>1. bundle'.receipts = bundle.receipts /\ job'["export"] = None /\ e # None /\ bundle.entries # None /\ e.read
    BY <1>1, <1>10 DEF ExportSeal, IsBundle, Jobs
  <2>2. bundle.receipts = e.receipts
    BY <2>1 DEF LogsFit, TransferInv, ExportFits
  <2>3. OfThePast(bundle.receipts)
    BY <2>1, <2>2 DEF LogsFit
  <2>4. OfThePast(bundle.receipts)'
    BY <1>2, <2>1, <2>3 DEF OfThePast
  <2> QED
    BY <1>3, <1>4, <1>5, <2>1, <2>4 DEF LogsFit
<1> QED
  BY <1>6, <1>7, <1>8, <1>9, <1>10 DEF Export

LEMMA RestoreRestLogs ==
  ASSUME TransferInv, LogsFit, RestoreRest
  PROVE  LogsFit'
<1>0. PICK s : s = job["restore"].store
  OBVIOUS
<1> DEFINE bare(q) == [q EXCEPT !.bytes = 0]
           rows == receipts[s] \cup {bare(q) : q \in bundle.receipts}
<1>1. job["restore"] # None /\ UNCHANGED <<bundle, recalls, clock>>
  BY DEF RestoreRest
<1>2. bundle.sealed /\ job["export"] = None /\ s \in Store
  BY <1>0, <1>1, RestoreOfSealed
<1>3. job'["restore"] = None /\ job'["export"] = None
  BY <1>2 DEF RestoreRest, TransferInv, ShapesFit, Jobs
<1>4. receipts'[s] = rows /\ \A s2 \in Store \ {s} : receipts'[s2] = receipts[s2]
  <2>1. receipts' = [receipts EXCEPT ![s] = rows]
    BY <1>0 DEF RestoreRest
  <2> HIDE DEF rows
  <2> QED
    BY <1>2, <2>1 DEF TransferInv, ShapesFit
<1>5. OfThePast(receipts[s]) /\ OfThePast(bundle.receipts)
  BY <1>2 DEF LogsFit
<1>6. \A q \in bundle.receipts : bare(q) \in Receipt /\ bare(q).at = q.at
  BY <1>5 DEF OfThePast, Receipt
<1>7. IsFiniteSet(rows)
  <2>1. IsFiniteSet({bare(q) : q \in bundle.receipts})
    <3>1. IsFiniteSet(bundle.receipts)
      BY <1>5 DEF OfThePast, Apart
    <3> DEFINE f == [q \in bundle.receipts |-> bare(q)]
               T == {bare(q) : q \in bundle.receipts}
    <3>2. f \in [bundle.receipts -> T] /\ \A x \in T : \E q \in bundle.receipts : f[q] = x
      OBVIOUS
    <3> HIDE DEF f, T
    <3>3. f \in Surjection(bundle.receipts, T)
      BY <3>2, Fun_IsSurj
    <3>4. IsFiniteSet(T)
      BY <3>1, <3>3, FS_Surjection
    <3> QED
      BY <3>4 DEF T
  <2>2. IsFiniteSet(receipts[s])
    BY <1>5 DEF OfThePast, Apart
  <2> QED
    BY <2>1, <2>2, FS_Union
<1> HIDE DEF bare
<1>8. \A p \in receipts[s], q \in bundle.receipts : p.at # bare(q).at
  BY <1>0, <1>1, <1>6 DEF LogsFit
<1>9. \A p, q \in rows : p.at = q.at => p = q
  <2>1. \A p, q \in receipts[s] : p.at = q.at => p = q
    BY <1>5 DEF OfThePast, Apart
  <2>2. \A p, q \in bundle.receipts : bare(p).at = bare(q).at => bare(p) = bare(q)
    <3>1. \A p, q \in bundle.receipts : p.at = q.at => p = q
      BY <1>5 DEF OfThePast, Apart
    <3> QED
      BY <1>6, <3>1
  <2> QED
    BY <1>8, <2>1, <2>2
<1>10. rows \subseteq Receipt /\ \A q \in rows : q.at <= clock /\ \A r \in recalls : r.at # q.at
  BY <1>5, <1>6 DEF OfThePast
<1> HIDE DEF rows
<1>11. \A s2 \in Store : OfThePast(receipts[s2])'
  <2>1. OfThePast(receipts[s])'
    BY <1>1, <1>4, <1>7, <1>9, <1>10 DEF OfThePast, Apart
  <2>2. ASSUME NEW s2 \in Store \ {s} PROVE OfThePast(receipts[s2])'
    <3>1. OfThePast(receipts[s2])
      BY DEF LogsFit
    <3> QED
      BY <1>1, <1>4, <3>1 DEF OfThePast
  <2> QED
    BY <2>1, <2>2
<1> QED
  BY <1>1, <1>3, <1>11 DEF LogsFit, OfThePast

LEMMA LogsStep == TransferInv /\ LogsFit /\ [Next]_vars => LogsFit'
<1> SUFFICES ASSUME TransferInv, LogsFit, [Next]_vars
             PROVE  LogsFit'
  OBVIOUS
<1>1. job = [k \in Jobs |-> job[k]] /\ IsBundle(bundle)
  BY DEF TransferInv, ShapesFit
<1> DEFINE Quiet == /\ UNCHANGED <<receipts, recalls, clock>>
                    /\ bundle'.receipts = bundle.receipts /\ bundle'.sealed = bundle.sealed
                    /\ job'["export"] \in {None, job["export"]}
                    /\ job'["restore"] # None =>
                         job["restore"] # None /\ job'["restore"].store = job["restore"].store
<1>2. Quiet => LogsFit'
  BY LogsLeftAlone
<1>3. CASE Agents
  <2>1. ASSUME NEW s \in Store,
               \/ \E i \in Name, held, counted \in BOOLEAN : Remember(s, i, held, counted)
               \/ \E e \in entries[s], verdict \in Verdicts, slot \in ClaimSlot :
                    Resolve(s, e, verdict, slot)
        PROVE  Quiet
    BY <2>1 DEF Remember, Resolve, Call
  <2>2. ASSUME NEW s \in Store, RecallBegin(s) PROVE LogsFit'
    BY <2>2, RecallBeginLogs
  <2>3. ASSUME NEW r \in recalls, NEW size \in Sizes, SaveReceipt(r, size) PROVE LogsFit'
    BY <2>3, SaveReceiptLogs
  <2>4. ASSUME NEW s \in Store, NEW retain, Prune(s, retain) PROVE LogsFit'
    BY <2>4, PruneLogs
  <2> HIDE DEF Quiet
  <2> QED
    BY <1>2, <1>3, <2>1, <2>2, <2>3, <2>4 DEF Agents
<1>4. CASE Export
  BY <1>4, ExportLogs
<1>5. CASE Restore
  <2>1. ASSUME NEW s \in Store, RestoreBegin(s) PROVE LogsFit'
    <3>1. /\ UNCHANGED <<receipts, bundle, recalls, clock>> /\ bundle.sealed /\ receipts[s] = {}
          /\ job'["restore"].store = s /\ job'["export"] = job["export"]
      BY <1>1, <2>1 DEF RestoreBegin, Start, stores, Valid, Jobs
    <3>2. job["export"] = None
      BY <3>1, SealedIsLeftAlone DEF TransferInv
    <3> QED
      BY <3>1, <3>2 DEF LogsFit, OfThePast
  <2>2. ASSUME job["restore"] # None, NEW batch, RestoreBatch(batch) PROVE Quiet
    <3>1. PutThere(job["restore"])
      BY <2>2 DEF TransferInv, RestoreFits
    <3>2. UNCHANGED <<receipts, recalls, clock, bundle>> /\ job'["export"] = job["export"]
      BY <1>1, <2>2 DEF RestoreBatch, Jobs
    <3>3. job'["restore"] # None => job'["restore"].store = job["restore"].store
      BY <1>1, <2>2, <3>1 DEF RestoreBatch, PutThere, Jobs
    <3> QED
      BY <2>2, <3>2, <3>3
  <2>3. CASE RestoreRest
    BY <2>3, RestoreRestLogs
  <2> HIDE DEF Quiet
  <2> QED
    BY <1>2, <1>5, <2>1, <2>2, <2>3 DEF Restore
<1>6. CASE Import
  <2>1. Quiet
    BY <1>1, <1>6 DEF Import, ImportBegin, CountExisting, ImportBatch, Start, stores, Jobs
  <2> QED
    BY <1>2, <2>1
<1>7. CASE Assign
  <2>1. Quiet
    BY <1>1, <1>7 DEF Assign, AssignBegin, AssignNext, AssignBatch, Start, stores, Jobs
  <2> QED
    BY <1>2, <2>1
<1>8. CASE Damage
  <2>1. Quiet
    BY <1>1, <1>8 DEF Damage, Call, stores, IsBundle
  <2> QED
    BY <1>2, <2>1
<1>9. CASE \E kind \in Jobs : Die(kind)
  <2>1. Quiet
    BY <1>1, <1>9 DEF Die, stores, Jobs
  <2> QED
    BY <1>2, <2>1
<1>10. CASE UNCHANGED vars
  <2>1. Quiet
    BY <1>10 DEF vars, stores
  <2> QED
    BY <1>2, <2>1
<1> QED
  BY <1>3, <1>4, <1>5, <1>6, <1>7, <1>8, <1>9, <1>10 DEF Next

LEMMA LogsInvariant == Spec => []LogsFit
  BY LogsInit, LogsStep, TransferInvariant, PTL DEF Spec

(* Whenever save_recall_receipt has trimmed the log, in whatever order     *)
(* recalls end, it is not empty and within both bounds (but for a receipt  *)
(* that is alone), and nothing that went is newer than what stayed.        *)
THEOREM RetentionKeepsTheNewest == Spec => RetentionKeepsNewestWithinBounds
<1> DEFINE Trimmed(r) ==
      LET before == receipts[r.store]
          after == receipts'[r.store]
      IN /\ Cardinality(after) \in 1..Retention
         /\ \/ MapThenSumSet(LAMBDA q : q.bytes, after) <= Budget
            \/ Cardinality(after) = 1
         /\ \A at \in {q.at : q \in before} \cup {r.at}, q \in after :
              at \notin {k.at : k \in after} => at < q.at
<1>1. ASSUME TransferInv, LogsFit, [Next]_vars, NEW r \in recalls \ recalls'
      PROVE  Trimmed(r)
  BY <1>1, OnlySavesEndRecalls, RetentionStep
<1>2. TransferInv /\ LogsFit /\ [Next]_vars => [\A r \in recalls \ recalls' : Trimmed(r)]_vars
  BY <1>1
<1> QED
  BY <1>2, TransferInvariant, LogsInvariant, PTL DEF Spec, RetentionKeepsNewestWithinBounds

-----------------------------------------------------------------------------
(* What an import has to store: files joined, read and cut into batches.   *)

LEMMA NumbersByInduction ==
  ASSUME NEW T \in SUBSET Nat, 0 \in T, \A n \in T : n + 1 \in T
  PROVE  T = Nat
<1> SUFFICES ASSUME T # Nat PROVE FALSE
  OBVIOUS
<1>1. PICK n \in Nat \ T : \A m \in Nat \ T : n <= m
  BY LeastNumber
<1>2. n # 0 /\ n - 1 \in Nat
  BY <1>1
<1>3. n - 1 \in T
  BY <1>1, <1>2
<1> QED
  BY <1>1, <1>3

(* f joins the first of ss, one after the other.                           *)
Joins(f, ss, n) == f = [i \in 1..n |-> IF i = 1 THEN ss[i] ELSE f[i - 1] \o ss[i]]

LEMMA JoinIs ==
  ASSUME NEW f, NEW ss, NEW n, Joins(f, ss, n)
  PROVE  \A i \in 1..n : f[i] = IF i = 1 THEN ss[i] ELSE f[i - 1] \o ss[i]
<1> DEFINE join(i) == IF i = 1 THEN ss[i] ELSE f[i - 1] \o ss[i]
<1>1. f = [i \in 1..n |-> join(i)]
  BY DEF Joins
<1> HIDE DEF join
<1>2. \A i \in 1..n : f[i] = join(i)
  BY <1>1
<1> QED
  BY <1>2 DEF join

LEMMA JoinsExist ==
  ASSUME NEW ss, NEW n \in Nat
  PROVE  \E f : Joins(f, ss, n)
<1> DEFINE T == {k \in Nat : \E f : Joins(f, ss, k)}
<1>1. 0 \in T
  <2> DEFINE f == [i \in 1..0 |-> ss[i]]
  <2>1. Joins(f, ss, 0)
    BY DEF Joins
  <2> QED
    BY <2>1
<1>2. ASSUME NEW k \in T PROVE k + 1 \in T
  <2>1. PICK f : Joins(f, ss, k)
    OBVIOUS
  <2> DEFINE join(g, i) == IF i = 1 THEN ss[i] ELSE g[i - 1] \o ss[i]
             g == [i \in 1..(k + 1) |-> IF i = k + 1 THEN join(f, i) ELSE f[i]]
  <2>2. ASSUME NEW i \in 1..(k + 1) PROVE g[i] = join(g, i)
    <3>1. i # 1 => i - 1 \in 1..k /\ g[i - 1] = f[i - 1]
      OBVIOUS
    <3>2. i # k + 1 => f[i] = join(f, i)
      BY <2>1, JoinIs
    <3>3. g[i] = join(f, i)
      BY <3>2
    <3>4. join(f, i) = join(g, i)
      <4> HIDE DEF g
      <4> QED
        BY <3>1
    <3> HIDE DEF g, join
    <3> QED
      BY <3>3, <3>4
  <2>3. g = [i \in 1..(k + 1) |-> g[i]]
    OBVIOUS
  <2> HIDE DEF g
  <2>4. g = [i \in 1..(k + 1) |-> join(g, i)]
    BY <2>2, <2>3
  <2>5. Joins(g, ss, k + 1)
    BY <2>4 DEF Joins
  <2> QED
    BY <2>5
<1>3. T = Nat
  <2>1. T \in SUBSET Nat
    OBVIOUS
  <2> HIDE DEF T
  <2> QED
    BY <1>1, <1>2, <2>1, NumbersByInduction
<1>4. n \in T
  BY <1>3
<1> QED
  BY <1>4

LEMMA JoinHolds ==
  ASSUME NEW S, NEW s \in Seq(S), NEW t \in Seq(S)
  PROVE  s \o t \in Seq(S) /\ Range(s) \subseteq Range(s \o t) /\ Range(t) \subseteq Range(s \o t)
<1> DEFINE st == s \o t
<1>1. st \in Seq(S) /\ Len(st) = Len(s) + Len(t) /\ Len(s) \in Nat /\ Len(t) \in Nat
  OBVIOUS
<1>2. DOMAIN s = 1..Len(s) /\ DOMAIN t = 1..Len(t) /\ DOMAIN st = 1..Len(st)
  OBVIOUS
<1>3. \A j \in 1..Len(s) : st[j] = s[j]
  OBVIOUS
<1>4. \A j \in 1..Len(t) : st[Len(s) + j] = t[j]
  BY ConcatProperties
<1> HIDE DEF st
<1>5. \A j \in 1..Len(s) : j \in DOMAIN st
  BY <1>1, <1>2
<1>6. \A j \in 1..Len(t) : Len(s) + j \in DOMAIN st
  BY <1>1, <1>2
<1>7. Range(s) \subseteq Range(st)
  BY <1>2, <1>3, <1>5 DEF Range
<1>8. Range(t) \subseteq Range(st)
  BY <1>2, <1>4, <1>6 DEF Range
<1> QED
  BY <1>1, <1>7, <1>8 DEF st

(* What FlattenSeq joins is what the sequences hold.                       *)
LEMMA FlattenedHolds ==
  ASSUME NEW S, NEW ss \in Seq(Seq(S))
  PROVE  /\ FlattenSeq(ss) \in Seq(S)
         /\ \A n \in DOMAIN ss : \A x \in Range(ss[n]) : x \in Range(FlattenSeq(ss))
<1> DEFINE N == Len(ss)
<1>1. CASE N = 0
  BY <1>1 DEF FlattenSeq
<1>2. CASE N # 0
  <2> DEFINE f == CHOOSE g : Joins(g, ss, N)
  <2>1. N \in Nat /\ Joins(f, ss, N)
    BY JoinsExist
  <2>2. FlattenSeq(ss) = f[N]
    BY <1>2 DEF FlattenSeq, Joins
  <2> HIDE DEF f
  <2> DEFINE Holds(k) == /\ f[k] \in Seq(S)
                         /\ \A n \in 1..k : \A x \in Range(ss[n]) : x \in Range(f[k])
             T == {k \in Nat : k \in 1..N => Holds(k)}
  <2>3. 0 \in T
    OBVIOUS
  <2>4. ASSUME NEW k \in T PROVE k + 1 \in T
    <3> SUFFICES ASSUME k + 1 \in 1..N PROVE Holds(k + 1)
      OBVIOUS
    <3>1. ss[k + 1] \in Seq(S)
      OBVIOUS
    <3>2. f[k + 1] = IF k + 1 = 1 THEN ss[k + 1] ELSE f[k + 1 - 1] \o ss[k + 1]
      BY <2>1, JoinIs
    <3>3. CASE k = 0
      <4>1. f[k + 1] = ss[k + 1] /\ \A n \in 1..(k + 1) : n = k + 1
        BY <3>2, <3>3
      <4> QED
        BY <3>1, <4>1
    <3>4. CASE k # 0
      <4>1. k + 1 # 1 /\ k + 1 - 1 = k /\ k \in 1..N
        BY <2>1, <3>4
      <4>2. f[k + 1] = f[k] \o ss[k + 1]
        BY <3>2, <4>1
      <4>3. f[k] \in Seq(S) /\ \A n \in 1..k : \A x \in Range(ss[n]) : x \in Range(f[k])
        BY <2>4, <4>1
      <4>4. /\ f[k + 1] \in Seq(S)
            /\ Range(f[k]) \subseteq Range(f[k + 1])
            /\ Range(ss[k + 1]) \subseteq Range(f[k + 1])
        BY <3>1, <4>2, <4>3, JoinHolds
      <4> QED
        BY <4>3, <4>4
    <3> QED
      BY <3>3, <3>4
  <2>5. T = Nat
    <3>1. T \in SUBSET Nat
      OBVIOUS
    <3> HIDE DEF T
    <3> QED
      BY <2>3, <2>4, <3>1, NumbersByInduction
  <2>6. Holds(N)
    <3> HIDE DEF N, Holds
    <3>1. N \in 1..N
      BY <1>2, <2>1
    <3> QED
      BY <2>1, <2>5, <3>1
  <2>7. DOMAIN ss = 1..N
    OBVIOUS
  <2> QED
    BY <2>2, <2>6, <2>7
<1> QED
  BY <1>1, <1>2

LEMMA RecordsAreMade ==
  ASSUME NEW source \in Sources, NEW scope, NEW item \in Items(source)
  PROVE  Records(source, scope, item) \in Seq(Made(source, scope))
<1>1. \E S : Records(source, scope, item) \in Seq(S)
  <2>1. item.parts \in Seq(Text) /\ source.form \in {"legacy", "notes", "claude-mem"}
    BY SourcesAssumption
  <2>2. \E S : LegacyRecord(scope, item) \in Seq(S)
    <3> DEFINE r == [id |-> item.key, text |-> item.parts[1], scope |-> scope]
    <3>1. << r >> \in Seq({r})
      OBVIOUS
    <3> QED
      BY <3>1 DEF LegacyRecord
  <2>3. \E S : ObservationRecord(scope, item) \in Seq(S)
    <3> DEFINE r == [id |-> ContentId(item.key, item.parts[1]),
                     text |-> item.parts[1], scope |-> Place(scope, item)]
    <3>1. << r >> \in Seq({r})
      OBVIOUS
    <3> QED
      BY <3>1 DEF ObservationRecord
  <2>4. \E S : NoteRecords(scope, item) \in Seq(S)
    <3> DEFINE r(n) == [id |-> ContentId(IF Len(item.parts) = 1 THEN item.key ELSE Append(item.key, n),
                                         item.parts[n]),
                        text |-> item.parts[n], scope |-> Place(scope, item)]
               S == {r(n) : n \in DOMAIN item.parts}
    <3>1. DOMAIN item.parts = 1..Len(item.parts) /\ Len(item.parts) \in Nat
      BY <2>1
    <3>2. NoteRecords(scope, item) = [n \in DOMAIN item.parts |-> r(n)]
      BY DEF NoteRecords
    <3> HIDE DEF r
    <3>3. NoteRecords(scope, item) \in [1..Len(item.parts) -> S]
      BY <3>1, <3>2
    <3> QED
      BY <3>1, <3>3, SeqDef
  <2>5. << >> \in Seq({})
    OBVIOUS
  <2> QED
    BY <2>1, <2>2, <2>3, <2>4, <2>5 DEF Records
<1>2. PICK S : Records(source, scope, item) \in Seq(S)
  BY <1>1
<1> DEFINE rs == Records(source, scope, item)
<1>3. \A n \in 1..Len(rs) : rs[n] \in Made(source, scope)
  <2>1. \A n \in DOMAIN rs : rs[n] \in Range(rs)
    BY DEF Range
  <2>2. Range(rs) \subseteq Made(source, scope)
    BY DEF Made
  <2>3. DOMAIN rs = 1..Len(rs)
    BY <1>2
  <2> QED
    BY <2>1, <2>2, <2>3
<1> HIDE DEF rs
<1>4. rs \in Seq(Made(source, scope))
  <2>1. rs \in Seq(S)
    BY <1>2 DEF rs
  <2>2. Len(rs) \in Nat /\ rs = [n \in 1..Len(rs) |-> rs[n]]
    BY <2>1
  <2>3. rs \in [1..Len(rs) -> Made(source, scope)]
    BY <1>3, <2>2
  <2> QED
    BY <2>2, <2>3, SeqDef
<1> QED
  BY <1>4 DEF rs

LEMMA AllRecordsAreMade ==
  ASSUME NEW source \in Sources, NEW scope, NEW items \in Seq(Items(source))
  PROVE  /\ AllRecords(source, scope, items) \in Seq(Made(source, scope))
         /\ \A n \in DOMAIN items : \A b \in Range(Records(source, scope, items[n])) :
              b \in Range(AllRecords(source, scope, items))
<1> DEFINE rs(n) == Records(source, scope, items[n])
           ss == [n \in DOMAIN items |-> rs(n)]
<1>1. DOMAIN items = 1..Len(items) /\ Len(items) \in Nat /\ \A n \in 1..Len(items) : items[n] \in Items(source)
  OBVIOUS
<1>2. \A n \in 1..Len(items) : rs(n) \in Seq(Made(source, scope))
  BY <1>1, RecordsAreMade
<1>3. AllRecords(source, scope, items) = FlattenSeq(ss)
  BY DEF AllRecords
<1> HIDE DEF rs
<1>4. ss \in [1..Len(items) -> Seq(Made(source, scope))]
  BY <1>1, <1>2
<1>5. ss \in Seq(Seq(Made(source, scope)))
  BY <1>1, <1>4, SeqDef
<1>6. \A n \in DOMAIN items : n \in DOMAIN ss /\ ss[n] = rs(n)
  OBVIOUS
<1> HIDE DEF ss
<1>7. /\ FlattenSeq(ss) \in Seq(Made(source, scope))
      /\ \A n \in DOMAIN ss : \A x \in Range(ss[n]) : x \in Range(FlattenSeq(ss))
  BY <1>5, FlattenedHolds
<1> QED
  BY <1>3, <1>6, <1>7 DEF rs

LEMMA Division ==
  ASSUME NEW a \in Nat, NEW B \in Nat \ {0}
  PROVE  a \div B \in Nat /\ (a \div B) * B <= a /\ a < (a \div B) * B + B
<1>1. a = B * (a \div B) + (a % B) /\ a % B \in 0..(B - 1) /\ a \div B \in Nat
  OBVIOUS
<1>2. B * (a \div B) = (a \div B) * B
  BY <1>1
<1> QED
  BY <1>1, <1>2

LEMMA FewerTimes ==
  ASSUME NEW q \in Nat, NEW c \in Nat, NEW B \in Nat \ {0}, q * B < c * B
  PROVE  q < c
<1> SUFFICES ASSUME c <= q PROVE FALSE
  OBVIOUS
<1>1. PICK d \in Nat : q = c + d
  <2>1. q - c \in Nat /\ q = c + (q - c)
    OBVIOUS
  <2> QED
    BY <2>1
<1>2. q * B = c * B + d * B
  BY <1>1
<1>3. d * B \in Nat /\ c * B \in Nat /\ q * B \in Nat
  BY <1>1
<1> QED
  BY <1>2, <1>3

LEMMA LesserOfTwo ==
  ASSUME NEW a \in Int, NEW b \in Int
  PROVE  Min({a, b}) = IF a <= b THEN a ELSE b
BY DEF Min

(* Slices of a sequence of at most B each hold all of it.                  *)
LEMMA SlicesHold ==
  ASSUME NEW S, NEW s \in Seq(S), NEW k \in 1..Len(s)
  PROVE  LET count == (Len(s) + BatchSize - 1) \div BatchSize
             slice(n) == SubSeq(s, (n - 1) * BatchSize + 1, Min({n * BatchSize, Len(s)}))
         IN \E n \in 1..count : s[k] \in Range(slice(n))
<1> DEFINE L == Len(s)
           B == BatchSize
           count == (L + B - 1) \div B
           q == (k - 1) \div B
           n == q + 1
           lo == (n - 1) * B + 1
           hi == Min({n * B, L})
           slice == SubSeq(s, lo, hi)
<1>1. B \in Nat \ {0} /\ L \in Nat /\ k \in 1..L
  BY TransferConstants
<1>2. q \in Nat /\ q * B \in Nat /\ q * B <= k - 1 /\ k - 1 < q * B + B
  BY <1>1, Division
<1>3. count \in Nat /\ count * B \in Nat /\ L + B - 1 < count * B + B
  BY <1>1, Division
<1>4. n \in 1..count
  <2> HIDE DEF q, count, L, B
  <2>1. q * B < count * B
    BY <1>1, <1>2, <1>3
  <2>2. q < count
    BY <1>1, <1>2, <1>3, <2>1, FewerTimes
  <2> QED
    BY <1>2, <1>3, <2>2
<1>5. n * B = q * B + B /\ (n - 1) * B = q * B
  <2> HIDE DEF q, B
  <2> QED
    BY <1>1, <1>2
<1>6. lo \in Nat /\ hi \in Nat /\ 1 <= lo /\ lo <= k /\ k <= hi /\ hi <= L
  <2> HIDE DEF q, L, B
  <2>1. n * B \in Int /\ lo = q * B + 1 /\ k <= n * B
    BY <1>1, <1>2, <1>5
  <2>2. hi = IF n * B <= L THEN n * B ELSE L
    BY <1>1, <2>1, LesserOfTwo
  <2> HIDE DEF n, hi, lo
  <2> QED
    BY <1>1, <1>2, <2>1, <2>2
<1> HIDE DEF lo, hi
<1>7. Len(slice) = hi - lo + 1 /\ slice \in Seq(S) /\ \A i \in 1..(hi - lo + 1) : slice[i] = s[lo + i - 1]
  BY <1>6, SubSeqProperties
<1>8. k - lo + 1 \in 1..(hi - lo + 1) /\ lo + (k - lo + 1) - 1 = k
  BY <1>6, <1>1
<1>9. slice[k - lo + 1] = s[k] /\ k - lo + 1 \in DOMAIN slice
  <2>1. DOMAIN slice = 1..Len(slice)
    BY <1>7
  <2> HIDE DEF slice
  <2> QED
    BY <1>7, <1>8, <2>1
<1>10. s[k] \in Range(slice)
  <2> HIDE DEF slice
  <2> QED
    BY <1>9 DEF Range
<1> QED
  BY <1>4, <1>10 DEF lo, hi

(* The batches of a file hold all its readable lines.                      *)
LEMMA FileBatchesHold ==
  ASSUME NEW source \in Sources, NEW scope, NEW file \in Seq(Items(source))
  PROVE  LET batches == FileBatches(source, scope, file) IN
         /\ batches \in Seq(Seq(Made(source, scope)))
         /\ \A b \in Range(AllRecords(source, scope, file)) :
              \E n \in DOMAIN batches : b \in Range(batches[n])
<1> DEFINE all == AllRecords(source, scope, file)
           made == Made(source, scope)
           count == (Len(all) + BatchSize - 1) \div BatchSize
           slice(n) == SubSeq(all, (n - 1) * BatchSize + 1, Min({n * BatchSize, Len(all)}))
           batches == [n \in 1..count |-> slice(n)]
<1>1. FileBatches(source, scope, file) = batches
  BY DEF FileBatches
<1>2. all \in Seq(made)
  BY AllRecordsAreMade
<1>3. BatchSize \in Nat \ {0} /\ Len(all) \in Nat
  BY <1>2, TransferConstants
<1>4. count \in Nat
  BY <1>3, Division
<1>5. ASSUME NEW n \in 1..count PROVE slice(n) \in Seq(made)
  <2>1. n \in Nat \ {0}
    BY <1>4
  <2>2. n * BatchSize \in Nat /\ (n - 1) * BatchSize \in Nat
    BY <1>3, <2>1
  <2> DEFINE lo == (n - 1) * BatchSize + 1
             hi == Min({n * BatchSize, Len(all)})
  <2>3. lo \in Nat /\ 1 <= lo /\ hi \in Nat /\ hi <= Len(all)
    <3>1. hi = IF n * BatchSize <= Len(all) THEN n * BatchSize ELSE Len(all)
      BY <1>3, <2>2, LesserOfTwo
    <3> HIDE DEF hi
    <3> QED
      BY <1>3, <2>2, <3>1
  <2> HIDE DEF lo, hi, all, made
  <2>4. SubSeq(all, lo, hi) \in Seq(made)
    <3>1. CASE lo <= hi
      BY <1>2, <2>3, <3>1, SubSeqProperties
    <3>2. CASE ~ (lo <= hi)
      <4>1. SubSeq(all, lo, hi) = << >>
        BY <2>3, <3>2, <1>2
      <4> QED
        BY <4>1
    <3> QED
      BY <3>1, <3>2
  <2> QED
    BY <2>4 DEF lo, hi
<1>6. batches \in Seq(Seq(made))
  <2> HIDE DEF slice, count, made
  <2>1. batches \in [1..count -> Seq(made)]
    BY <1>5
  <2> QED
    BY <1>4, <2>1, SeqDef
<1>7. ASSUME NEW b \in Range(all) PROVE \E n \in DOMAIN batches : b \in Range(batches[n])
  <2>1. PICK k \in 1..Len(all) : b = all[k]
    <3>1. DOMAIN all = 1..Len(all)
      BY <1>2
    <3> QED
      BY <3>1 DEF Range
  <2>2. \E n \in 1..count : all[k] \in Range(slice(n))
    <3> HIDE DEF all
    <3> QED
      BY <1>2, SlicesHold
  <2> HIDE DEF slice, count
  <2> QED
    BY <2>1, <2>2
<1> QED
  BY <1>1, <1>6, <1>7

LEMMA MadeOfFiles ==
  ASSUME NEW source \in Sources, NEW scope, NEW b \in Made(source, scope)
  PROVE  \E k \in DOMAIN source.files : \E j \in DOMAIN source.files[k] :
           b \in Range(Records(source, scope, source.files[k][j]))
<1>1. PICK item \in Items(source) : b \in Range(Records(source, scope, item))
  BY DEF Made
<1>2. PICK f \in Range(source.files) : item \in Range(f)
  BY DEF Items
<1> QED
  BY <1>1, <1>2 DEF Range

(* What an import sets out to store is all its source makes, and no more.  *)
LEMMA TodoHolds ==
  ASSUME NEW source \in Sources, NEW scope
  PROVE  LET todo == Todo(source, scope) IN
         /\ todo \in Seq(Seq(Made(source, scope)))
         /\ \A b \in Made(source, scope) : \E n \in DOMAIN todo : b \in Range(todo[n])
         /\ source.form # "legacy" /\ todo # <<>> => Len(todo) = 1
<1> DEFINE files == source.files
           made == Made(source, scope)
<1>1. files \in Seq(Seq(Items(source)))
  BY SourcesAssumption
<1>2. DOMAIN files = 1..Len(files) /\ Len(files) \in Nat
      /\ \A k \in 1..Len(files) : files[k] \in Seq(Items(source))
  BY <1>1
<1>3. CASE source.form = "legacy"
  <2> DEFINE batches(k) == FileBatches(source, scope, files[k])
             ss == [k \in DOMAIN files |-> batches(k)]
  <2>1. Todo(source, scope) = FlattenSeq(ss)
    BY <1>3 DEF Todo, LegacyBatches
  <2>2. ss \in Seq(Seq(Seq(made)))
    <3>1. \A k \in 1..Len(files) : batches(k) \in Seq(Seq(made))
      BY <1>2, FileBatchesHold
    <3> HIDE DEF batches, files, made
    <3>2. ss \in [1..Len(files) -> Seq(Seq(made))]
      BY <1>2, <3>1
    <3> QED
      BY <1>2, <3>2, SeqDef
  <2>3. \A k \in DOMAIN files : k \in DOMAIN ss /\ ss[k] = batches(k)
    OBVIOUS
  <2> HIDE DEF ss
  <2>4. /\ FlattenSeq(ss) \in Seq(Seq(made))
        /\ \A k \in DOMAIN ss : \A x \in Range(ss[k]) : x \in Range(FlattenSeq(ss))
    BY <2>2, FlattenedHolds
  <2>5. ASSUME NEW b \in made
        PROVE  \E n \in DOMAIN FlattenSeq(ss) : b \in Range(FlattenSeq(ss)[n])
    <3>1. PICK k \in DOMAIN files : \E j \in DOMAIN files[k] :
            b \in Range(Records(source, scope, files[k][j]))
      BY MadeOfFiles
    <3>2. files[k] \in Seq(Items(source))
      BY <1>2
    <3>3. b \in Range(AllRecords(source, scope, files[k]))
      BY <3>1, <3>2, AllRecordsAreMade
    <3>4. PICK n \in DOMAIN batches(k) : b \in Range(batches(k)[n])
      BY <3>2, <3>3, FileBatchesHold
    <3>5. batches(k)[n] \in Range(FlattenSeq(ss))
      <4>1. batches(k)[n] \in Range(batches(k))
        BY DEF Range
      <4> QED
        BY <2>3, <2>4, <4>1
    <3> QED
      BY <3>4, <3>5 DEF Range
  <2> QED
    BY <1>3, <2>1, <2>4, <2>5
<1>4. CASE source.form # "legacy"
  <2> DEFINE items == FlattenSeq(files)
             all == AllRecords(source, scope, items)
  <2>1. Todo(source, scope) = IF all = <<>> THEN <<>> ELSE << all >>
    BY <1>4 DEF Todo, Preview
  <2>2. items \in Seq(Items(source)) /\ \A k \in DOMAIN files : \A x \in Range(files[k]) : x \in Range(items)
    BY <1>1, FlattenedHolds
  <2>3. all \in Seq(made)
        /\ \A n \in DOMAIN items : \A b \in Range(Records(source, scope, items[n])) : b \in Range(all)
    BY <2>2, AllRecordsAreMade
  <2>4. ASSUME NEW b \in made PROVE b \in Range(all)
    <3>1. PICK k \in DOMAIN files : \E j \in DOMAIN files[k] :
            b \in Range(Records(source, scope, files[k][j]))
      BY MadeOfFiles
    <3>2. PICK j \in DOMAIN files[k] : b \in Range(Records(source, scope, files[k][j]))
      BY <3>1
    <3>3. files[k][j] \in Range(items)
      BY <2>2 DEF Range
    <3>4. PICK n \in DOMAIN items : items[n] = files[k][j]
      BY <3>3 DEF Range
    <3> QED
      BY <2>3, <3>2, <3>4
  <2> HIDE DEF all
  <2>5. CASE all = <<>>
    <3>1. made = {}
      BY <2>4, <2>5 DEF Range
    <3> QED
      BY <2>1, <2>5, <3>1
  <2>6. CASE all # <<>>
    <3>1. Todo(source, scope) = << all >>
      BY <2>1, <2>6
    <3>2. << all >> \in Seq(Seq(made)) /\ Len(<< all >>) = 1 /\ 1 \in DOMAIN << all >> /\ << all >>[1] = all
      BY <2>3
    <3> QED
      BY <2>4, <3>1, <3>2
  <2> QED
    BY <2>5, <2>6
<1> QED
  BY <1>3, <1>4

(* A record of a source is its id, its text and its scope.                 *)
LEMMA MadeAreRecords ==
  ASSUME NEW source \in Sources, NEW scope, NEW b \in Made(source, scope)
  PROVE  b = [id |-> b.id, text |-> b.text, scope |-> b.scope]
<1>1. PICK item \in Items(source) : b \in Range(Records(source, scope, item))
  BY DEF Made
<1>2. source.form \in {"legacy", "notes", "claude-mem"} /\ Readable(item)
  BY <1>1, SourcesAssumption DEF Records, Range
<1>3. CASE source.form = "legacy"
  BY <1>1, <1>2, <1>3 DEF Records, LegacyRecord, Range
<1>4. CASE source.form = "notes"
  <2>1. PICK n \in DOMAIN NoteRecords(scope, item) : b = NoteRecords(scope, item)[n]
    BY <1>1, <1>2, <1>4 DEF Records, Range
  <2> QED
    BY <2>1 DEF NoteRecords
<1>5. CASE source.form = "claude-mem"
  BY <1>1, <1>2, <1>5 DEF Records, ObservationRecord, Range
<1> QED
  BY <1>2, <1>3, <1>4, <1>5

(* The last of some places of a sequence.                                  *)
LEMMA GreatestPlace ==
  ASSUME NEW L \in Nat, NEW T \in SUBSET (1..L), T # {}
  PROVE  Max(T) \in T
<1> DEFINE below == {L - n : n \in T}
<1>1. below \in SUBSET Nat /\ below # {}
  <2>1. \A n \in T : n \in 1..L /\ L - n \in Nat
    OBVIOUS
  <2> QED
    BY <2>1
<1>2. PICK d \in below : \A e \in below : d <= e
  BY <1>1, LeastNumber
<1>3. PICK n \in T : d = L - n
  BY <1>2
<1>4. \A k \in T : k <= n
  BY <1>2, <1>3
<1> QED
  BY <1>3, <1>4 DEF Max

(* What a batch leaves behind: with an id of its own a record of it, and   *)
(* what was there with any other.                                          *)
Leaves(f, batch, made, g) ==
  /\ DOMAIN g = DOMAIN f \cup Ids(batch)
  /\ \A i \in DOMAIN f \ Ids(batch) : g[i] = f[i]
  /\ \A i \in Ids(batch) : \E b \in made :
       b.id = i /\ g[i] = [text |-> b.text, scope |-> b.scope, held |-> FALSE]

LEMMA PutAllLeaves ==
  ASSUME NEW made, NEW batch \in Seq(made), NEW f
  PROVE  Leaves(f, batch, made, PutAll(f, batch))
<1> DEFINE g == PutAll(f, batch)
           places(i) == {n \in DOMAIN batch : batch[n].id = i}
<1>1. /\ DOMAIN g = DOMAIN f \cup Ids(batch)
      /\ \A i \in DOMAIN f \ Ids(batch) : g[i] = f[i]
  BY DEF PutAll
<1>2. ASSUME NEW i \in Ids(batch)
      PROVE  \E b \in made :
               b.id = i /\ g[i] = [text |-> b.text, scope |-> b.scope, held |-> FALSE]
  <2>1. Len(batch) \in Nat /\ DOMAIN batch = 1..Len(batch)
    OBVIOUS
  <2>2. places(i) \in SUBSET (1..Len(batch)) /\ places(i) # {}
    BY <1>2, <2>1 DEF Ids, Range
  <2>3. Max(places(i)) \in places(i)
    BY <2>1, <2>2, GreatestPlace
  <2>4. batch[Max(places(i))] \in made
    BY <2>1, <2>3
  <2>5. g[i] = LET b == batch[Max(places(i))]
               IN  [text |-> b.text, scope |-> b.scope, held |-> FALSE]
    BY <1>2 DEF PutAll
  <2> QED
    BY <2>3, <2>4, <2>5
<1> QED
  BY <1>1, <1>2 DEF Leaves

(* So every record of the batch has landed, and what had landed before is  *)
(* still what the source makes.                                            *)
LEMMA BatchLands ==
  ASSUME NEW s, NEW source \in Sources, NEW scope, NEW batch \in Seq(Made(source, scope)),
         memories'[s] = PutAll(memories[s], batch)
  PROVE  LET made == Made(source, scope) IN
         /\ \A b \in Range(batch) : Landed(s, made, b.id)'
         /\ \A i : Landed(s, made, i) => Landed(s, made, i)'
<1> DEFINE made == Made(source, scope)
           f == memories[s]
           g == memories'[s]
<1>0. g = PutAll(f, batch)
  OBVIOUS
<1> HIDE DEF f, g
<1>1. /\ DOMAIN g = DOMAIN f \cup Ids(batch)
      /\ \A i \in DOMAIN f \ Ids(batch) : g[i] = f[i]
      /\ \A i \in Ids(batch) : \E b \in made :
           b.id = i /\ g[i] = [text |-> b.text, scope |-> b.scope, held |-> FALSE]
  <2>1. Leaves(f, batch, made, g)
    BY <1>0, PutAllLeaves
  <2> QED
    BY <2>1 DEF Leaves
<1>2. ASSUME NEW i \in Ids(batch) PROVE Landed(s, made, i)'
  <2>1. PICK b \in made :
          b.id = i /\ g[i] = [text |-> b.text, scope |-> b.scope, held |-> FALSE]
    BY <1>1, <1>2
  <2>2. b = [id |-> b.id, text |-> b.text, scope |-> b.scope]
    BY MadeAreRecords
  <2> QED
    BY <1>1, <1>2, <2>1, <2>2 DEF Landed, Stored, f, g
<1>3. ASSUME NEW i, Landed(s, made, i) PROVE Landed(s, made, i)'
  BY <1>1, <1>2, <1>3 DEF Landed, Stored, f, g
<1>4. \A b \in Range(batch) : b.id \in Ids(batch)
  BY DEF Ids
<1> QED
  BY <1>2, <1>3, <1>4

(* A batch of which everything is there already changes nothing.           *)
LEMMA BatchRepeated ==
  ASSUME NEW f, AreRows(f), NEW made, NEW batch \in Seq(made),
         \A b, c \in made : b.id = c.id => b = c,
         \A b \in made : /\ b.id \in DOMAIN f /\ ~f[b.id].held
                         /\ [id |-> b.id, text |-> f[b.id].text, scope |-> f[b.id].scope] \in made
  PROVE  PutAll(f, batch) = f
<1> DEFINE g == PutAll(f, batch)
<1>0. g = PutAll(f, batch) /\ g = [i \in DOMAIN g |-> g[i]]
  BY DEF PutAll
<1> HIDE DEF g
<1>1. /\ DOMAIN g = DOMAIN f \cup Ids(batch)
      /\ \A i \in DOMAIN f \ Ids(batch) : g[i] = f[i]
      /\ \A i \in Ids(batch) : \E b \in made :
           b.id = i /\ g[i] = [text |-> b.text, scope |-> b.scope, held |-> FALSE]
  <2>1. Leaves(f, batch, made, g)
    BY <1>0, PutAllLeaves
  <2> QED
    BY <2>1 DEF Leaves
<1>2. ASSUME NEW i \in Ids(batch) PROVE i \in DOMAIN f /\ g[i] = f[i]
  <2>1. PICK b \in made :
          b.id = i /\ g[i] = [text |-> b.text, scope |-> b.scope, held |-> FALSE]
    BY <1>1, <1>2
  <2>2. i \in DOMAIN f /\ ~f[i].held
        /\ [id |-> i, text |-> f[i].text, scope |-> f[i].scope] \in made
    BY <2>1
  <2>3. b = [id |-> i, text |-> f[i].text, scope |-> f[i].scope]
    BY <2>1, <2>2
  <2>4. f[i] = [text |-> f[i].text, scope |-> f[i].scope, held |-> f[i].held]
        /\ f[i].held \in BOOLEAN
    BY <2>2, RowsAre
  <2> QED
    BY <2>1, <2>2, <2>3, <2>4
<1>3. f = [i \in DOMAIN f |-> f[i]]
  BY RowsAre
<1>4. DOMAIN g = DOMAIN f /\ \A i \in DOMAIN f : g[i] = f[i]
  BY <1>1, <1>2
<1>5. g = f
  BY <1>0, <1>3, <1>4
<1> QED
  BY <1>0, <1>5

-----------------------------------------------------------------------------
(* An import, step by step.                                                *)

LEMMA ImportInit == Init => ImportInv
<1> SUFFICES ASSUME Init PROVE ImportInv
  OBVIOUS
<1>1. job["import"] = None /\ lastImport = None
  BY DEF Init, Jobs
<1> QED
  BY <1>1 DEF ImportInv, ImportFits, LastImportFits

(* The records a source makes have landed where they were while nobody     *)
(* writes there.                                                           *)
LEMMA LandedStays ==
  ASSUME NEW s, NEW made, NEW i, Landed(s, made, i), memories'[s] = memories[s]
  PROVE  Landed(s, made, i)'
BY DEF Landed, Stored

(* A step that begins no import and does none of its work: if it writes to *)
(* a store, it disturbs the import there and is the last to write there.   *)
LEMMA ImportWaits ==
  ASSUME ImportInv,
         job'["import"] \in {None, job["import"]},
         lastImport' \in {None, lastImport},
         lastImport' # None => memories'[lastImport.store] = memories[lastImport.store],
         job'["import"] # None =>
           \/ "import" \in disturbed'
           \/ /\ "import" \notin disturbed
              /\ memories'[job["import"].store] = memories[job["import"].store]
  PROVE  ImportInv'
<1> DEFINE m == job["import"]
           made == Made(m.source, m.scope)
<1>1. ImportFits /\ LastImportFits
  BY DEF ImportInv
<1>2. ImportFits'
  <2> SUFFICES ASSUME job'["import"] # None PROVE ImportFits'
    BY DEF ImportFits
  <2>1. job'["import"] = m /\ m # None
    OBVIOUS
  <2>2. /\ m = [store |-> m.store, source |-> m.source, scope |-> m.scope,
                todo |-> m.todo, existing |-> m.existing, ask |-> m.ask]
        /\ ThisImport(m) \in Imports
        /\ m.todo \in Seq(Seq(made)) \ {<<>>} /\ m.ask \in Seq(made) /\ m.existing \in Nat
        /\ m.source.form # "legacy" => Len(m.todo) = 1
    BY <1>1, <2>1 DEF ImportFits
  <2>3. lastImport' = ThisImport(m) => lastImport = ThisImport(m)
    BY <2>2, NoneIsNothing
  <2>4. "import" \notin disturbed' =>
          \A b \in made : \/ \E n \in DOMAIN m.todo : b \in Range(m.todo[n])
                         \/ Landed(m.store, made, b.id)'
    BY <1>1, <2>1, LandedStays DEF ImportFits
  <2>5. m.source.form # "legacy" /\ "import" \notin disturbed' /\ lastImport' = ThisImport(m) =>
          m.existing + Len(m.ask) = Len(m.todo[1])
    BY <1>1, <2>1, <2>3 DEF ImportFits
  <2> QED
    BY <2>1, <2>2, <2>4, <2>5 DEF ImportFits
<1>3. LastImportFits'
  <2> SUFFICES ASSUME lastImport' # None PROVE LastImportFits'
    BY DEF LastImportFits
  <2>1. lastImport' = lastImport
    OBVIOUS
  <2>2. \A b \in Made(lastImport.source, lastImport.scope) :
          Landed(lastImport.store, Made(lastImport.source, lastImport.scope), b.id)
    BY <1>1, <2>1 DEF LastImportFits
  <2>3. \A b \in Made(lastImport.source, lastImport.scope) :
          Landed(lastImport.store, Made(lastImport.source, lastImport.scope), b.id)'
    BY <2>1, <2>2, LandedStays
  <2> QED
    BY <2>1, <2>3 DEF LastImportFits
<1> QED
  BY <1>2, <1>3 DEF ImportInv

(* An import that begins has everything still to do.                       *)
LEMMA ImportBegins ==
  ASSUME TransferInv, ImportInv,
         NEW s \in Store, NEW source \in Sources, NEW scope \in Scopes,
         ImportBegin(s, source, scope)
  PROVE  ImportInv'
<1> DEFINE made == Made(source, scope)
           todo == Todo(source, scope)
           m == [store |-> s, source |-> source, scope |-> scope, todo |-> todo, existing |-> 0,
                 ask |-> IF source.form = "legacy" THEN <<>> ELSE todo[1]]
<1>1. job = [k \in Jobs |-> job[k]]
  BY DEF TransferInv, ShapesFit
<1>2. /\ todo # <<>> /\ job'["import"] = m /\ job["import"] = None
      /\ UNCHANGED <<memories, lastImport>>
  BY <1>1 DEF ImportBegin, Start, MayStart, stores, Jobs
<1>3. /\ todo \in Seq(Seq(made))
      /\ \A b \in made : \E n \in DOMAIN todo : b \in Range(todo[n])
      /\ source.form # "legacy" => Len(todo) = 1
  BY <1>2, TodoHolds
<1> HIDE DEF made, todo
<1>4. ThisImport(m) \in Imports /\ ThisImport(m) = [store |-> s, source |-> source, scope |-> scope]
  BY DEF ThisImport, Imports
<1>5. todo[1] \in Seq(made)
  BY <1>2, <1>3
<1>6. m.ask \in Seq(made) /\ (source.form # "legacy" => m.existing + Len(m.ask) = Len(todo[1]))
  <2>1. Len(todo[1]) \in Nat
    BY <1>5
  <2> QED
    BY <1>5, <2>1
<1>7. ImportFits'
  BY <1>2, <1>3, <1>4, <1>6 DEF ImportFits, made
<1>8. LastImportFits'
  BY <1>2 DEF ImportInv, LastImportFits, Landed, Stored
<1> QED
  BY <1>7, <1>8 DEF ImportInv

LEMMA Counted ==
  ASSUME NEW m, NEW d,
         m = [store |-> m.store, source |-> m.source, scope |-> m.scope,
              todo |-> m.todo, existing |-> m.existing, ask |-> m.ask]
  PROVE  [m EXCEPT !.ask = Tail(@), !.existing = @ + d]
           = [store |-> m.store, source |-> m.source, scope |-> m.scope,
              todo |-> m.todo, existing |-> m.existing + d, ask |-> Tail(m.ask)]
<1> DEFINE r == [m EXCEPT !.ask = Tail(@), !.existing = @ + d]
<1>1. DOMAIN m = {"store", "source", "scope", "todo", "existing", "ask"}
  OBVIOUS
<1>2. r = [x \in DOMAIN m |-> IF x = "existing" THEN m.existing + d
                             ELSE IF x = "ask" THEN Tail(m.ask) ELSE m[x]]
  BY <1>1
<1> HIDE DEF r
<1>3. /\ r.store = m.store /\ r.source = m.source /\ r.scope = m.scope /\ r.todo = m.todo
      /\ r.existing = m.existing + d /\ r.ask = Tail(m.ask)
  BY <1>1, <1>2
<1>4. r = [x \in {"store", "source", "scope", "todo", "existing", "ask"} |-> r[x]]
  BY <1>1, <1>2
<1>5. r = [store |-> r.store, source |-> r.source, scope |-> r.scope,
           todo |-> r.todo, existing |-> r.existing, ask |-> r.ask]
  BY <1>4
<1> QED
  BY <1>3, <1>5 DEF r

(* Each record an import asks for is there if it repeats the last one.     *)
LEMMA CountingExisting ==
  ASSUME TransferInv, ImportInv, CountExisting
  PROVE  ImportInv'
<1> DEFINE m == job["import"]
           made == Made(m.source, m.scope)
           n == [m EXCEPT !.ask = Tail(@),
                          !.existing = @ + IF Head(m.ask).id \in Stored(m.store) THEN 1 ELSE 0]
           d == IF Head(m.ask).id \in Stored(m.store) THEN 1 ELSE 0
<1>1. job = [k \in Jobs |-> job[k]]
  BY DEF TransferInv, ShapesFit
<1>2. m # None /\ m.ask # <<>> /\ job'["import"] = n
      /\ UNCHANGED <<memories, disturbed, lastImport>>
  BY <1>1 DEF CountExisting, stores, ghosts, Jobs
<1>3. /\ m = [store |-> m.store, source |-> m.source, scope |-> m.scope,
              todo |-> m.todo, existing |-> m.existing, ask |-> m.ask]
      /\ ThisImport(m) \in Imports
      /\ m.todo \in Seq(Seq(made)) \ {<<>>} /\ m.ask \in Seq(made) /\ m.existing \in Nat
      /\ m.source.form # "legacy" => Len(m.todo) = 1
      /\ "import" \notin disturbed =>
           \A b \in made : \/ \E k \in DOMAIN m.todo : b \in Range(m.todo[k])
                          \/ Landed(m.store, made, b.id)
      /\ m.source.form # "legacy" /\ "import" \notin disturbed /\ lastImport = ThisImport(m) =>
           m.existing + Len(m.ask) = Len(m.todo[1])
  BY <1>2 DEF ImportInv, ImportFits
<1> HIDE DEF m, made
<1>4. /\ n = [store |-> m.store, source |-> m.source, scope |-> m.scope,
              todo |-> m.todo, existing |-> n.existing, ask |-> Tail(m.ask)]
      /\ n.existing = m.existing + IF Head(m.ask).id \in Stored(m.store) THEN 1 ELSE 0
  <2>1. n = [m EXCEPT !.ask = Tail(@), !.existing = @ + d]
    OBVIOUS
  <2> HIDE DEF d, n
  <2>2. n = [store |-> m.store, source |-> m.source, scope |-> m.scope,
             todo |-> m.todo, existing |-> m.existing + d, ask |-> Tail(m.ask)]
    BY <1>3, <2>1, Counted
  <2> QED
    BY <2>2 DEF d
<1>5. Head(m.ask) \in made /\ Tail(m.ask) \in Seq(made) /\ Len(m.ask) \in Nat
      /\ Len(Tail(m.ask)) = Len(m.ask) - 1
  BY <1>2, <1>3, HeadTailProperties
<1>6. lastImport = ThisImport(m) => Head(m.ask).id \in Stored(m.store)
  <2> SUFFICES ASSUME lastImport = ThisImport(m) PROVE Head(m.ask).id \in Stored(m.store)
    OBVIOUS
  <2>1. lastImport # None
    BY <1>3, NoneIsNothing
  <2>2. lastImport.store = m.store /\ lastImport.source = m.source /\ lastImport.scope = m.scope
    BY DEF ThisImport
  <2>3. Landed(m.store, made, Head(m.ask).id)
    BY <1>5, <2>1, <2>2 DEF ImportInv, LastImportFits, made
  <2> QED
    BY <2>3 DEF Landed
<1> HIDE DEF n
<1>7. ThisImport(n) = ThisImport(m)
  BY <1>4 DEF ThisImport
<1>8. n.existing \in Nat
      /\ (m.source.form # "legacy" /\ "import" \notin disturbed /\ lastImport = ThisImport(m) =>
            n.existing + Len(Tail(m.ask)) = Len(m.todo[1]))
  BY <1>3, <1>4, <1>5, <1>6
<1>9. ImportFits'
  <2>1. n.store = m.store /\ n.source = m.source /\ n.scope = m.scope /\ n.todo = m.todo
        /\ n.ask = Tail(m.ask)
    BY <1>4
  <2>2. \A s, all, i : Landed(s, all, i) => Landed(s, all, i)'
    BY <1>2 DEF Landed, Stored
  <2>3. Made(n.source, n.scope) = made
    BY <2>1 DEF made
  <2>4. n = [store |-> n.store, source |-> n.source, scope |-> n.scope,
             todo |-> n.todo, existing |-> n.existing, ask |-> n.ask]
    BY <1>4, <2>1
  <2> QED
    BY <1>2, <1>3, <1>5, <1>7, <1>8, <2>1, <2>2, <2>3, <2>4 DEF ImportFits
<1>10. LastImportFits'
  BY <1>2 DEF ImportInv, LastImportFits, Landed, Stored
<1> QED
  BY <1>9, <1>10 DEF ImportInv

(* What ImportFits says of an import that is at work, and what its batch   *)
(* does of its todo: the batch and what is left are all there is.          *)
ImportAtWork(m) ==
  LET made == Made(m.source, m.scope) IN
  /\ m = [store |-> m.store, source |-> m.source, scope |-> m.scope,
          todo |-> m.todo, existing |-> m.existing, ask |-> m.ask]
  /\ ThisImport(m) \in Imports
  /\ m.todo \in Seq(Seq(made)) \ {<<>>} /\ m.existing \in Nat
  /\ m.source.form # "legacy" => Len(m.todo) = 1

(* The batch that is next and those after it are all there is to do.       *)
LEMMA BatchAndRest ==
  ASSUME NEW S, NEW todo \in Seq(Seq(S)), todo # <<>>
  PROVE  /\ Head(todo) \in Seq(S) /\ Head(todo) = todo[1] /\ Len(todo) \in Nat \ {0}
         /\ Tail(todo) \in Seq(Seq(S))
         /\ Len(todo) # 1 => Tail(todo) # <<>>
         /\ \A b : (\E n \in DOMAIN todo : b \in Range(todo[n])) =>
              \/ b \in Range(Head(todo))
              \/ Len(todo) # 1 /\ \E n \in DOMAIN Tail(todo) : b \in Range(Tail(todo)[n])
<1>1. /\ Head(todo) \in Seq(S) /\ Tail(todo) \in Seq(Seq(S))
      /\ Len(Tail(todo)) = Len(todo) - 1
      /\ \A n \in 1..Len(Tail(todo)) : Tail(todo)[n] = todo[n + 1]
  BY HeadTailProperties
<1>2. Len(todo) \in Nat /\ DOMAIN todo = 1..Len(todo) /\ Head(todo) = todo[1]
      /\ DOMAIN Tail(todo) = 1..Len(Tail(todo))
  BY <1>1
<1>3. Len(todo) # 0
  BY EmptySeq
<1>4. Len(todo) # 1 => Tail(todo) # <<>>
  <2>1. Len(todo) # 1 => Len(Tail(todo)) # 0
    BY <1>1, <1>2
  <2> QED
    BY <1>1, <2>1, EmptySeq
<1>5. ASSUME NEW b, NEW n \in DOMAIN todo, b \in Range(todo[n]), b \notin Range(Head(todo))
      PROVE  Len(todo) # 1 /\ \E k \in DOMAIN Tail(todo) : b \in Range(Tail(todo)[k])
  <2>1. n # 1
    BY <1>2, <1>5
  <2>2. Len(todo) # 1 /\ n - 1 \in 1..Len(Tail(todo)) /\ (n - 1) + 1 = n
    BY <1>1, <1>2, <2>1
  <2> QED
    BY <1>1, <1>2, <1>5, <2>2
<1> QED
  BY <1>1, <1>2, <1>3, <1>4, <1>5

LEMMA WorksAs ==
  ASSUME ImportInv, ImportBatch
  PROVE  ImportAtWork(job["import"])
BY DEF ImportInv, ImportFits, ImportBatch, ImportAtWork

LEMMA LessToDo ==
  ASSUME NEW m,
         m = [store |-> m.store, source |-> m.source, scope |-> m.scope,
              todo |-> m.todo, existing |-> m.existing, ask |-> m.ask]
  PROVE  [m EXCEPT !.todo = Tail(@)]
           = [store |-> m.store, source |-> m.source, scope |-> m.scope,
              todo |-> Tail(m.todo), existing |-> m.existing, ask |-> m.ask]
<1> DEFINE r == [m EXCEPT !.todo = Tail(@)]
<1>1. DOMAIN m = {"store", "source", "scope", "todo", "existing", "ask"}
  OBVIOUS
<1>2. r = [x \in DOMAIN m |-> IF x = "todo" THEN Tail(m.todo) ELSE m[x]]
  BY <1>1
<1> HIDE DEF r
<1>3. /\ r.store = m.store /\ r.source = m.source /\ r.scope = m.scope /\ r.ask = m.ask
      /\ r.existing = m.existing /\ r.todo = Tail(m.todo)
  BY <1>1, <1>2
<1>4. r = [x \in {"store", "source", "scope", "todo", "existing", "ask"} |-> r[x]]
  BY <1>1, <1>2
<1>5. r = [store |-> r.store, source |-> r.source, scope |-> r.scope,
           todo |-> r.todo, existing |-> r.existing, ask |-> r.ask]
  BY <1>4
<1> QED
  BY <1>3, <1>5 DEF r

(* What stands in a store after a batch of an import.                      *)
LEMMA ImportBatchLands ==
  ASSUME TransferInv, ImportInv, ImportBatch, NEW s, NEW source, NEW scope,
         job["import"].store = s, job["import"].source = source, job["import"].scope = scope
  PROVE  LET made == Made(source, scope) IN
         /\ \A b \in Range(Head(job["import"].todo)) : Landed(s, made, b.id)'
         /\ \A t, i : Landed(t, made, i) => Landed(t, made, i)'
<1> DEFINE m == job["import"]
<1>1. ImportAtWork(m)
  BY WorksAs
<1>2. memories = [t \in Store |-> memories[t]] /\ s \in Store /\ source \in Sources
  BY <1>1 DEF TransferInv, ShapesFit, ImportAtWork, ThisImport, Imports
<1>3. memories' = [memories EXCEPT ![m.store] = PutAll(@, Head(m.todo))]
  BY DEF ImportBatch
<1>4. PICK batch \in Seq(Made(source, scope)) : batch = Head(m.todo)
  BY <1>1, BatchAndRest DEF ImportAtWork
<1>5. memories'[s] = PutAll(memories[s], batch)
      /\ \A t : t # s => memories'[t] = memories[t]
  BY <1>2, <1>3, <1>4
<1>6. /\ \A b \in Range(batch) : Landed(s, Made(source, scope), b.id)'
      /\ \A i : Landed(s, Made(source, scope), i) => Landed(s, Made(source, scope), i)'
  BY <1>2, <1>5, BatchLands
<1>7. ASSUME NEW t, NEW i, Landed(t, Made(source, scope), i), t # s
      PROVE  Landed(t, Made(source, scope), i)'
  BY <1>5, <1>7, LandedStays
<1> QED
  BY <1>4, <1>6, <1>7

(* A batch moves records from what is to do to what has landed.            *)
LEMMA ImportBatchInv ==
  ASSUME TransferInv, ImportInv, ImportBatch
  PROVE  ImportInv'
<1> DEFINE m == job["import"]
<1>1. PICK s, source, scope : m.store = s /\ m.source = source /\ m.scope = scope
  OBVIOUS
<1> DEFINE made == Made(source, scope)
           this == [store |-> s, source |-> source, scope |-> scope]
           last == Len(m.todo) = 1
           n == [m EXCEPT !.todo = Tail(@)]
<1>2. ImportAtWork(m)
  BY WorksAs
<1>3. /\ m = [store |-> s, source |-> source, scope |-> scope,
              todo |-> m.todo, existing |-> m.existing, ask |-> m.ask]
      /\ this \in Imports /\ ThisImport(m) = this
      /\ m.todo \in Seq(Seq(made)) \ {<<>>} /\ m.existing \in Nat
      /\ source.form # "legacy" => last
  BY <1>1, <1>2 DEF ImportAtWork, ThisImport
<1>4. /\ Head(m.todo) \in Seq(made)
      /\ Tail(m.todo) \in Seq(Seq(made))
      /\ ~last => Tail(m.todo) # <<>>
      /\ \A b : (\E k \in DOMAIN m.todo : b \in Range(m.todo[k])) =>
           \/ b \in Range(Head(m.todo))
           \/ ~last /\ \E k \in DOMAIN Tail(m.todo) : b \in Range(Tail(m.todo)[k])
  BY <1>3, BatchAndRest
<1>5. /\ \A b \in Range(Head(m.todo)) : Landed(s, made, b.id)'
      /\ \A t, i : Landed(t, made, i) => Landed(t, made, i)'
  BY <1>1, ImportBatchLands
<1>6. "import" \notin disturbed =>
        \A b \in made : \/ \E k \in DOMAIN m.todo : b \in Range(m.todo[k])
                       \/ Landed(s, made, b.id)
  BY <1>1 DEF ImportInv, ImportFits, ImportBatch
<1>7. "import" \notin disturbed =>
        \A b \in made : \/ ~last /\ \E k \in DOMAIN Tail(m.todo) : b \in Range(Tail(m.todo)[k])
                       \/ Landed(s, made, b.id)'
  BY <1>4, <1>5, <1>6
<1>8. /\ job'["import"] = IF last THEN None ELSE n
      /\ "import" \in disturbed' <=> "import" \in disturbed
      /\ lastImport' = IF last /\ "import" \notin disturbed THEN this
                       ELSE IF lastImport = this THEN lastImport ELSE None
      /\ m.ask = <<>>
  BY <1>3 DEF TransferInv, ShapesFit, ImportBatch, Disturb, Jobs
<1>9. n = [store |-> s, source |-> source, scope |-> scope,
           todo |-> Tail(m.todo), existing |-> m.existing, ask |-> <<>>]
  <2> HIDE DEF m
  <2>1. m = [store |-> m.store, source |-> m.source, scope |-> m.scope,
             todo |-> m.todo, existing |-> m.existing, ask |-> m.ask]
        /\ m.store = s /\ m.source = source /\ m.scope = scope
    BY <1>3
  <2>2. n = [store |-> m.store, source |-> m.source, scope |-> m.scope,
             todo |-> Tail(m.todo), existing |-> m.existing, ask |-> m.ask]
    BY <2>1, LessToDo
  <2> QED
    BY <1>8, <2>1, <2>2
<1> HIDE DEF m, made, n, last
<1>10. ImportFits'
  <2> SUFFICES ASSUME job'["import"] # None PROVE ImportFits'
    BY DEF ImportFits
  <2>1. job'["import"] = n /\ ~last
    BY <1>8
  <2>2. n.store = s /\ n.source = source /\ n.scope = scope /\ n.todo = Tail(m.todo)
        /\ n.existing = m.existing /\ n.ask = <<>>
    BY <1>9
  <2>3. ThisImport(n) = this
    BY <2>2 DEF ThisImport
  <2>4. source.form = "legacy" /\ <<>> \in Seq(made) /\ Tail(m.todo) # <<>>
    BY <1>3, <1>4, <2>1
  <2>5. n = [store |-> n.store, source |-> n.source, scope |-> n.scope,
             todo |-> n.todo, existing |-> n.existing, ask |-> n.ask]
    BY <1>9, <2>2
  <2> QED
    BY <1>3, <1>4, <1>7, <1>8, <2>1, <2>2, <2>3, <2>4, <2>5 DEF ImportFits, made
<1>11. LastImportFits'
  <2> SUFFICES ASSUME lastImport' # None PROVE LastImportFits'
    BY DEF LastImportFits
  <2>1. lastImport' = this
    BY <1>8
  <2>2. \A b \in made : Landed(s, made, b.id)'
    <3>1. CASE last /\ "import" \notin disturbed
      BY <1>7, <3>1
    <3>2. CASE lastImport = this
      <4>1. \A b \in made : Landed(s, made, b.id)
        BY <1>3, <3>2, NoneIsNothing DEF ImportInv, LastImportFits, made
      <4> QED
        BY <1>5, <4>1
    <3> QED
      BY <1>8, <2>1, <3>1, <3>2
  <2> QED
    BY <2>1, <2>2 DEF LastImportFits, made
<1> QED
  BY <1>10, <1>11 DEF ImportInv

(* Whoever writes to a store says so to the import at work there.          *)
LEMMA WriterTellsImport ==
  ASSUME ImportInv, NEW s, NEW kind, kind # "import", Touches(s, kind),
         job'["import"] = job["import"],
         \A t : t # s => memories'[t] = memories[t]
  PROVE  ImportInv'
<1>1. /\ job["import"] # None /\ job["import"].store = s => "import" \in disturbed'
      /\ "import" \in disturbed => "import" \in disturbed'
      /\ lastImport' \in {None, lastImport}
      /\ lastImport' # None => lastImport.store # s
  BY DEF Touches, Disturb, Jobs
<1>2. job'["import"] # None =>
        \/ "import" \in disturbed'
        \/ /\ "import" \notin disturbed
           /\ memories'[job["import"].store] = memories[job["import"].store]
  BY <1>1
<1> QED
  BY <1>1, <1>2, ImportWaits

(* A step that writes to no memory and begins no import.                   *)
LEMMA ImportLeftAlone ==
  ASSUME ImportInv, UNCHANGED <<memories, lastImport>>,
         job'["import"] \in {None, job["import"]},
         "import" \in disturbed => "import" \in disturbed'
  PROVE  ImportInv'
BY ImportWaits

LEMMA ImportStep == TransferInv /\ ImportInv /\ [Next]_vars => ImportInv'
<1> SUFFICES ASSUME TransferInv, ImportInv, [Next]_vars
             PROVE  ImportInv'
  OBVIOUS
<1>1. memories = [s \in Store |-> memories[s]] /\ job = [k \in Jobs |-> job[k]]
      /\ None # "import"
  BY NoneIsNothing DEF TransferInv, ShapesFit, Jobs
<1> DEFINE Quiet == /\ UNCHANGED <<memories, lastImport>>
                    /\ job'["import"] \in {None, job["import"]}
                    /\ "import" \in disturbed => "import" \in disturbed'
           WritesAt(s, kind) == /\ Touches(s, kind) /\ kind # "import"
                               /\ job'["import"] = job["import"]
                               /\ \A t : t # s => memories'[t] = memories[t]
<1>2. Quiet => ImportInv'
  BY ImportLeftAlone
<1>3. \A s, kind : WritesAt(s, kind) => ImportInv'
  BY WriterTellsImport
<1>4. CASE Agents
  <2>1. ASSUME NEW s \in Store, NEW i, NEW held, NEW counted, Remember(s, i, held, counted)
        PROVE  WritesAt(s, None)
    BY <1>1, <2>1 DEF Remember, Call
  <2>2. ASSUME NEW s \in Store, NEW e, NEW verdict, NEW slot, Resolve(s, e, verdict, slot)
        PROVE  WritesAt(s, None)
    BY <1>1, <2>2 DEF Resolve, Call
  <2>3. ASSUME NEW s \in Store, RecallBegin(s) PROVE Quiet
    BY <2>3 DEF RecallBegin, Call, stores
  <2>4. ASSUME NEW r \in recalls, NEW size, SaveReceipt(r, size) PROVE Quiet
    BY <2>4 DEF SaveReceipt, Disturb
  <2>5. ASSUME NEW s \in Store, NEW retain, Prune(s, retain) PROVE Quiet
    BY <2>5 DEF Prune, Disturb, Call
  <2> HIDE DEF Quiet, WritesAt
  <2> QED
    BY <1>2, <1>3, <1>4, <2>1, <2>2, <2>3, <2>4, <2>5 DEF Agents
<1>5. CASE Export
  <2>1. Quiet
    BY <1>1, <1>5 DEF Export, ExportBegin, ExportRecords, ExportReceipts, ExportEntries,
                      ExportSeal, Start, stores, ghosts, Jobs
  <2> QED
    BY <1>2, <2>1
<1>6. CASE Restore
  <2>1. ASSUME NEW s \in Store, RestoreBegin(s) PROVE Quiet
    BY <1>1, <2>1 DEF RestoreBegin, Start, stores, Jobs
  <2>2. ASSUME job["restore"] # None, NEW batch, RestoreBatch(batch) PROVE ImportInv'
    <3> DEFINE r == job["restore"]
    <3>1. job'["import"] = job["import"]
      BY <1>1, <2>2 DEF RestoreBatch, Jobs
    <3>2. CASE batch \cap Stored(r.store) # {}
      <4>1. Quiet
        BY <2>2, <3>1, <3>2 DEF RestoreBatch
      <4> QED
        BY <1>2, <4>1
    <3>3. CASE batch \cap Stored(r.store) = {}
      <4>1. Touches(r.store, "restore")
            /\ \E rows : memories' = [memories EXCEPT ![r.store] = rows]
        BY <2>2, <3>3 DEF RestoreBatch
      <4>2. WritesAt(r.store, "restore")
        BY <1>1, <3>1, <4>1
      <4> QED
        BY <1>3, <4>2
    <3> QED
      BY <3>2, <3>3
  <2>3. CASE RestoreRest
    <3>1. WritesAt(job["restore"].store, "restore")
      BY <1>1, <2>3 DEF RestoreRest, Jobs
    <3> QED
      BY <1>3, <3>1
  <2> HIDE DEF Quiet, WritesAt
  <2> QED
    BY <1>2, <1>6, <2>1, <2>2, <2>3 DEF Restore
<1>7. CASE Import
  BY <1>7, ImportBegins, CountingExisting, ImportBatchInv DEF Import
<1>8. CASE Assign
  <2>1. ASSUME NEW s \in Store, AssignBegin(s) PROVE Quiet
    BY <1>1, <2>1 DEF AssignBegin, Start, stores, Jobs
  <2>2. ASSUME job["assign"] # None, NEW batch, AssignBatch(batch) PROVE ImportInv'
    <3> DEFINE a == job["assign"]
    <3>1. job'["import"] = job["import"]
      BY <1>1, <2>2 DEF AssignBatch, Jobs
    <3>2. CASE batch = {}
      <4>1. AreRows(memories[a.store]) /\ a.store \in Store
        BY <2>2 DEF TransferInv, ShapesFit, WorksOn, Jobs
      <4>2. memories[a.store] = [i \in DOMAIN memories[a.store] |-> memories[a.store][i]]
        BY <4>1, RowsAre
      <4>3. memories' = memories
        BY <1>1, <2>2, <3>2, <4>1, <4>2 DEF AssignBatch
      <4>4. Quiet
        BY <2>2, <3>1, <3>2, <4>3 DEF AssignBatch
      <4> QED
        BY <1>2, <4>4
    <3>3. CASE batch # {}
      <4>1. Touches(a.store, "assign")
            /\ \E rows : memories' = [memories EXCEPT ![a.store] = rows]
        BY <2>2, <3>3 DEF AssignBatch
      <4>2. WritesAt(a.store, "assign")
        BY <1>1, <3>1, <4>1
      <4> QED
        BY <1>3, <4>2
    <3> QED
      BY <3>2, <3>3
  <2> HIDE DEF Quiet, WritesAt
  <2> QED
    BY <1>2, <1>8, <2>1, <2>2 DEF Assign, AssignNext
<1>9. CASE Damage
  <2>1. Quiet
    BY <1>9 DEF Damage, Call, stores
  <2> QED
    BY <1>2, <2>1
<1>10. CASE \E kind \in Jobs : Die(kind)
  <2>1. Quiet
    BY <1>1, <1>10 DEF Die, stores, ghosts, Jobs
  <2> QED
    BY <1>2, <2>1
<1>11. CASE UNCHANGED vars
  <2>1. Quiet
    BY <1>11 DEF vars, stores, ghosts
  <2> QED
    BY <1>2, <2>1
<1> QED
  BY <1>4, <1>5, <1>6, <1>7, <1>8, <1>9, <1>10, <1>11 DEF Next

LEMMA ImportInvariant == Spec => []ImportInv
  BY ImportInit, ImportStep, TransferInvariant, PTL DEF Spec

(* When an import ends that nobody disturbed, every readable item of its   *)
(* source is in the store, whatever the size of its batches; and an import *)
(* that is repeated before anybody else writes changes no memory, and says *)
(* of every record that it was there.                                      *)
THEOREM ImportsAreRepeatable == Spec => ImportIsRepeatable
<1> DEFINE Complete(m, made) ==
             "import" \notin disturbed /\ Len(m.todo) = 1 =>
               \A i \in {b.id : b \in made} :
                 /\ i \in DOMAIN memories'[m.store]
                 /\ [id |-> i, text |-> memories'[m.store][i].text,
                     scope |-> memories'[m.store][i].scope] \in made
           Same(m, made) ==
             lastImport = ThisImport(m) /\ (\A b, c \in made : b.id = c.id => b = c)
               => /\ memories' = memories
                  /\ m.source.form # "legacy" /\ "import" \notin disturbed =>
                       m.existing = Len(Head(m.todo))
           Repeatable == LET m == job["import"]
                             made == Made(m.source, m.scope)
                         IN  Complete(m, made) /\ Same(m, made)
<1>1. ASSUME TransferInv, ImportInv, ImportBatch PROVE Repeatable
  <2> DEFINE m == job["import"]
  <2>1. PICK s, source, scope : m.store = s /\ m.source = source /\ m.scope = scope
    OBVIOUS
  <2> DEFINE made == Made(source, scope)
  <2>2. ImportAtWork(m)
    BY <1>1, WorksAs
  <2>3. m.todo \in Seq(Seq(made)) \ {<<>>} /\ ThisImport(m) \in Imports /\ s \in Store
        /\ ThisImport(m) = [store |-> s, source |-> source, scope |-> scope]
    BY <2>1, <2>2 DEF ImportAtWork, ThisImport, Imports
  <2>4. /\ Head(m.todo) \in Seq(made) /\ Head(m.todo) = m.todo[1]
        /\ \A b : (\E k \in DOMAIN m.todo : b \in Range(m.todo[k])) =>
             b \in Range(Head(m.todo)) \/ Len(m.todo) # 1
    BY <2>3, BatchAndRest
  <2>5. Complete(m, made)
    <3>1. /\ \A b \in Range(Head(m.todo)) : Landed(s, made, b.id)'
          /\ \A t, i : Landed(t, made, i) => Landed(t, made, i)'
      BY <1>1, <2>1, ImportBatchLands
    <3>2. "import" \notin disturbed =>
            \A b \in made : \/ \E k \in DOMAIN m.todo : b \in Range(m.todo[k])
                           \/ Landed(s, made, b.id)
      BY <1>1, <2>1 DEF ImportInv, ImportFits, ImportBatch
    <3>3. "import" \notin disturbed /\ Len(m.todo) = 1 =>
            \A b \in made : Landed(s, made, b.id)'
      BY <2>4, <3>1, <3>2
    <3> QED
      BY <2>1, <3>3 DEF Landed, Stored
  <2>6. Same(m, made)
    <3> SUFFICES ASSUME lastImport = ThisImport(m), \A b, c \in made : b.id = c.id => b = c
                 PROVE  /\ memories' = memories
                        /\ m.source.form # "legacy" /\ "import" \notin disturbed =>
                             m.existing = Len(Head(m.todo))
      OBVIOUS
    <3>1. lastImport # None
      BY <2>3, NoneIsNothing
    <3>2. \A b \in made : Landed(s, made, b.id)
      BY <1>1, <2>3, <3>1 DEF ImportInv, LastImportFits
    <3>3. AreRows(memories[s]) /\ memories = [t \in Store |-> memories[t]]
      BY <1>1, <2>3 DEF TransferInv, ShapesFit
    <3>4. \A b \in made : /\ b.id \in DOMAIN memories[s] /\ ~memories[s][b.id].held
                          /\ [id |-> b.id, text |-> memories[s][b.id].text,
                              scope |-> memories[s][b.id].scope] \in made
      BY <3>2 DEF Landed, Stored
    <3> DEFINE batch == Head(m.todo)
    <3>5. PutAll(memories[s], batch) = memories[s]
      <4> HIDE DEF made, batch
      <4> QED
        BY <2>4, <3>3, <3>4, BatchRepeated DEF batch
    <3>6. memories' = memories
      BY <1>1, <2>1, <2>3, <3>3, <3>5 DEF ImportBatch
    <3>7. m.ask = <<>> /\ m.existing \in Nat /\ m # None
      BY <1>1, <2>2 DEF ImportBatch, ImportAtWork
    <3>8. m.source.form # "legacy" /\ "import" \notin disturbed =>
            m.existing + Len(m.ask) = Len(m.todo[1])
      BY <1>1, <3>7 DEF ImportInv, ImportFits
    <3> QED
      BY <2>4, <3>6, <3>7, <3>8
  <2> HIDE DEF Complete, Same
  <2> QED
    BY <2>1, <2>5, <2>6
<1>2. TransferInv /\ ImportInv /\ [Next]_vars => [ImportBatch => Repeatable]_vars
  BY <1>1
<1> QED
  BY <1>2, TransferInvariant, ImportInvariant, PTL DEF Spec, ImportIsRepeatable
=============================================================================
