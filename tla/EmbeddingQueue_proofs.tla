------------------------ MODULE EmbeddingQueue_proofs ------------------------
(***************************************************************************)
(* Theorems of EmbeddingQueue, for any number of records, workers, tokens  *)
(* and any batch size: types, that no work is lost, and that a row leaves  *)
(* the queue only for its vector.                                          *)
(***************************************************************************)
EXTENDS EmbeddingQueue, TLAPS

-----------------------------------------------------------------------------
(* Rows.                                                                   *)

LEMMA RowFields ==
  ASSUME NEW row \in Row
  PROVE  /\ row # None
         /\ row.stamp \in Stamp
         /\ row.token \in Token \cup {None}
         /\ row.over \in BOOLEAN
         /\ row.token = None => ~ row.over
BY QueueAssumption DEF Row

LEMMA FreshRowIsRow ==
  ASSUME NEW u \in Stamp
  PROVE  FreshRow(u) \in Row /\ FreshRow(u).stamp = u
BY DEF Row, FreshRow

LEMMA LeasedIsRow ==
  ASSUME NEW row \in Row, NEW t \in Token \cup {None}
  PROVE  Leased(row, t) \in Row /\ Leased(row, t).stamp = row.stamp
BY DEF Row, Leased

LEMMA OverdueIsRow ==
  ASSUME NEW row \in Row, row.token # None
  PROVE  Overdue(row) \in Row /\ Overdue(row).stamp = row.stamp
BY DEF Row, Overdue

LEMMA ItemFields ==
  ASSUME NEW i \in Item
  PROVE  i # None /\ i.rec \in Rec /\ i.stamp \in Stamp
BY QueueAssumption DEF Item

LEMMA QueuedRow ==
  ASSUME TypeOK, NEW r \in Queued
  PROVE  r \in Rec /\ pending[r] \in Row
BY DEF TypeOK, Queued

-----------------------------------------------------------------------------
(* What the helper steps do, whatever the state.                           *)

(* Enqueuing keeps every row it does not write, and a row it writes is of  *)
(* an item that was asked for.                                             *)
LEMMA EnqueueEffect ==
  ASSUME TypeOK, NEW items, items \subseteq Item, Enqueue(items)
  PROVE  /\ pending' \in [Rec -> Row \cup {None}]
         /\ before' \subseteq Rec \X Rec
         /\ \A r \in Rec :
              \/ pending'[r] = pending[r]
              \/ \E i \in items : /\ i.rec = r
                                  /\ pending'[r] = FreshRow(i.stamp)
         /\ \A i \in items : pending'[i.rec] \in Row
<1> DEFINE fresh == {i \in items : \/ pending[i.rec] = None
                                   \/ pending[i.rec].stamp # i.stamp}
           S == {i.rec : i \in fresh}
           Pick(r) == CHOOSE i \in fresh : i.rec = r
<1>1. pending' = [r \in Rec |-> IF r \in S THEN FreshRow(Pick(r).stamp)
                                ELSE pending[r]]
  BY DEF Enqueue
<1>2. before' = WithoutRows(before, S) \cup ((Queued \ S) \X S)
  BY DEF Enqueue
<1>3. S \subseteq Rec
  BY ItemFields
<1>4. ASSUME NEW r \in S
      PROVE  /\ Pick(r) \in items
             /\ Pick(r).rec = r
             /\ Pick(r).stamp \in Stamp
  <2>1. \E i \in fresh : i.rec = r
    OBVIOUS
  <2>2. Pick(r) \in fresh /\ Pick(r).rec = r
    BY <2>1
  <2> QED BY <2>2, ItemFields
<1>5. \A r \in S : pending'[r] = FreshRow(Pick(r).stamp) /\ pending'[r] \in Row
  BY <1>1, <1>3, <1>4, FreshRowIsRow
<1>6. \A r \in Rec \ S : pending'[r] = pending[r]
  BY <1>1
<1>7. pending' \in [Rec -> Row \cup {None}]
  <2>1. pending \in [Rec -> Row \cup {None}]
    BY DEF TypeOK
  <2> QED BY <1>1, <1>4, <2>1, FreshRowIsRow
<1>8. before' \subseteq Rec \X Rec
  BY <1>2, <1>3 DEF WithoutRows, Queued, TypeOK
<1>9. \A i \in items : pending'[i.rec] \in Row
  <2> TAKE i \in items
  <2>1. CASE i \in fresh
    BY <2>1, <1>5
  <2>2. CASE i \notin fresh
    <3>1. i.rec \in Rec /\ pending[i.rec] # None
      BY <2>2, ItemFields
    <3>2. pending'[i.rec] # None
      <4>1. CASE i.rec \in S
        BY <4>1, <1>5, RowFields
      <4>2. CASE i.rec \notin S
        BY <4>2, <3>1, <1>6
      <4> QED BY <4>1, <4>2
    <3> QED BY <3>1, <3>2, <1>7
  <2> QED BY <2>1, <2>2
<1>10. \A r \in Rec : \/ pending'[r] = pending[r]
                      \/ \E i \in items : /\ i.rec = r
                                          /\ pending'[r] = FreshRow(i.stamp)
  BY <1>4, <1>5, <1>6
<1> QED BY <1>7, <1>8, <1>9, <1>10

(* Giving rows back drops none and keeps their revisions.                  *)
LEMMA ReleasedEffect ==
  ASSUME TypeOK, NEW w, NEW items
  PROVE  /\ Released(w, items) \in [Rec -> Row \cup {None}]
         /\ \A r \in Queued : /\ Released(w, items)[r] \in Row
                              /\ Released(w, items)[r].stamp = pending[r].stamp
         /\ \A r \in Rec \ Queued : Released(w, items)[r] = None
<1>1. \A r \in Queued : /\ Leased(pending[r], None) \in Row
                        /\ Leased(pending[r], None).stamp = pending[r].stamp
  BY QueuedRow, LeasedIsRow
<1> QED BY <1>1, QueuedRow DEF Released, Queued, TypeOK

(* At rest a worker holds nothing.                                         *)
LEMMA RestEffect ==
  ASSUME TypeOK, NEW w \in Worker, Rest(w)
  PROVE  /\ pc' \in [Worker -> Steps]
         /\ token' \in [Worker -> Token \cup {None}]
         /\ batch' \in [Worker -> SUBSET Item]
         /\ embedded' \in [Worker -> SUBSET Item]
         /\ first' \in [Worker -> Item \cup {None}]
         /\ pc'[w] = "idle" /\ batch'[w] = {} /\ embedded'[w] = {} /\ first'[w] = None
         /\ \A v \in Worker \ {w} : /\ pc'[v] = pc[v]
                                    /\ batch'[v] = batch[v]
                                    /\ embedded'[v] = embedded[v]
                                    /\ first'[v] = first[v]
BY DEF Rest, Goto, TypeOK, Steps

(* Completing writes, for every item written, the vector of the item's     *)
(* revision, and drops only rows of a revision it wrote.                   *)
LEMMA CompleteEffect ==
  ASSUME TypeOK, BatchesAreSound, NEW w \in Worker, Complete(w)
  PROVE  /\ Written(w) \subseteq batch[w]
         /\ vectors' \in [Rec -> Stamp \cup {None}]
         /\ \A i \in Written(w) : vectors'[i.rec] = i.stamp
         /\ \A r \in Rec : \/ \E i \in Written(w) : i.rec = r
                           \/ vectors'[r] = vectors[r] /\ pending'[r] = pending[r]
         /\ \A r \in Rec : \/ pending'[r] = pending[r]
                           \/ /\ pending'[r] = None
                              /\ \E i \in Written(w) : /\ i.rec = r
                                                       /\ pending[r].stamp = i.stamp
<1> DEFINE recs == {i.rec : i \in Written(w)}
           Pick(r) == CHOOSE i \in Written(w) : i.rec = r
<1>1. Written(w) \subseteq batch[w] /\ batch[w] \subseteq Item
  BY DEF Complete, Written, BatchesAreSound, TypeOK
<1>2. vectors' = [r \in Rec |-> IF r \in recs THEN VectorOf(Written(w), r)
                                ELSE vectors[r]]
  BY DEF Complete
<1>3. ASSUME NEW i \in Written(w)
      PROVE  i.rec \in Rec /\ i.stamp \in Stamp /\ VectorOf(Written(w), i.rec) = i.stamp
  <2>1. Pick(i.rec) \in Written(w) /\ Pick(i.rec).rec = i.rec
    OBVIOUS
  <2>2. Pick(i.rec) = i
    BY <1>1, <2>1 DEF BatchesAreSound, OneItemEach
  <2> QED BY <1>1, <2>2, ItemFields DEF VectorOf
<1>4. \A i \in Written(w) : vectors'[i.rec] = i.stamp
  BY <1>2, <1>3
<1>5. \A r \in Rec \ recs : vectors'[r] = vectors[r]
  BY <1>2
<1>6. vectors' \in [Rec -> Stamp \cup {None}]
  <2>1. ASSUME NEW r \in Rec
        PROVE  vectors'[r] \in Stamp \cup {None}
    <3>1. CASE r \in recs
      BY <3>1, <1>3, <1>4
    <3>2. CASE r \notin recs
      BY <3>2, <1>5 DEF TypeOK
    <3> QED BY <3>1, <3>2
  <2> QED BY <1>2, <2>1
<1>7. pending' = [r \in Rec |-> IF r \in Finished(w) THEN None ELSE pending[r]]
  BY DEF Complete
<1>8. \A r \in Finished(w) : \E i \in Written(w) : /\ i.rec = r
                                                   /\ pending[r].stamp = i.stamp
  BY DEF Finished
<1> QED BY <1>1, <1>4, <1>5, <1>6, <1>7, <1>8

-----------------------------------------------------------------------------
(* Every step preserves the invariant.                                     *)

LEMMA InitEstablishes == Init => IInv
<1> SUFFICES ASSUME Init PROVE IInv
  OBVIOUS
<1>1. TypeOK
  BY QueueAssumption DEF Init, TypeOK, Steps
<1>2. BatchesAreSound
  BY DEF Init, BatchesAreSound, AsStored, OneItemEach
<1>3. AsStored(found)
  BY DEF Init, AsStored
<1>4. RowsAreAsStored /\ WorkIsNeverLost
  BY DEF Init, RowsAreAsStored, WorkIsNeverLost, Queued, Stored
<1> QED BY <1>1, <1>2, <1>3, <1>4 DEF IInv

(* Of a memory no importer writes, a row has the memory's revision, so     *)
(* that keeping a row is keeping the work.                                 *)
LEMMA WorkKept ==
  ASSUME RowsAreAsStored',
         \A r \in Stored' \ Imported : r \in Current' \/ r \in Queued'
  PROVE  WorkIsNeverLost'
BY DEF RowsAreAsStored, WorkIsNeverLost

(* What is held of the memories stays true while none is lost and none     *)
(* that no importer writes is changed.                                     *)
LEMMA HeldStaysSound ==
  ASSUME \A r \in Stored : /\ r \in Stored'
                           /\ r \notin Imported => memories'[r] = memories[r],
         NEW items, AsStored(items)
  PROVE  \A i \in items : /\ i.rec \in Stored'
                          /\ i.rec \notin Imported => i.stamp = memories'[i.rec]
BY DEF AsStored

LEMMA RememberStep ==
  ASSUME IInv, NEW r \in Rec, Remember(r)
  PROVE  IInv'
<1> USE DEF IInv
<1>1. PICK u \in Stamp : /\ memories' = [memories EXCEPT ![r] = u]
                         /\ Enqueue({[rec |-> r, stamp |-> u]})
  BY DEF Remember
<1> DEFINE it == [rec |-> r, stamp |-> u]
<1>2. UNCHANGED <<vectors, workers, found, imports, crashes>>
      /\ r \notin Imported /\ memories[r] = None
  BY DEF Remember
<1>3. {it} \subseteq Item
  BY DEF Item
<1>4. /\ pending' \in [Rec -> Row \cup {None}]
      /\ before' \subseteq Rec \X Rec
      /\ \A q \in Rec : \/ pending'[q] = pending[q]
                        \/ q = r /\ pending'[q] = FreshRow(u)
      /\ pending'[r] \in Row
  BY <1>1, <1>3, EnqueueEffect
<1>5. /\ r \in Stored' /\ memories'[r] = u /\ r \notin Stored
      /\ \A q \in Rec \ {r} : memories'[q] = memories[q]
      /\ \A q \in Stored : q \in Stored' /\ memories'[q] = memories[q]
      /\ Stored' \subseteq Stored \cup {r}
  BY <1>1, <1>2, QueueAssumption DEF TypeOK, Stored
<1>6. TypeOK'
  BY <1>1, <1>2, <1>4 DEF TypeOK, workers
<1>7. BatchesAreSound'
  BY <1>2, <1>5, HeldStaysSound DEF BatchesAreSound, AsStored, OneItemEach, workers
<1>8. AsStored(found)'
  BY <1>2, <1>5, HeldStaysSound DEF AsStored
<1>9. RowsAreAsStored'
  <2> SUFFICES ASSUME NEW q \in Queued'
               PROVE  q \in Stored' /\ (q \notin Imported => pending'[q].stamp = memories'[q])
    BY DEF RowsAreAsStored
  <2>1. q \in Rec
    BY DEF Queued
  <2>2. CASE q = r
    <3>1. pending[r] = None
      BY <1>5 DEF RowsAreAsStored, Queued
    <3>2. pending'[r] = FreshRow(u)
      BY <1>4, <3>1, RowFields
    <3> QED BY <2>2, <3>2, <1>5, FreshRowIsRow
  <2>3. CASE q # r
    BY <2>1, <2>3, <1>4, <1>5 DEF RowsAreAsStored, Queued
  <2> QED BY <2>2, <2>3
<1>10. WorkIsNeverLost'
  <2> SUFFICES ASSUME NEW q \in Stored' \ Imported
               PROVE  q \in Current' \/ q \in Queued'
    BY <1>9, WorkKept
  <2>1. CASE q = r
    BY <2>1, <1>4, RowFields DEF Queued
  <2>2. CASE q # r
    BY <2>2, <1>2, <1>4, <1>5 DEF WorkIsNeverLost, Queued, Current, Stored
  <2> QED BY <2>1, <2>2
<1> QED BY <1>6, <1>7, <1>8, <1>9, <1>10

LEMMA ImportStep ==
  ASSUME IInv, NEW r \in Rec, Import(r)
  PROVE  IInv'
<1> USE DEF IInv
<1>1. PICK u \in Stamp : memories' = [memories EXCEPT ![r] = u]
  BY DEF Import
<1>2. /\ UNCHANGED <<pending, before, vectors, workers, found, crashes>>
      /\ r \in Imported /\ imports < MaxImports /\ imports' = imports + 1
  BY DEF Import
<1>3. /\ \A q \in Rec \ {r} : memories'[q] = memories[q]
      /\ \A q \in Stored : q \in Stored' /\ (q \notin Imported => memories'[q] = memories[q])
      /\ Stored' \subseteq Stored \cup {r}
  BY <1>1, <1>2, QueueAssumption DEF TypeOK, Stored
<1>4. TypeOK'
  BY <1>1, <1>2, QueueAssumption DEF TypeOK, workers
<1>5. BatchesAreSound'
  BY <1>2, <1>3, HeldStaysSound DEF BatchesAreSound, AsStored, OneItemEach, workers
<1>6. AsStored(found)'
  BY <1>2, <1>3, HeldStaysSound DEF AsStored
<1>7. RowsAreAsStored'
  BY <1>2, <1>3 DEF RowsAreAsStored, Queued
<1>8. WorkIsNeverLost'
  BY <1>2, <1>3, <1>7, WorkKept DEF WorkIsNeverLost, Queued, Current
<1> QED BY <1>4, <1>5, <1>6, <1>7, <1>8

(* Where the memories stand still, held items stay sound, and rows that    *)
(* keep their revisions stay rows of their memories.                       *)
LEMMA RowsKeptSound ==
  ASSUME IInv, UNCHANGED <<memories, vectors>>, Queued' = Queued,
         \A r \in Queued : pending'[r].stamp = pending[r].stamp
  PROVE  RowsAreAsStored' /\ WorkIsNeverLost'
<1>1. RowsAreAsStored'
  BY DEF IInv, RowsAreAsStored, Stored
<1>2. WorkIsNeverLost'
  BY <1>1, WorkKept DEF IInv, WorkIsNeverLost, Current, Stored
<1> QED BY <1>1, <1>2

(* A worker's step that leaves the tables alone disturbs its own hold only.*)
LEMMA OwnHoldSound ==
  ASSUME IInv, NEW w \in Worker, UNCHANGED memories,
         \A v \in Worker \ {w} : /\ pc'[v] = pc[v] /\ batch'[v] = batch[v]
                                 /\ embedded'[v] = embedded[v] /\ first'[v] = first[v],
         \A i \in batch'[w] : /\ i.rec \in Stored
                              /\ i.rec \notin Imported => i.stamp = memories[i.rec],
         OneItemEach(batch'[w]),
         embedded'[w] \subseteq batch'[w],
         first'[w] # None => first'[w] \in embedded'[w],
         pc'[w] = "complete" => first'[w] # None,
         pc'[w] \in {"idle", "embed"} => embedded'[w] = {}
  PROVE  BatchesAreSound'
<1>1. Stored' = Stored
  BY DEF Stored
<1>2. ASSUME NEW v \in Worker
      PROVE  /\ AsStored(batch[v])'
             /\ OneItemEach(batch'[v])
             /\ embedded'[v] \subseteq batch'[v]
             /\ first'[v] # None => first'[v] \in embedded'[v]
             /\ pc'[v] = "complete" => first'[v] # None
             /\ pc'[v] \in {"idle", "embed"} => embedded'[v] = {}
  <2>1. CASE v = w
    BY <2>1, <1>1 DEF AsStored
  <2>2. CASE v # w
    BY <2>2, <1>1 DEF IInv, BatchesAreSound, AsStored
  <2> QED BY <2>1, <2>2
<1> QED BY <1>2 DEF BatchesAreSound, OneItemEach

LEMMA ClaimStep ==
  ASSUME IInv, NEW w \in Worker, Claim(w)
  PROVE  IInv'
<1> USE DEF IInv
<1> DEFINE t == CHOOSE x \in Token : x \notin InUse
<1>1. PICK S \in SUBSET Claimable :
        /\ pending' = [r \in Rec |-> IF r \in S THEN Leased(pending[r], t) ELSE pending[r]]
        /\ token' = [token EXCEPT ![w] = t]
        /\ batch' = [batch EXCEPT ![w] = {[rec |-> r, stamp |-> memories[r]] : r \in S}]
  BY DEF Claim
<1>2. /\ UNCHANGED <<memories, before, vectors, embedded, first, found, imports, crashes>>
      /\ pc' = [pc EXCEPT ![w] = "embed"] /\ pc[w] = "idle"
  BY DEF Claim, Goto
<1>3. t \in Token
  <2>1. \E x \in Token : x \notin InUse
    BY DEF Claim
  <2> QED BY <2>1
<1>4. S \subseteq Queued /\ S \subseteq Stored /\ S \subseteq Rec
  BY DEF Claimable, RowsAreAsStored, Queued
<1>5. /\ pending' \in [Rec -> Row \cup {None}]
      /\ \A r \in Queued : pending'[r] \in Row /\ pending'[r].stamp = pending[r].stamp
      /\ \A r \in Rec \ Queued : pending'[r] = None
  BY <1>1, <1>3, <1>4, QueuedRow, LeasedIsRow DEF Queued
<1>6. Queued' = Queued
  BY <1>5, RowFields DEF Queued
<1> DEFINE items == {[rec |-> r, stamp |-> memories[r]] : r \in S}
<1>7. items \subseteq Item
  BY <1>4 DEF Item, TypeOK, Stored
<1>8. batch'[w] = items /\ pc'[w] = "embed" /\ embedded'[w] = {} /\ first'[w] = None
  BY <1>1, <1>2 DEF TypeOK, BatchesAreSound
<1>9. TypeOK'
  BY <1>1, <1>2, <1>3, <1>5, <1>7 DEF TypeOK, Steps
<1>10. BatchesAreSound'
  <2>1. \A i \in items : /\ i.rec \in Stored
                         /\ i.rec \notin Imported => i.stamp = memories[i.rec]
    BY <1>4
  <2>2. OneItemEach(items)
    BY DEF OneItemEach
  <2>3. \A v \in Worker \ {w} : /\ pc'[v] = pc[v] /\ batch'[v] = batch[v]
                                /\ embedded'[v] = embedded[v] /\ first'[v] = first[v]
    BY <1>1, <1>2 DEF TypeOK
  <2> HIDE DEF items
  <2> QED BY <2>1, <2>2, <2>3, <1>2, <1>8, OwnHoldSound
<1>11. AsStored(found)'
  BY <1>2 DEF AsStored, Stored
<1>12. RowsAreAsStored' /\ WorkIsNeverLost'
  BY <1>2, <1>5, <1>6, RowsKeptSound
<1> QED BY <1>9, <1>10, <1>11, <1>12

LEMMA ProvideStep ==
  ASSUME IInv, NEW w \in Worker, NEW S \in SUBSET batch[w], Provide(w, S)
  PROVE  IInv'
<1> USE DEF IInv
<1>1. /\ UNCHANGED <<tables, token, batch, first, found, imports, crashes>>
      /\ pc[w] = "embed"
      /\ embedded' = [embedded EXCEPT ![w] = S]
      /\ pc' = [pc EXCEPT ![w] = IF S = {} THEN "missing" ELSE "check"]
  BY DEF Provide, Goto
<1>2. TypeOK'
  BY <1>1 DEF TypeOK, Steps, tables
<1>3. BatchesAreSound'
  BY <1>1 DEF TypeOK, BatchesAreSound, AsStored, OneItemEach, Stored, tables
<1>4. AsStored(found)' /\ RowsAreAsStored' /\ WorkIsNeverLost'
  BY <1>1 DEF AsStored, RowsAreAsStored, WorkIsNeverLost, Stored, Queued, Current, tables
<1> QED BY <1>2, <1>3, <1>4

LEMMA RaiseStep ==
  ASSUME IInv, NEW w \in Worker, Raise(w)
  PROVE  IInv'
<1> USE DEF IInv
<1>1. /\ UNCHANGED <<tables, token, batch, embedded, first, found, imports, crashes>>
      /\ pc' = [pc EXCEPT ![w] = "fail"]
  BY DEF Raise, Goto
<1>2. TypeOK'
  BY <1>1 DEF TypeOK, Steps, tables
<1>3. BatchesAreSound'
  BY <1>1 DEF TypeOK, BatchesAreSound, AsStored, OneItemEach, Stored, tables
<1>4. AsStored(found)' /\ RowsAreAsStored' /\ WorkIsNeverLost'
  BY <1>1 DEF AsStored, RowsAreAsStored, WorkIsNeverLost, Stored, Queued, Current, tables
<1> QED BY <1>2, <1>3, <1>4

LEMMA CheckStep ==
  ASSUME IInv, NEW w \in Worker, Check(w)
  PROVE  IInv'
<1> USE DEF IInv
<1>1. /\ UNCHANGED <<tables, token, batch, embedded, found, imports, crashes>>
      /\ pc[w] = "check"
      /\ \/ \E i \in embedded[w] : /\ first' = [first EXCEPT ![w] = i]
                                   /\ pc' = [pc EXCEPT ![w] = "complete"]
         \/ UNCHANGED first /\ pc' = [pc EXCEPT ![w] = "missing"]
  BY DEF Check, Goto
<1>2. \A i \in embedded[w] : i \in Item /\ i # None
  BY ItemFields DEF TypeOK
<1>3. TypeOK'
  BY <1>1, <1>2 DEF TypeOK, Steps, tables
<1>4. BatchesAreSound'
  BY <1>1, <1>2 DEF TypeOK, BatchesAreSound, AsStored, OneItemEach, Stored, tables
<1>5. AsStored(found)' /\ RowsAreAsStored' /\ WorkIsNeverLost'
  BY <1>1 DEF AsStored, RowsAreAsStored, WorkIsNeverLost, Stored, Queued, Current, tables
<1> QED BY <1>3, <1>4, <1>5

(* A memory whose vector is written becomes current, and one whose row     *)
(* stays keeps its row.                                                    *)
LEMMA CompleteStep ==
  ASSUME IInv, NEW w \in Worker, Complete(w)
  PROVE  IInv'
<1> USE DEF IInv
<1>1. /\ UNCHANGED <<memories, token, batch, embedded, first, found, imports, crashes>>
      /\ pc' = [pc EXCEPT ![w] = "missing"]
      /\ before' = WithoutRows(before, Finished(w))
      /\ pending' = [r \in Rec |-> IF r \in Finished(w) THEN None ELSE pending[r]]
  BY DEF Complete, Goto
<1>2. /\ Written(w) \subseteq batch[w]
      /\ vectors' \in [Rec -> Stamp \cup {None}]
      /\ \A i \in Written(w) : vectors'[i.rec] = i.stamp
      /\ \A r \in Rec : \/ \E i \in Written(w) : i.rec = r
                        \/ vectors'[r] = vectors[r] /\ pending'[r] = pending[r]
  BY CompleteEffect
<1>3. TypeOK'
  BY <1>1, <1>2 DEF TypeOK, Steps, WithoutRows
<1>4. BatchesAreSound'
  BY <1>1 DEF TypeOK, BatchesAreSound, AsStored, OneItemEach, Stored
<1>5. AsStored(found)'
  BY <1>1 DEF AsStored, Stored
<1>6. RowsAreAsStored'
  BY <1>1 DEF RowsAreAsStored, Queued, Stored
<1>7. WorkIsNeverLost'
  <2> SUFFICES ASSUME NEW r \in Stored \ Imported
               PROVE  r \in Current' \/ r \in Queued'
    BY <1>1, <1>6, WorkKept DEF Stored
  <2>1. CASE \E i \in Written(w) : i.rec = r
    BY <2>1, <1>1, <1>2 DEF BatchesAreSound, AsStored, Current, Stored
  <2>2. CASE ~ \E i \in Written(w) : i.rec = r
    BY <2>2, <1>1, <1>2 DEF WorkIsNeverLost, Current, Stored, Queued
  <2> QED BY <2>1, <2>2
<1> QED BY <1>3, <1>4, <1>5, <1>6, <1>7

(* Every way of coming to rest, with rows given back or left under lease.  *)
LEMMA RestStep ==
  ASSUME IInv, NEW w \in Worker, Rest(w), UNCHANGED <<memories, before, vectors, found, imports>>,
         crashes' \in 0 .. MaxCrashes,
         UNCHANGED pending \/ \E items : pending' = Released(w, items)
  PROVE  IInv'
<1> USE DEF IInv
<1>1. /\ pending' \in [Rec -> Row \cup {None}]
      /\ \A r \in Queued : pending'[r] \in Row /\ pending'[r].stamp = pending[r].stamp
      /\ \A r \in Rec \ Queued : pending'[r] = None
  <2>1. CASE UNCHANGED pending
    BY <2>1, QueuedRow DEF TypeOK, Queued
  <2>2. CASE \E items : pending' = Released(w, items)
    BY <2>2, ReleasedEffect
  <2> QED BY <2>1, <2>2
<1>2. Queued' = Queued
  BY <1>1, RowFields DEF Queued
<1>3. TypeOK'
  BY <1>1, RestEffect DEF TypeOK
<1>4. BatchesAreSound'
  BY RestEffect, OwnHoldSound DEF OneItemEach
<1>5. AsStored(found)'
  BY DEF AsStored, Stored
<1>6. RowsAreAsStored' /\ WorkIsNeverLost'
  BY <1>1, <1>2, RowsKeptSound
<1> QED BY <1>3, <1>4, <1>5, <1>6

LEMMA FailStep ==
  ASSUME IInv, NEW w \in Worker, FailMissing(w) \/ FailBatch(w)
  PROVE  IInv'
<1>1. /\ Rest(w) /\ UNCHANGED <<memories, before, vectors, found, imports, crashes>>
      /\ \E items : pending' = Released(w, items)
  BY DEF FailMissing, FailBatch
<1> QED BY <1>1, RestStep DEF IInv, TypeOK

LEMMA CrashStep ==
  ASSUME IInv, NEW w \in Worker, Crash(w)
  PROVE  IInv'
<1>1. Rest(w) /\ UNCHANGED <<tables, found, imports>> /\ crashes < MaxCrashes
      /\ crashes' = crashes + 1
  BY DEF Crash
<1>2. crashes' \in 0 .. MaxCrashes
  BY <1>1, QueueAssumption DEF IInv, TypeOK
<1> QED BY <1>1, <1>2, RestStep DEF tables

LEMMA LeaseRunsOutStep ==
  ASSUME IInv, NEW t \in Token, LeaseRunsOut(t)
  PROVE  IInv'
<1> USE DEF IInv
<1>1. /\ UNCHANGED <<memories, before, vectors, workers, found, imports, crashes>>
      /\ pending' = [r \in Rec |-> IF r \in Queued /\ pending[r].token = t
                                   THEN Overdue(pending[r]) ELSE pending[r]]
  BY DEF LeaseRunsOut
<1>2. t # None
  BY QueueAssumption
<1>3. /\ pending' \in [Rec -> Row \cup {None}]
      /\ \A r \in Queued : pending'[r] \in Row /\ pending'[r].stamp = pending[r].stamp
      /\ \A r \in Rec \ Queued : pending'[r] = None
  <2>1. \A r \in Queued : pending[r] \in Row
    BY QueuedRow
  <2>2. \A r \in Queued : pending[r].token = t =>
          /\ Overdue(pending[r]) \in Row
          /\ Overdue(pending[r]).stamp = pending[r].stamp
    BY <1>2, <2>1, OverdueIsRow
  <2> QED BY <1>1, <2>1, <2>2 DEF Queued
<1>4. Queued' = Queued
  BY <1>3, RowFields DEF Queued
<1>5. TypeOK'
  BY <1>1, <1>3 DEF TypeOK, workers
<1>6. BatchesAreSound' /\ AsStored(found)'
  BY <1>1 DEF BatchesAreSound, AsStored, OneItemEach, Stored, workers
<1>7. RowsAreAsStored' /\ WorkIsNeverLost'
  BY <1>1, <1>3, <1>4, RowsKeptSound
<1> QED BY <1>5, <1>6, <1>7

LEMMA ScanStep ==
  ASSUME IInv, Scan
  PROVE  IInv'
<1> USE DEF IInv
<1>1. PICK page \in SUBSET Stored :
        found' = {[rec |-> r, stamp |-> memories[r]] : r \in page \ Current}
  BY DEF Scan
<1>2. UNCHANGED <<tables, workers, imports, crashes>>
  BY DEF Scan
<1>3. found' \subseteq Item
  BY <1>1 DEF Item, TypeOK, Stored
<1>4. TypeOK'
  BY <1>2, <1>3 DEF TypeOK, tables, workers
<1>5. AsStored(found)'
  BY <1>1, <1>2 DEF AsStored, Stored, tables
<1>6. BatchesAreSound' /\ RowsAreAsStored' /\ WorkIsNeverLost'
  BY <1>2 DEF BatchesAreSound, AsStored, OneItemEach, RowsAreAsStored, WorkIsNeverLost,
              Stored, Queued, Current, tables, workers
<1> QED BY <1>4, <1>5, <1>6

(* The rows of a page that waited are of the memories' revisions, unless   *)
(* an importer writes them.                                                *)
LEMMA EnqueueFoundStep ==
  ASSUME IInv, EnqueueFound
  PROVE  IInv'
<1> USE DEF IInv
<1>1. /\ UNCHANGED <<memories, vectors, workers, imports, crashes>>
      /\ Enqueue(found) /\ found' = {}
  BY DEF EnqueueFound
<1>2. /\ pending' \in [Rec -> Row \cup {None}]
      /\ before' \subseteq Rec \X Rec
      /\ \A r \in Rec : \/ pending'[r] = pending[r]
                        \/ \E i \in found : /\ i.rec = r
                                            /\ pending'[r] = FreshRow(i.stamp)
  BY <1>1, EnqueueEffect DEF TypeOK
<1>3. TypeOK'
  BY <1>1, <1>2 DEF TypeOK, workers
<1>4. BatchesAreSound' /\ AsStored(found)'
  BY <1>1 DEF BatchesAreSound, AsStored, OneItemEach, Stored, workers
<1>5. RowsAreAsStored'
  <2> SUFFICES ASSUME NEW r \in Queued'
               PROVE  r \in Stored /\ (r \notin Imported => pending'[r].stamp = memories[r])
    BY <1>1 DEF RowsAreAsStored, Stored
  <2>1. r \in Rec
    BY DEF Queued
  <2>2. CASE pending'[r] = pending[r]
    BY <2>1, <2>2 DEF RowsAreAsStored, Queued
  <2>3. ASSUME NEW i \in found, i.rec = r, pending'[r] = FreshRow(i.stamp)
        PROVE  r \in Stored /\ (r \notin Imported => pending'[r].stamp = memories[r])
    BY <2>3, FreshRowIsRow, ItemFields DEF AsStored, TypeOK
  <2> QED BY <2>1, <2>2, <2>3, <1>2
<1>6. WorkIsNeverLost'
  <2> SUFFICES ASSUME NEW r \in Stored \ Imported
               PROVE  r \in Current' \/ r \in Queued'
    BY <1>1, <1>5, WorkKept DEF Stored
  <2>1. r \in Rec /\ (r \in Current \/ pending[r] # None)
    BY DEF WorkIsNeverLost, Stored, Queued
  <2>2. \A i \in found : FreshRow(i.stamp) # None
    BY FreshRowIsRow, RowFields, ItemFields DEF TypeOK
  <2> QED BY <2>1, <2>2, <1>1, <1>2 DEF Queued, Current, Stored
<1> QED BY <1>3, <1>4, <1>5, <1>6

LEMMA BackfillDiesStep ==
  ASSUME IInv, BackfillDies
  PROVE  IInv'
<1> USE DEF IInv
<1>1. UNCHANGED <<tables, workers, imports>> /\ crashes < MaxCrashes
      /\ crashes' = crashes + 1 /\ found' = {}
  BY DEF BackfillDies
<1>2. TypeOK'
  BY <1>1, QueueAssumption DEF TypeOK, tables, workers
<1>3. BatchesAreSound' /\ AsStored(found)' /\ RowsAreAsStored' /\ WorkIsNeverLost'
  BY <1>1 DEF BatchesAreSound, AsStored, OneItemEach, RowsAreAsStored, WorkIsNeverLost,
              Stored, Queued, Current, tables, workers
<1> QED BY <1>2, <1>3

LEMMA StutterStep ==
  ASSUME IInv, UNCHANGED vars
  PROVE  IInv'
BY DEF IInv, TypeOK, BatchesAreSound, AsStored, OneItemEach, RowsAreAsStored, WorkIsNeverLost,
       Stored, Queued, Current, vars, tables, workers

LEMMA InvariantIsInductive == IInv /\ [Next]_vars => IInv'
<1> SUFFICES ASSUME IInv, [Next]_vars
             PROVE  IInv'
  OBVIOUS
<1>1. ASSUME NEW r \in Rec, Remember(r)
      PROVE  IInv'
  BY <1>1, RememberStep
<1>2. ASSUME NEW r \in Rec, Import(r)
      PROVE  IInv'
  BY <1>2, ImportStep
<1>3. ASSUME NEW w \in Worker, WorkerStep(w)
      PROVE  IInv'
  <2>1. CASE Claim(w)
    BY <2>1, ClaimStep
  <2>2. CASE ProvideAll(w)
    BY <2>2, ProvideStep DEF ProvideAll
  <2>3. CASE ProvideSome(w)
    BY <2>3, ProvideStep DEF ProvideSome
  <2>4. CASE Raise(w)
    BY <2>4, RaiseStep
  <2>5. CASE Check(w)
    BY <2>5, CheckStep
  <2>6. CASE Complete(w)
    BY <2>6, CompleteStep
  <2>7. CASE FailMissing(w) \/ FailBatch(w)
    BY <2>7, FailStep
  <2>8. CASE Crash(w)
    BY <2>8, CrashStep
  <2> QED BY <1>3, <2>1, <2>2, <2>3, <2>4, <2>5, <2>6, <2>7, <2>8 DEF WorkerStep
<1>4. ASSUME NEW t \in Token, LeaseRunsOut(t)
      PROVE  IInv'
  BY <1>4, LeaseRunsOutStep
<1>5. CASE Scan
  BY <1>5, ScanStep
<1>6. CASE EnqueueFound
  BY <1>6, EnqueueFoundStep
<1>7. CASE BackfillDies
  BY <1>7, BackfillDiesStep
<1>8. CASE UNCHANGED vars
  BY <1>8, StutterStep
<1> QED BY <1>1, <1>2, <1>3, <1>4, <1>5, <1>6, <1>7, <1>8 DEF Next

-----------------------------------------------------------------------------
(* Theorems.                                                               *)

(* The queue's invariant: what workers and backfills hold, and every row,  *)
(* is of a stored memory, and of its revision unless importers write it.   *)
THEOREM QueueInvariant == Spec => []IInv
BY InitEstablishes, InvariantIsInductive, PTL DEF Spec

(* Every table and every worker's state keeps its type; in particular an   *)
(* unclaimed row carries no lease.                                         *)
THEOREM QueueTypeCorrect == Spec => []TypeOK
<1>1. IInv => TypeOK
  BY DEF IInv
<1> QED BY <1>1, QueueInvariant, PTL

(* However many workers sweep, lose their leases, fail and die, a memory   *)
(* stored by remember has its vector or is still queued for it             *)
(* (_enqueue_record, complete_pending_embeddings, fail_pending_embeddings).*)
THEOREM WorkIsKept == Spec => []WorkIsNeverLost
<1>1. IInv => WorkIsNeverLost
  BY DEF IInv
<1> QED BY <1>1, QueueInvariant, PTL

-----------------------------------------------------------------------------
(* No step but a completion takes a row out of the queue.                  *)

LEMMA EnqueueDropsNone ==
  ASSUME TypeOK, NEW items, items \subseteq Item, Enqueue(items), NEW r \in Queued
  PROVE  pending'[r] # None
<1>1. \A i \in items : FreshRow(i.stamp) # None
  BY FreshRowIsRow, RowFields, ItemFields
<1> QED BY <1>1, EnqueueEffect DEF Queued

LEMMA WorkerDropsNone ==
  ASSUME IInv, NEW w \in Worker, WorkerStep(w), ~ Complete(w), NEW r \in Queued
  PROVE  pending'[r] # None
<1> USE DEF IInv
<1>1. CASE Claim(w)
  <2>1. PICK S \in SUBSET Claimable, t \in Token :
          pending' = [q \in Rec |-> IF q \in S THEN Leased(pending[q], t) ELSE pending[q]]
    <3>1. (CHOOSE x \in Token : x \notin InUse) \in Token
      <4>1. \E x \in Token : x \notin InUse
        BY <1>1 DEF Claim
      <4> QED BY <4>1
    <3> QED BY <1>1, <3>1 DEF Claim
  <2>2. pending[r] \in Row
    BY QueuedRow
  <2>3. Leased(pending[r], t) # None /\ pending[r] # None
    BY <2>2, LeasedIsRow, RowFields
  <2> QED BY <2>1, <2>3 DEF Queued
<1>2. CASE FailMissing(w) \/ FailBatch(w)
  <2>1. \E items : pending' = Released(w, items)
    BY <1>2 DEF FailMissing, FailBatch
  <2> QED BY <2>1, ReleasedEffect, RowFields
<1>3. CASE ProvideAll(w) \/ ProvideSome(w) \/ Raise(w) \/ Check(w) \/ Crash(w)
  BY <1>3 DEF ProvideAll, ProvideSome, Provide, Raise, Check, Crash, tables, Queued
<1> QED BY <1>1, <1>2, <1>3 DEF WorkerStep

LEMMA OtherStepsDropNone ==
  ASSUME IInv, NEW r \in Queued,
         \/ \E q \in Rec : Remember(q) \/ Import(q)
         \/ \E t \in Token : LeaseRunsOut(t)
         \/ Scan \/ EnqueueFound \/ BackfillDies \/ UNCHANGED vars
  PROVE  pending'[r] # None
<1> USE DEF IInv
<1>1. CASE \E q \in Rec : Remember(q)
  <2>1. PICK q \in Rec, u \in Stamp : Enqueue({[rec |-> q, stamp |-> u]})
    BY <1>1 DEF Remember
  <2> QED BY <2>1, EnqueueDropsNone DEF Item
<1>2. CASE EnqueueFound
  BY <1>2, EnqueueDropsNone DEF EnqueueFound, TypeOK
<1>3. CASE \E t \in Token : LeaseRunsOut(t)
  <2>1. PICK t \in Token : LeaseRunsOut(t)
    BY <1>3
  <2>2. pending[r] \in Row
    BY QueuedRow
  <2>3. pending[r].token = t => Overdue(pending[r]) # None
    BY <2>2, OverdueIsRow, RowFields, QueueAssumption
  <2> QED BY <2>1, <2>3 DEF LeaseRunsOut, Queued
<1>4. CASE (\E q \in Rec : Import(q)) \/ Scan \/ BackfillDies \/ UNCHANGED vars
  BY <1>4 DEF Import, Scan, BackfillDies, vars, tables, Queued
<1> QED BY <1>1, <1>2, <1>3, <1>4

LEMMA StepsLeaveVectors == IInv /\ [Next]_vars => [RowsLeaveForTheirVector]_vars
<1> SUFFICES ASSUME IInv, [Next]_vars, NEW r \in Queued, pending'[r] = None
             PROVE  vectors'[r] = pending[r].stamp
  BY DEF RowsLeaveForTheirVector
<1>1. PICK w \in Worker : Complete(w)
  BY OtherStepsDropNone, WorkerDropsNone DEF Next
<1>2. r \in Rec /\ pending[r] # None
  BY DEF Queued
<1>3. PICK i \in Written(w) : i.rec = r /\ pending[r].stamp = i.stamp
  BY <1>1, <1>2, CompleteEffect DEF IInv
<1>4. vectors'[i.rec] = i.stamp
  BY <1>1, CompleteEffect DEF IInv
<1> QED BY <1>3, <1>4

(* A row leaves the queue only in the step that writes a vector of the     *)
(* row's revision: a late, a partial or a failing worker drops no work     *)
(* (complete_pending_embeddings' revision and token tests).                *)
THEOREM RowsLeaveForVectors == Spec => RowsLeaveWithTheirVector
BY QueueInvariant, StepsLeaveVectors, PTL DEF Spec, RowsLeaveWithTheirVector
=============================================================================
