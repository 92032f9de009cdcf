---------------------------- MODULE ContestLedger ----------------------------
(***************************************************************************)
(* Writes that name a claim slot, the ledger of the ones held aside, and   *)
(* the verdicts on them: AOMSApplication.remember, supersede and           *)
(* resolve_contest over the memories, contest_entries and write_receipts   *)
(* tables of SQLiteMemoryRepository.                                       *)
(*                                                                         *)
(* An application method is a coroutine that awaits the repository several *)
(* times; each await is one SQLite transaction on a connection of its own, *)
(* and any number of processes share the file.  So one action is one       *)
(* repository call with the Python that runs up to the next await, and     *)
(* calls interleave between actions.  A call is made once, by one agent,   *)
(* and may die at any step (the client or the process goes away); a client *)
(* that retries makes another call with the same record id.                *)
(*                                                                         *)
(* Not here: the full-text row and the pending embedding that the storing  *)
(* transaction also writes, and search and recall, which only read.        *)
(***************************************************************************)
EXTENDS ClaimSlots, FiniteSets

CONSTANTS
  MaxInFlight,   \* how many calls the workload has in flight at once
  CrashesHappen  \* whether a call may die between two of its steps

ASSUME WorkloadAssumption ==
  /\ MaxInFlight \in Nat \ {0}
  /\ CrashesHappen \in BOOLEAN

VARIABLES
  memories,   \* Rid -> record or None: the memories table
  contests,   \* Call -> entry or None: contest_entries, by the call minting the id
  receipts,   \* the rows of write_receipts
  pc,         \* Call -> the await the call stands at
  req,        \* Call -> the RememberRequest being carried out
  dec,        \* Call -> the gate's decision
  into,       \* Call -> the open entry to coalesce into
  verdict,    \* Call -> the resolution being carried out
  out         \* Call -> what the caller was told

tables == <<memories, contests, receipts>>
locals == <<req, dec, into, verdict>>
vars   == <<memories, contests, receipts, pc, req, dec, into, verdict, out>>

Resolution == {"admit", "admit-superseding", "set-aside", "split"}

Steps == {"idle", "old", "lineage", "get", "slot", "coalesce", "store",
          "free", "resolve", "done"}

Request == [agent : Agent, id : Rid, content : Content, claim : Key \cup {None},
            supersedes : Rid \cup {None}, part : Part \cup {None},
            asserted : Time \cup {None}, derived : BOOLEAN, createOnly : BOOLEAN]

Verdict == [contest : Call, resolution : Resolution, newKey : Key \cup {None},
            by : Agent, record : Rid, claim : Key, part : Part,
            successor : Rid \cup {None}]

Entry == [record : Rid, claim : Key, part : Part, author : Agent,
          incumbents : SUBSET Rid, trigger : AllTriggers,
          state : {"open", "resolved"}, resolution : Resolution \cup {None},
          count : Nat \ {0}]

Receipt == [call : Call, record : Rid, claim : Key, agent : Agent,
            disposition : Disposition, incumbents : SUBSET Rid,
            trigger : AllTriggers \cup {None}, contest : Call \cup {None},
            resolution : Resolution \cup {None}, successor : Rid \cup {None}]

Outcome == [status : {"created", "retained", "resolved", "already-resolved",
                      "refused", "crashed"},
            record : Rid \cup {None}, contest : Call \cup {None}]

ASSUME NoneAssumption ==
  None \notin Request \cup Decision \cup Entry \cup Verdict \cup Outcome \cup Resolution

Admits(resolution) == resolution \in {"admit", "split"}

-----------------------------------------------------------------------------
Init ==
  /\ memories = [i \in Rid |-> None]
  /\ contests = [c \in Call |-> None]
  /\ receipts = {}
  /\ pc = [c \in Call |-> "idle"]
  /\ req = [c \in Call |-> None]
  /\ dec = [c \in Call |-> None]
  /\ into = [c \in Call |-> None]
  /\ verdict = [c \in Call |-> None]
  /\ out = [c \in Call |-> None]

InFlight == {c \in Call : pc[c] \notin {"idle", "done"}}

Entries == {e \in Call : contests[e] # None}
Open    == {e \in Entries : contests[e].state = "open"}

Goto(c, step) == pc' = [pc EXCEPT ![c] = step]

(* The call returns or raises; nothing of its locals is left.              *)
Finish(c, status, record, contest) ==
  /\ Goto(c, "done")
  /\ out' = [out EXCEPT ![c] =
               [status |-> status, record |-> record, contest |-> contest]]
  /\ req' = [req EXCEPT ![c] = None]
  /\ dec' = [dec EXCEPT ![c] = None]
  /\ into' = [into EXCEPT ![c] = None]
  /\ verdict' = [verdict EXCEPT ![c] = None]

Refuse(c) == Finish(c, "refused", None, None) /\ UNCHANGED tables

-----------------------------------------------------------------------------
(* remember: the caller's id (or a fresh one), content, and declarations.  *)
(* A caller can name in supersedes an id it has seen or one it invents.    *)
BeginRemember(c) ==
  /\ pc[c] = "idle"
  /\ Cardinality(InFlight) < MaxInFlight
  /\ \E a \in Agent : \E i \in Id \cup {c}, x \in Content, k \in Key \cup {None},
        s \in Id \cup Stored(memories) \cup {None}, p \in Access[a],
        t \in Time \cup {None}, d \in BOOLEAN :
       /\ d => "derived-from-memory" \in Triggers
       /\ req' = [req EXCEPT ![c] =
            [agent |-> a, id |-> i, content |-> x, claim |-> k, supersedes |-> s,
             part |-> p, asserted |-> t, derived |-> d, createOnly |-> FALSE]]
  /\ Goto(c, "get")
  /\ UNCHANGED <<tables, dec, into, verdict, out>>

(* supersede: append a successor; kind, tags, scope come from the old one. *)
BeginSupersede(c) ==
  /\ pc[c] = "idle"
  /\ Cardinality(InFlight) < MaxInFlight
  /\ \E a \in Agent, i \in Id \cup {c}, old \in Id \cup Stored(memories),
        x \in Content, k \in Key \cup {None}, t \in Time \cup {None}, d \in BOOLEAN :
       /\ d => "derived-from-memory" \in Triggers
       /\ req' = [req EXCEPT ![c] =
            [agent |-> a, id |-> i, content |-> x, claim |-> k, supersedes |-> old,
             part |-> None, asserted |-> t, derived |-> d, createOnly |-> TRUE]]
  /\ Goto(c, "old")
  /\ UNCHANGED <<tables, dec, into, verdict, out>>

(* The successor inherits the scope, and the claim key unless the request  *)
(* names one.                                                              *)
Inherited(r, old) ==
  [r EXCEPT !.part = old.part,
            !.claim = IF r.claim # None THEN r.claim ELSE old.claim]

(* The predecessor must exist and be accessible.                           *)
ReadOld(c) ==
  /\ pc[c] = "old"
  /\ LET r == req[c]  old == memories[r.supersedes] IN
     \/ /\ old # None
        /\ old.part \in Access[r.agent]
        /\ req' = [req EXCEPT ![c] = Inherited(r, old)]
        /\ Goto(c, "lineage")
        /\ UNCHANGED <<tables, dec, into, verdict, out>>
     \/ /\ old = None \/ (old # None /\ old.part \notin Access[r.agent])
        /\ Refuse(c)

(* Admitted, visible records that already name i as what they replace.  A  *)
(* contested or invisible root has no chain at all.                        *)
DirectSuccessors(i, a) ==
  LET Visible(j) == memories[j].part \in Access[a] IN
  {j \in Admitted(memories) \ {i} :
     /\ i \in Admitted(memories) /\ Visible(i)
     /\ Visible(j) /\ memories[j].supersedes = i}

ReadLineage(c) ==
  /\ pc[c] = "lineage"
  /\ \/ /\ DirectSuccessors(req[c].supersedes, req[c].agent) = {}
        /\ Goto(c, "get")
        /\ UNCHANGED <<tables, locals, out>>
     \/ /\ DirectSuccessors(req[c].supersedes, req[c].agent) # {}
        /\ Refuse(c)

(* What an id that is already stored answers: the retained record to its   *)
(* own author's retry, an error to anyone else.                            *)
Retains(r, existing) ==
  /\ ~ r.createOnly
  /\ existing.part \in Access[r.agent]
  /\ existing.content = r.content

(* The read before the write.  supersede looks its id up twice, here and   *)
(* just before; ids never disappear, so the later read decides.            *)
ReadExisting(c) ==
  /\ pc[c] = "get"
  /\ LET r == req[c]  existing == memories[r.id] IN
     \/ /\ existing = None
        /\ IF r.claim = None
           THEN /\ dec' = [dec EXCEPT ![c] = Admit({})]
                /\ Goto(c, "store")
           ELSE Goto(c, "slot") /\ UNCHANGED dec
        /\ UNCHANGED <<tables, req, into, verdict, out>>
     \/ /\ existing # None
        /\ Retains(r, existing)
        /\ Finish(c, "retained", r.id, None)
        /\ UNCHANGED tables
     \/ /\ existing # None
        /\ ~ Retains(r, existing)
        /\ Refuse(c)

-----------------------------------------------------------------------------
(* Seeded fault: a declared supersession skips the gate.                   *)
ReadSlotTrustingSupersedes(c) ==
  /\ pc[c] = "slot"
  /\ LET r    == req[c]
         slot == SlotOccupants(memories, Occupants(memories, r.claim, r.part) \ {r.id})
         d    == IF r.createOnly THEN Admit({}) ELSE Decide(r, slot, Triggers)
     IN /\ dec' = [dec EXCEPT ![c] = d]
        /\ Goto(c, IF d.disposition = "contested" THEN "coalesce" ELSE "store")
  /\ UNCHANGED <<tables, req, into, verdict, out>>

(* _adjudicate, first await: read the occupants and run the gate on them.  *)
ReadSlot(c) ==
  /\ pc[c] = "slot"
  /\ LET r    == req[c]
         slot == SlotOccupants(memories, Occupants(memories, r.claim, r.part) \ {r.id})
         d    == Decide(r, slot, Triggers)
     IN /\ dec' = [dec EXCEPT ![c] = d]
        /\ Goto(c, IF d.disposition = "contested" THEN "coalesce" ELSE "store")
  /\ UNCHANGED <<tables, req, into, verdict, out>>

(* Seeded fault: IS NOT where the query compares the author with =.        *)
OpenForOthers(k, p, a) ==
  {e \in Open : contests[e].claim = k /\ contests[e].part = p
                                      /\ contests[e].author # a}

(* The open entries this agent already has against the slot.               *)
OpenFor(k, p, a) ==
  {e \in Open : contests[e].claim = k /\ contests[e].part = p
                                      /\ contests[e].author = a}

(* _adjudicate, second await: the oldest such entry, if any.  opened_at is *)
(* each writer's own clock, so any of several may come first.              *)
FindOpenContest(c) ==
  /\ pc[c] = "coalesce"
  /\ LET found == OpenFor(req[c].claim, req[c].part, req[c].agent) IN
     \/ \E e \in found : into' = [into EXCEPT ![c] = e]
     \/ found = {} /\ UNCHANGED into
  /\ Goto(c, "store")
  /\ UNCHANGED <<tables, req, dec, verdict, out>>

(* _ledger_write: the entry the write will be listed under.                *)
LedgerContest(c) ==
  IF dec[c].disposition = "admitted" THEN None
  ELSE IF into[c] # None THEN into[c] ELSE c

NewRecord(c) ==
  [content |-> req[c].content, claim |-> req[c].claim, part |-> req[c].part,
   supersedes |-> req[c].supersedes, author |-> req[c].agent,
   asserted |-> req[c].asserted,
   via |-> IF verdict[c] = None THEN None ELSE verdict[c].contest,
   disposition |-> dec[c].disposition]

(* Seeded fault: an entry starts counting at its second write.             *)
NewEntryUncounted(c) ==
  [record |-> req[c].id, claim |-> req[c].claim, part |-> req[c].part,
   author |-> req[c].agent, incumbents |-> dec[c].incumbents,
   trigger |-> dec[c].trigger, state |-> "open", resolution |-> None, count |-> 0]

NewEntry(c) ==
  [record |-> req[c].id, claim |-> req[c].claim, part |-> req[c].part,
   author |-> req[c].agent, incumbents |-> dec[c].incumbents,
   trigger |-> dec[c].trigger, state |-> "open", resolution |-> None, count |-> 1]

WriteReceipt(c) ==
  [call |-> c, record |-> req[c].id, claim |-> req[c].claim,
   agent |-> req[c].agent, disposition |-> dec[c].disposition,
   incumbents |-> dec[c].incumbents, trigger |-> dec[c].trigger,
   contest |-> LedgerContest(c), resolution |-> None, successor |-> None]

CountedUp(e) == [e EXCEPT !.count = @ + 1]

(* Seeded fault: a coalesced write does not count the entry up.            *)
WriteLedgerRowsUncounted(c) ==
  /\ contests' = IF LedgerContest(c) = c
                 THEN [contests EXCEPT ![c] = NewEntry(c)] ELSE contests
  /\ receipts' = IF req[c].claim = None THEN receipts
                 ELSE receipts \cup {WriteReceipt(c)}

(* _write_ledger_rows: open an entry, or count the one to coalesce into if *)
(* it is still open; a write that named no slot is not receipted.          *)
WriteLedgerRows(c) ==
  /\ contests' =
       IF dec[c].disposition = "admitted" THEN contests
       ELSE IF into[c] = None THEN [contests EXCEPT ![c] = NewEntry(c)]
       ELSE IF contests[into[c]].state = "open"
            THEN [contests EXCEPT ![into[c]] = CountedUp(contests[into[c]])]
       ELSE contests
  /\ receipts' = IF req[c].claim = None THEN receipts
                 ELSE receipts \cup {WriteReceipt(c)}

(* Back in the caller: a remember or supersede is over; the successor of   *)
(* an admit-superseding verdict hands over to the verdict's transaction.   *)
AfterStore(c) ==
  IF verdict[c] = None
  THEN Finish(c, "created", req[c].id, LedgerContest(c))
  ELSE /\ Goto(c, "resolve")
       /\ verdict' = [verdict EXCEPT ![c] = [verdict[c] EXCEPT !.successor = req[c].id]]
       /\ req' = [req EXCEPT ![c] = None]
       /\ dec' = [dec EXCEPT ![c] = None]
       /\ into' = [into EXCEPT ![c] = None]
       /\ UNCHANGED out

InsertRecord(c) ==
  /\ memories[req[c].id] = None
  /\ memories' = [memories EXCEPT ![req[c].id] = NewRecord(c)]
  /\ WriteLedgerRows(c)
  /\ AfterStore(c)

(* ON CONFLICT DO NOTHING, or the insert-only statement failing: a record  *)
(* that another call stored meanwhile is kept, and the ledger rows that    *)
(* were prepared are dropped, though the result still names their entry.   *)
KeepRetained(c) ==
  /\ memories[req[c].id] # None
  /\ IF Retains(req[c], memories[req[c].id])
     THEN Finish(c, "retained", req[c].id, LedgerContest(c)) /\ UNCHANGED tables
     ELSE Refuse(c)

(* Seeded fault: the unconditional upsert in place of the conditional one. *)
StoreUpserting(c) ==
  /\ pc[c] = "store"
  /\ memories' = [memories EXCEPT ![req[c].id] = NewRecord(c)]
  /\ WriteLedgerRows(c)
  /\ AfterStore(c)

(* The storing transaction: the record with its ledger rows, or nothing.   *)
Store(c) ==
  /\ pc[c] = "store"
  /\ InsertRecord(c) \/ KeepRetained(c)

-----------------------------------------------------------------------------
(* resolve_contest: read the entry and its record, then route the verdict. *)
(* The entry's state is not looked at here.  Both reads are one step: what *)
(* the call keeps of the entry never changes once it is written.           *)
BeginResolve(c) ==
  /\ pc[c] = "idle"
  /\ Cardinality(InFlight) < MaxInFlight
  /\ \E a \in Agent, e \in Entries, k \in Key \cup {None}, res \in Resolution,
        incumbent \in Stored(memories) \cup {None} :
       LET contested == memories[contests[e].record] IN
       /\ incumbent # None => res = "admit-superseding"
       /\ \/ /\ contested.part \in Access[a]
             /\ res = "split" => k # None
             /\ res = "admit-superseding" => incumbent # None
             /\ verdict' = [verdict EXCEPT ![c] =
                  [contest |-> e, resolution |-> res, newKey |-> k, by |-> a,
                   record |-> contests[e].record, claim |-> contested.claim,
                   part |-> contested.part, successor |-> None]]
             /\ IF res = "admit-superseding"
                THEN /\ req' = [req EXCEPT ![c] =
                          [agent |-> a, id |-> c, content |-> contested.content,
                           claim |-> contested.claim, supersedes |-> incumbent,
                           part |-> None, asserted |-> None, derived |-> FALSE,
                           createOnly |-> TRUE]]
                     /\ Goto(c, "old")
                ELSE /\ Goto(c, IF res = "split" THEN "free" ELSE "resolve")
                     /\ UNCHANGED req
             /\ UNCHANGED <<tables, dec, into, out>>
          \/ /\ \/ contested.part \notin Access[a]
                \/ res = "split" /\ k = None
                \/ res = "admit-superseding" /\ incumbent = None
             /\ Refuse(c)

(* split: the new key must be free, as of this read.                       *)
CheckFree(c) ==
  /\ pc[c] = "free"
  /\ LET held == Occupants(memories, verdict[c].newKey, verdict[c].part) IN
     \/ held = {} /\ Goto(c, "resolve") /\ UNCHANGED <<tables, locals, out>>
     \/ held # {} /\ Refuse(c)

(* Seeded fault: the verdict's receipt repeats the disposition it found.   *)
ResolveReceiptUnchanged(c) ==
  LET v == verdict[c]  e == contests[v.contest] IN
  [call |-> c, record |-> v.record,
   claim |-> IF v.newKey # None THEN v.newKey ELSE v.claim, agent |-> v.by,
   disposition |-> memories[v.record].disposition,
   incumbents |-> e.incumbents, trigger |-> e.trigger, contest |-> v.contest,
   resolution |-> v.resolution, successor |-> v.successor]

ResolveReceipt(c) ==
  LET v == verdict[c]  e == contests[v.contest] IN
  [call |-> c, record |-> v.record,
   claim |-> IF v.newKey # None THEN v.newKey ELSE v.claim, agent |-> v.by,
   disposition |-> IF Admits(v.resolution) THEN "admitted" ELSE "contested",
   incumbents |-> e.incumbents, trigger |-> e.trigger, contest |-> v.contest,
   resolution |-> v.resolution, successor |-> v.successor]

(* _apply_resolution_to_record: disposition and slot, never content.       *)
Refiled(m, v) ==
  [m EXCEPT !.disposition = IF Admits(v.resolution) THEN "admitted" ELSE @,
            !.claim = IF v.newKey # None THEN v.newKey ELSE @]

Closed(e, v) ==
  [e EXCEPT !.state = "resolved",
            !.resolution = v.resolution,
            !.claim = IF v.newKey # None THEN v.newKey ELSE @]

(* Seeded fault: the verdict's transaction does not look at the state.     *)
ResolveUnchecked(c) ==
  /\ pc[c] = "resolve"
  /\ LET v == verdict[c] IN
     /\ memories' = [memories EXCEPT ![v.record] = Refiled(memories[v.record], v)]
     /\ contests' = [contests EXCEPT ![v.contest] = Closed(contests[v.contest], v)]
     /\ receipts' = receipts \cup {ResolveReceipt(c)}
     /\ Finish(c, "resolved", v.record, v.contest)

(* Seeded fault: the record is admitted but its entry left as it was.      *)
ResolveLeavesEntry(c) ==
  /\ pc[c] = "resolve"
  /\ LET v == verdict[c] IN
     /\ contests[v.contest].state = "open"
     /\ memories' = [memories EXCEPT ![v.record] = Refiled(memories[v.record], v)]
     /\ receipts' = receipts \cup {ResolveReceipt(c)}
     /\ Finish(c, "resolved", v.record, v.contest)
     /\ UNCHANGED contests

(* The verdict's transaction: the entry must still be open; the record,    *)
(* the entry and the receipt change together.                              *)
Resolve(c) ==
  /\ pc[c] = "resolve"
  /\ LET v == verdict[c] IN
     \/ /\ contests[v.contest].state = "open"
        /\ memories' = [memories EXCEPT ![v.record] = Refiled(memories[v.record], v)]
        /\ contests' = [contests EXCEPT ![v.contest] = Closed(contests[v.contest], v)]
        /\ receipts' = receipts \cup {ResolveReceipt(c)}
        /\ Finish(c, "resolved", v.record, v.contest)
     \/ /\ contests[v.contest].state # "open"
        /\ Finish(c, "already-resolved", v.record, v.contest)
        /\ UNCHANGED tables

-----------------------------------------------------------------------------
(* The call's process or task goes away at an await.                       *)
Crash(c) ==
  /\ CrashesHappen
  /\ c \in InFlight
  /\ Finish(c, "crashed", None, None)
  /\ UNCHANGED tables

(* Every call has been made and has ended.                                 *)
Quiesce == (\A c \in Call : pc[c] = "done") /\ UNCHANGED vars

CallStep(c) ==
  \/ BeginRemember(c) \/ BeginSupersede(c) \/ BeginResolve(c)
  \/ ReadOld(c) \/ ReadLineage(c) \/ ReadExisting(c)
  \/ ReadSlot(c) \/ FindOpenContest(c) \/ Store(c)
  \/ CheckFree(c) \/ Resolve(c) \/ Crash(c)

Next == (\E c \in Call : CallStep(c)) \/ Quiesce

Spec == Init /\ [][Next]_vars

-----------------------------------------------------------------------------
(* Properties that hold however many calls interleave and wherever they die *)

TypeOK ==
  /\ memories \in [Rid -> Record \cup {None}]
  /\ contests \in [Call -> Entry \cup {None}]
  /\ receipts \subseteq Receipt
  /\ pc \in [Call -> Steps]
  /\ req \in [Call -> Request \cup {None}]
  /\ dec \in [Call -> Decision \cup {None}]
  /\ into \in [Call -> Call \cup {None}]
  /\ verdict \in [Call -> Verdict \cup {None}]
  /\ out \in [Call -> Outcome \cup {None}]

(* An open entry stands against a contested record; a resolved one left    *)
(* its record the way the verdict says, in the slot the entry is filed in; *)
(* no record has two entries (drift check 2 of _contested_drift, extended  *)
(* to the closed entries it does not look at).                             *)
OpenEntriesAreContested ==
  \A e \in Open : memories[contests[e].record].disposition = "contested"

ClosedAsDecided ==
  \A e \in Entries \ Open :
    (memories[contests[e].record].disposition = "admitted")
      <=> Admits(contests[e].resolution)

EntriesFollowRecords ==
  \A e \in Entries : /\ memories[contests[e].record] # None
                     /\ memories[contests[e].record].claim = contests[e].claim
                     /\ memories[contests[e].record].part = contests[e].part

OneEntryPerRecord ==
  \A e, f \in Entries : contests[e].record = contests[f].record => e = f

LedgerAgrees ==
  /\ EntriesFollowRecords
  /\ OneEntryPerRecord
  /\ OpenEntriesAreContested
  /\ ClosedAsDecided

(* What a contest was opened against is still there and still admitted:    *)
(* nothing ever demotes an incumbent, whatever verdicts follow.            *)
IncumbentsStand ==
  \A e \in Entries : /\ contests[e].incumbents # {}
                     /\ contests[e].incumbents \subseteq Admitted(memories)

(* The audit trail alone reproduces every disposition: a record filed      *)
(* under a key is admitted iff some write receipt says it was, and the     *)
(* receipt of a contested write names an entry the ledger has.             *)
ReceiptsReproduceDispositions ==
  /\ \A i \in Stored(memories) : memories[i].claim # None =>
       ( memories[i].disposition = "admitted"
           <=> \E r \in receipts : r.record = i /\ r.disposition = "admitted" )
  /\ \A i \in Stored(memories) : memories[i].disposition = "contested" =>
       \E r \in receipts : /\ r.record = i
                           /\ r.resolution = None
                           /\ r.contest \in Entries

(* occurrence_count of an open entry is the number of writes held aside    *)
(* under it; once closed it stops, and only writes already past their read *)
(* of the ledger can still name it.                                        *)
WritesUnder(e) == {r \in receipts : r.contest = e /\ r.resolution = None}

OccurrenceCountExact ==
  \A e \in Entries :
    /\ contests[e].count <= Cardinality(WritesUnder(e))
    /\ e \in Open => contests[e].count = Cardinality(WritesUnder(e))

(* Of all the calls racing to store one id, at most one is told it created *)
(* the record (_store_if_content_unchanged_sync, store_new).               *)
OneCreatorPerRecord ==
  \A c, d \in Call :
    /\ out[c] # None /\ out[c].status = "created"
    /\ out[d] # None /\ out[d].status = "created"
    /\ out[c].record = out[d].record
    => c = d

(* Nothing crosses a scope: whoever writes or decides can see the record,  *)
(* a contest is opened only against records of its own partition, and a    *)
(* successor stays in the partition of the record it supersedes when the   *)
(* supersede call made it.                                                 *)
ScopeConfinement ==
  /\ \A i \in Stored(memories) : memories[i].part \in Access[memories[i].author]
  /\ \A r \in receipts : memories[r.record].part \in Access[r.agent]
  /\ \A e \in Entries, i \in Rid :
       i \in contests[e].incumbents => memories[i].part = contests[e].part
  /\ \A i \in Stored(memories) : memories[i].via # None =>
       memories[i].part = memories[memories[i].supersedes].part

(* The gate judges a slot it read earlier than it stores, and the decision *)
(* still stands by then.  A write held aside would be held aside by a new  *)
(* look at the slot, whoever has joined it, as long as those it was shown  *)
(* hold it; with slot collision in force, a write let through over other   *)
(* content has declared replaced all it was shown, so that was one record. *)
SlotNow(c) ==
  SlotOccupants(memories, Occupants(memories, req[c].claim, req[c].part) \ {req[c].id})

StillContested(c) ==
  dec[c].incumbents \subseteq Occupants(memories, req[c].claim, req[c].part) =>
    Contested(req[c], SlotNow(c), Triggers)

ReplacesAllItSaw(c) ==
  /\ "slot-collision" \in Triggers
  /\ Differs(req[c], SlotOccupants(memories, dec[c].incumbents))
  => dec[c].incumbents = {req[c].supersedes}

DecisionsOutliveTheRead ==
  \A c \in Call : dec[c] # None =>
    IF dec[c].disposition = "contested" THEN StillContested(c) ELSE ReplacesAllItSaw(c)

(* A write that is held aside leaves every slot to whoever held it.        *)
AWriteIsHeldAside ==
  \E i \in Rid : /\ memories[i] = None /\ memories'[i] # None
                 /\ memories'[i].disposition = "contested"

SlotsAreKept ==
  \A k \in Key, p \in Part :
    Occupants(memories', k, p) = Occupants(memories, k, p)

ContestedWriteNeverDisplaces == [][AWriteIsHeldAside => SlotsAreKept]_vars

(* A stored record keeps its content, author, link and timestamp for good. *)
(* Its disposition and slot change only while contested, in the very step  *)
(* that closes its own entry ("nothing else changes a disposition").       *)
SameButDecided(m, n) ==
  n = [m EXCEPT !.disposition = n.disposition, !.claim = n.claim]

IsDecided(i) ==
  /\ memories[i].disposition = "contested"
  /\ SameButDecided(memories[i], memories'[i])
  /\ \E e \in Open : contests[e].record = i /\ contests'[e].state = "resolved"

RecordsAreKeptOrDecided ==
  \A i \in Stored(memories) : memories'[i] = memories[i] \/ IsDecided(i)

OnlyAVerdictChangesARecord == [][RecordsAreKeptOrDecided]_vars

(* Receipts are never removed, entries never deleted, and a verdict is     *)
(* given once: a closed entry never changes again.                         *)
LedgerGrows ==
  /\ receipts \subseteq receipts'
  /\ \A e \in Entries :
       /\ contests'[e] # None
       /\ contests'[e].record = contests[e].record
       /\ contests[e].state = "resolved" => contests'[e] = contests[e]

LedgerIsAppendOnly == [][LedgerGrows]_vars

-----------------------------------------------------------------------------
(* The inductive invariant.  A call's locals are what its step needs; what *)
(* it read of the ledger may be stale but never becomes false: entries are *)
(* not deleted, records are not demoted, and a contest id is used once.    *)

LocalsOK(c) ==
  /\ pc[c] \in {"old", "lineage", "get", "slot", "coalesce", "store"} =>
       req[c] # None
  /\ pc[c] \in {"lineage", "get", "slot", "coalesce", "store"} =>
       req[c].part # None
  /\ pc[c] \in {"old", "lineage"} => req[c].supersedes # None
  /\ pc[c] = "slot" => req[c].claim # None
  /\ pc[c] \in {"coalesce", "store"} <=> dec[c] # None
  /\ into[c] # None => pc[c] = "store"
  /\ pc[c] \in {"free", "resolve"} => verdict[c] # None
  /\ pc[c] = "free" => verdict[c].newKey # None

DecisionHolds(c) ==
  dec[c] # None /\ dec[c].disposition = "contested" =>
    /\ req[c] # None
    /\ req[c].claim # None
    /\ dec[c].trigger # None
    /\ dec[c].incumbents # {}
    /\ dec[c].incumbents \subseteq Admitted(memories)

ReadsStayTrue(c) ==
  /\ into[c] # None => into[c] \in Entries
  /\ verdict[c] # None => /\ verdict[c].contest \in Entries
                          /\ contests[verdict[c].contest].record = verdict[c].record
  /\ pc[c] \notin {"resolve", "done"} => contests[c] = None

LocalsInv == \A c \in Call : LocalsOK(c) /\ DecisionHolds(c) /\ ReadsStayTrue(c)

ReceiptsNeverOverstate ==
  \A r \in receipts :
    /\ memories[r.record] # None
    /\ r.disposition = "admitted" => memories[r.record].disposition = "admitted"

TablesInv == /\ LedgerAgrees
             /\ IncumbentsStand
             /\ ReceiptsNeverOverstate
             /\ ReceiptsReproduceDispositions

IInv == TypeOK /\ LocalsInv /\ TablesInv

(* What the gate was shown is still what it would be shown of the same     *)
(* records, which are still admitted and still of the partition written to *)
DecisionAsShown(c) ==
  dec[c] # None =>
    /\ dec[c].incumbents \subseteq Admitted(memories) \ {req[c].id}
    /\ \A i \in dec[c].incumbents : memories[i].part = req[c].part
    /\ dec[c] = Decide(req[c], SlotOccupants(memories, dec[c].incumbents), Triggers)

(* A caller writes where it can see, the successor an admit-superseding    *)
(* verdict writes goes where the record it names is, and a verdict is      *)
(* given on a record its giver can see.                                    *)
RequestScoped(c) ==
  /\ pc[c] = "idle" => req[c] = None /\ verdict[c] = None
  /\ req[c] # None /\ req[c].part # None =>
       /\ req[c].part \in Access[req[c].agent]
       /\ verdict[c] # None => /\ req[c].supersedes \in Stored(memories)
                               /\ memories[req[c].supersedes].part = req[c].part

VerdictScoped(c) ==
  verdict[c] # None => memories[verdict[c].record].part \in Access[verdict[c].by]

ScopedReads ==
  \A c \in Call : DecisionAsShown(c) /\ RequestScoped(c) /\ VerdictScoped(c)

(* For OccurrenceCountExact: a call's write is receipted when it is stored.*)
WritesCountedOnce ==
  \A r \in receipts : r.resolution = None => pc[r.call] \in {"resolve", "done"}

(* For OneCreatorPerRecord: what a call is told it created is there.       *)
Creator(c) == out[c] # None /\ out[c].status = "created"

CreatedAreStored ==
  \A c \in Call : Creator(c) => out[c].record \in Stored(memories)
=============================================================================
