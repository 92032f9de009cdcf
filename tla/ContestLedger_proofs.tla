------------------------ MODULE ContestLedger_proofs -------------------------
(***************************************************************************)
(* Proofs about ContestLedger, for every set of calls, agents, records,    *)
(* keys and partitions, and first about the gate it runs (ClaimSlots,      *)
(* aoms.contest.decide): what holds of its answer for every write, every   *)
(* slot of any size and every set of triggers.  The last two parts are     *)
(* about LedgerClaims: the life of a write it implements whatever          *)
(* interleaves, and what its claims amount to while no two calls overlap.  *)
(***************************************************************************)
EXTENDS LedgerClaims, TLAPS, FiniteSetTheorems

Ids(s) == {o.id : o \in s}

(* What decide answers, in one disjunction and one conjunction.            *)
LEMMA ContestedWhen ==
  ASSUME NEW w, NEW s, NEW enabled
  PROVE  Contested(w, s, enabled) <=>
           /\ w.claim # None
           /\ Differs(w, s)
           /\ \/ "derived-from-memory" \in enabled /\ w.derived
              \/ "retrograde-displacement" \in enabled /\ Retrograde(w, s)
              \/ "slot-collision" \in enabled /\ Undeclared(w, s)
BY DEF Contested, Decide, Admit, Contest

LEMMA DecisionShape ==
  ASSUME NEW w, NEW s, NEW enabled, w.claim # None
  PROVE  LET d == Decide(w, s, enabled) IN
         /\ d.disposition \in Disposition
         /\ d.incumbents = Ids(s)
         /\ d.disposition = "contested" => d.trigger \in enabled
BY DEF Decide, Admit, Contest, Ids, Disposition

(* Every test the gate makes of the occupants is monotone in them.         *)
LEMMA TestsAreMonotone ==
  ASSUME NEW w, NEW s, NEW larger, s \subseteq larger
  PROVE  /\ Differs(w, s) => Differs(w, larger)
         /\ Retrograde(w, s) => Retrograde(w, larger)
         /\ Undeclared(w, s) => Undeclared(w, larger)
BY DEF Differs, Retrograde, Undeclared

(* An occupant that a stale read of the slot missed, and a trigger that    *)
(* was off, can turn an admission into a contest, never a contest into an  *)
(* admission: what is contested against fewer occupants and under fewer    *)
(* triggers is contested against more.                                     *)
THEOREM ContestsAreMonotone ==
  ASSUME NEW w, NEW s, NEW larger, NEW enabled, NEW more,
         s \subseteq larger, enabled \subseteq more, Contested(w, s, enabled)
  PROVE  Contested(w, larger, more)
BY ContestedWhen, TestsAreMonotone

(* With slot collision in force, what is admitted over different content   *)
(* declared every occupant replaced, so there was exactly one.             *)
THEOREM AdmissionReplacesTheOccupant ==
  ASSUME NEW w, NEW s, NEW enabled, w.claim # None, ~ Contested(w, s, enabled),
         Differs(w, s), "slot-collision" \in enabled
  PROVE  Ids(s) = {w.supersedes}
<1>1. ~ Undeclared(w, s)
  BY ContestedWhen
<1>2. s # {}
  BY DEF Differs
<1> QED
  BY <1>1, <1>2 DEF Undeclared, Ids
-----------------------------------------------------------------------------
(* The ledger.                                                             *)

LEMMA NoneIsNothingElse ==
  /\ None \notin Rid /\ None \notin Call /\ None \notin Key /\ None \notin Part
  /\ None \notin AllTriggers /\ None \notin Resolution
  /\ None \notin Record /\ None \notin Request /\ None \notin Decision
  /\ None \notin Entry /\ None \notin Verdict /\ None \notin Outcome
  /\ \A a \in Agent : Access[a] \subseteq Part
BY SlotsAssumption, NoneAssumption DEF Rid

(* The record updates the actions make, field by field.                    *)
LEMMA InheritedRequest ==
  ASSUME NEW r \in Request, NEW old \in Record
  PROVE  /\ Inherited(r, old) \in Request
         /\ Inherited(r, old).part = old.part
         /\ Inherited(r, old).supersedes = r.supersedes
BY DEF Inherited, Request, Record

LEMMA CountedUpEntry ==
  ASSUME NEW e \in Entry
  PROVE  /\ CountedUp(e) \in Entry
         /\ CountedUp(e).record = e.record
         /\ CountedUp(e).claim = e.claim
         /\ CountedUp(e).part = e.part
         /\ CountedUp(e).incumbents = e.incumbents
         /\ CountedUp(e).state = e.state
         /\ CountedUp(e).resolution = e.resolution
         /\ CountedUp(e).author = e.author
BY DEF CountedUp, Entry

LEMMA RefiledRecord ==
  ASSUME NEW m \in Record, NEW v \in Verdict
  PROVE  /\ Refiled(m, v) \in Record
         /\ Refiled(m, v).part = m.part
         /\ Refiled(m, v).claim = IF v.newKey # None THEN v.newKey ELSE m.claim
         /\ Refiled(m, v).disposition =
              IF Admits(v.resolution) THEN "admitted" ELSE m.disposition
BY DEF Refiled, Record, Verdict, Disposition

LEMMA RefiledIsDecided ==
  ASSUME NEW m \in Record, NEW v
  PROVE  SameButDecided(m, Refiled(m, v))
BY DEF SameButDecided, Refiled, Record

LEMMA ClosedEntry ==
  ASSUME NEW e \in Entry, NEW v \in Verdict
  PROVE  /\ Closed(e, v) \in Entry
         /\ Closed(e, v).record = e.record
         /\ Closed(e, v).part = e.part
         /\ Closed(e, v).incumbents = e.incumbents
         /\ Closed(e, v).claim = IF v.newKey # None THEN v.newKey ELSE e.claim
         /\ Closed(e, v).state = "resolved"
         /\ Closed(e, v).resolution = v.resolution
BY DEF Closed, Entry, Verdict

(* A step that leaves the tables alone keeps every fact about them.        *)
LEMMA TablesKept ==
  ASSUME TablesInv, UNCHANGED tables
  PROVE  TablesInv'
<1>1. /\ Entries' = Entries /\ Open' = Open
      /\ Stored(memories)' = Stored(memories)
      /\ Admitted(memories)' = Admitted(memories)
  BY DEF tables, Entries, Open, Stored, Admitted
<1>2. LedgerAgrees'
  BY <1>1 DEF TablesInv, LedgerAgrees, EntriesFollowRecords, OneEntryPerRecord,
              OpenEntriesAreContested, ClosedAsDecided, tables
<1>3. IncumbentsStand'
  BY <1>1 DEF TablesInv, IncumbentsStand, tables
<1>4. ReceiptsNeverOverstate'
  BY DEF TablesInv, ReceiptsNeverOverstate, tables
<1>5. ReceiptsReproduceDispositions'
  BY <1>1 DEF TablesInv, ReceiptsReproduceDispositions, tables
<1> QED
  BY <1>2, <1>3, <1>4, <1>5 DEF TablesInv

-----------------------------------------------------------------------------
LEMMA InitInv == Init => IInv
<1> SUFFICES ASSUME Init PROVE IInv
  OBVIOUS
<1>1. TypeOK
  BY DEF Init, TypeOK, Steps
<1>2. Stored(memories) = {} /\ Entries = {} /\ Open = {}
  BY DEF Init, Stored, Entries, Open
<1>3. LocalsInv
  BY DEF Init, LocalsInv, LocalsOK, DecisionHolds, ReadsStayTrue
<1>4. LedgerAgrees /\ IncumbentsStand
  BY <1>2 DEF LedgerAgrees, EntriesFollowRecords, OneEntryPerRecord,
              OpenEntriesAreContested, ClosedAsDecided, IncumbentsStand
<1>5. ReceiptsNeverOverstate /\ ReceiptsReproduceDispositions
  BY <1>2 DEF Init, ReceiptsNeverOverstate, ReceiptsReproduceDispositions
<1> QED
  BY <1>1, <1>3, <1>4, <1>5 DEF IInv, TablesInv

-----------------------------------------------------------------------------
(* What no step of any call undoes, and what only call c can start: the    *)
(* premises under which the locals of every other call stay true.          *)
Grows(c) ==
  /\ Admitted(memories) \subseteq Admitted(memories')
  /\ \A e \in Entries : contests'[e] # None /\ contests'[e].record = contests[e].record
  /\ \A d \in Call \ {c} : contests[d] = None => contests'[d] = None

OthersKeep(c) ==
  \A d \in Call \ {c} :
    /\ pc'[d] = pc[d] /\ req'[d] = req[d] /\ dec'[d] = dec[d]
    /\ into'[d] = into[d] /\ verdict'[d] = verdict[d]

LEMMA GrowsIfTablesKept ==
  ASSUME NEW c \in Call, UNCHANGED tables
  PROVE  Grows(c)
BY DEF Grows, tables, Admitted, Stored, Entries

LEMMA OtherCallsKeep ==
  ASSUME NEW c \in Call, NEW d \in Call \ {c}, LocalsInv, Grows(c), OthersKeep(c)
  PROVE  LocalsOK(d)' /\ DecisionHolds(d)' /\ ReadsStayTrue(d)'
<1>1. LocalsOK(d)'
  BY DEF LocalsInv, LocalsOK, OthersKeep
<1>2. DecisionHolds(d)'
  BY DEF LocalsInv, DecisionHolds, OthersKeep, Grows
<1>3. ReadsStayTrue(d)'
  BY DEF LocalsInv, ReadsStayTrue, OthersKeep, Grows, Entries
<1> QED
  BY <1>1, <1>2, <1>3

(* A call that returns has no locals left, whatever it did to the tables.  *)
LEMMA FinishLocals ==
  ASSUME NEW c \in Call, NEW status, NEW record, NEW contest, TypeOK, LocalsInv,
         Finish(c, status, record, contest), Grows(c)
  PROVE  LocalsInv'
<1>1. OthersKeep(c)
  BY DEF TypeOK, OthersKeep, Finish, Goto
<1>2. /\ pc'[c] = "done" /\ req'[c] = None /\ dec'[c] = None
      /\ into'[c] = None /\ verdict'[c] = None
  BY DEF TypeOK, Finish, Goto
<1>3. LocalsOK(c)' /\ DecisionHolds(c)' /\ ReadsStayTrue(c)'
  BY <1>2 DEF LocalsOK, DecisionHolds, ReadsStayTrue
<1> QED
  BY <1>1, <1>3, OtherCallsKeep DEF LocalsInv

LEMMA FinishType ==
  ASSUME NEW c \in Call,
         NEW status \in {"created", "retained", "resolved", "already-resolved",
                         "refused", "crashed"},
         NEW record \in Rid \cup {None}, NEW contest \in Call \cup {None},
         TypeOK, Finish(c, status, record, contest)
  PROVE  /\ pc' \in [Call -> Steps]
         /\ req' \in [Call -> Request \cup {None}]
         /\ dec' \in [Call -> Decision \cup {None}]
         /\ into' \in [Call -> Call \cup {None}]
         /\ verdict' \in [Call -> Verdict \cup {None}]
         /\ out' \in [Call -> Outcome \cup {None}]
BY DEF TypeOK, Finish, Goto, Steps, Outcome

(* A call that returns without having changed a table.                     *)
LEMMA ReturnInv ==
  ASSUME NEW c \in Call,
         NEW status \in {"created", "retained", "resolved", "already-resolved",
                         "refused", "crashed"},
         NEW record \in Rid \cup {None}, NEW contest \in Call \cup {None},
         IInv, Finish(c, status, record, contest), UNCHANGED tables
  PROVE  IInv'
<1>1. TypeOK'
  BY FinishType DEF IInv, TypeOK, tables
<1>2. LocalsInv'
  BY FinishLocals, GrowsIfTablesKept DEF IInv
<1>3. TablesInv'
  BY TablesKept DEF IInv
<1> QED
  BY <1>1, <1>2, <1>3 DEF IInv

LEMMA RefuseInv ==
  ASSUME NEW c \in Call, IInv, Refuse(c)
  PROVE  IInv'
BY ReturnInv DEF Refuse

LEMMA CrashInv ==
  ASSUME NEW c \in Call, IInv, Crash(c)
  PROVE  IInv'
BY ReturnInv DEF Crash

(* A call that goes on to its next await without changing a table.         *)
LEMMA GoOnInv ==
  ASSUME NEW c \in Call, NEW step \in Steps, IInv, Goto(c, step),
         UNCHANGED <<tables, out>>,
         \A d \in Call \ {c} : /\ req'[d] = req[d] /\ dec'[d] = dec[d]
                               /\ into'[d] = into[d] /\ verdict'[d] = verdict[d],
         req' \in [Call -> Request \cup {None}],
         dec' \in [Call -> Decision \cup {None}],
         into' \in [Call -> Call \cup {None}],
         verdict' \in [Call -> Verdict \cup {None}],
         LocalsOK(c)', DecisionHolds(c)', ReadsStayTrue(c)'
  PROVE  IInv'
<1>1. TypeOK'
  BY DEF IInv, TypeOK, tables, Goto
<1>2. OthersKeep(c)
  BY DEF IInv, TypeOK, OthersKeep, Goto
<1>3. LocalsInv'
  BY <1>2, OtherCallsKeep, GrowsIfTablesKept DEF IInv, LocalsInv, tables
<1>4. TablesInv'
  BY TablesKept DEF IInv
<1> QED
  BY <1>1, <1>3, <1>4 DEF IInv

-----------------------------------------------------------------------------
(* Beginning a call.                                                       *)

LEMMA StoredIsRid == Stored(memories) \subseteq Rid
BY DEF Stored

(* A call that was idle, and that hands over its request, has no other     *)
(* local but the verdict it may have been given.                           *)
LEMMA BegunLocals ==
  ASSUME NEW c \in Call, NEW r \in Request, NEW step \in {"old", "get"}, IInv,
         pc[c] = "idle", Goto(c, step), req' = [req EXCEPT ![c] = r],
         UNCHANGED <<tables, dec, into>>,
         verdict'[c] = verdict[c] \/ ReadsStayTrue(c)',
         step = "get" => r.part # None,
         step = "old" => r.supersedes # None
  PROVE  LocalsOK(c)' /\ DecisionHolds(c)' /\ ReadsStayTrue(c)'
<1>1. pc'[c] = step /\ req'[c] = r /\ dec'[c] = None /\ into'[c] = None
      /\ r # None
  BY NoneIsNothingElse DEF IInv, TypeOK, LocalsInv, LocalsOK, Goto, Request
<1>2. LocalsOK(c)'
  BY <1>1 DEF LocalsOK
<1>3. DecisionHolds(c)'
  BY <1>1 DEF DecisionHolds
<1>4. ReadsStayTrue(c)'
  BY <1>1 DEF IInv, LocalsInv, ReadsStayTrue, tables, Entries
<1> QED
  BY <1>2, <1>3, <1>4

(* The requests that calls are begun with.                                 *)
LEMMA RememberShape ==
  ASSUME NEW c \in Call, BeginRemember(c)
  PROVE  \E r \in Request : /\ r.part # None /\ r.part \in Access[r.agent]
                            /\ req' = [req EXCEPT ![c] = r]
<1>1. PICK a \in Agent : \E i \in Id \cup {c}, x \in Content, k \in Key \cup {None},
           s \in Id \cup Stored(memories) \cup {None}, p \in Access[a],
           t \in Time \cup {None}, d \in BOOLEAN :
        /\ d => "derived-from-memory" \in Triggers
        /\ req' = [req EXCEPT ![c] =
             [agent |-> a, id |-> i, content |-> x, claim |-> k, supersedes |-> s,
              part |-> p, asserted |-> t, derived |-> d, createOnly |-> FALSE]]
  BY DEF BeginRemember
<1>2. PICK i \in Id \cup {c}, x \in Content, k \in Key \cup {None},
           s \in Id \cup Stored(memories) \cup {None}, p \in Access[a],
           t \in Time \cup {None}, d \in BOOLEAN :
        /\ d => "derived-from-memory" \in Triggers
        /\ req' = [req EXCEPT ![c] =
             [agent |-> a, id |-> i, content |-> x, claim |-> k, supersedes |-> s,
              part |-> p, asserted |-> t, derived |-> d, createOnly |-> FALSE]]
  BY <1>1
<1> DEFINE r == [agent |-> a, id |-> i, content |-> x, claim |-> k, supersedes |-> s,
                 part |-> p, asserted |-> t, derived |-> d, createOnly |-> FALSE]
<1>3. r \in Request /\ r.part # None /\ r.part \in Access[r.agent]
  BY NoneIsNothingElse, StoredIsRid DEF Request, Rid
<1> HIDE DEF r
<1>4. req' = [req EXCEPT ![c] = r]
  BY <1>2 DEF r
<1> QED
  BY <1>3, <1>4

LEMMA BeginRememberInv ==
  ASSUME NEW c \in Call, IInv, BeginRemember(c)
  PROVE  IInv'
<1>1. PICK r \in Request : r.part # None /\ req' = [req EXCEPT ![c] = r]
  BY RememberShape
<1>2. pc[c] = "idle" /\ Goto(c, "get") /\ UNCHANGED <<tables, dec, into, verdict, out>>
  BY DEF BeginRemember
<1>3. LocalsOK(c)' /\ DecisionHolds(c)' /\ ReadsStayTrue(c)'
  BY <1>1, <1>2, BegunLocals
<1> QED
  BY <1>1, <1>2, <1>3, GoOnInv DEF IInv, TypeOK, Steps

LEMMA SupersedeShape ==
  ASSUME NEW c \in Call, BeginSupersede(c)
  PROVE  \E r \in Request : /\ r.supersedes # None /\ r.part = None
                            /\ req' = [req EXCEPT ![c] = r]
<1>1. PICK a \in Agent, i \in Id \cup {c}, old \in Id \cup Stored(memories),
           x \in Content, k \in Key \cup {None}, t \in Time \cup {None}, d \in BOOLEAN :
        /\ d => "derived-from-memory" \in Triggers
        /\ req' = [req EXCEPT ![c] =
             [agent |-> a, id |-> i, content |-> x, claim |-> k, supersedes |-> old,
              part |-> None, asserted |-> t, derived |-> d, createOnly |-> TRUE]]
  BY DEF BeginSupersede
<1> DEFINE r == [agent |-> a, id |-> i, content |-> x, claim |-> k, supersedes |-> old,
                 part |-> None, asserted |-> t, derived |-> d, createOnly |-> TRUE]
<1>2. r \in Request /\ r.supersedes # None /\ r.part = None
  BY NoneIsNothingElse, StoredIsRid DEF Request, Rid
<1> HIDE DEF r
<1>3. req' = [req EXCEPT ![c] = r]
  BY <1>1 DEF r
<1> QED
  BY <1>2, <1>3

LEMMA BeginSupersedeInv ==
  ASSUME NEW c \in Call, IInv, BeginSupersede(c)
  PROVE  IInv'
<1>1. PICK r \in Request : r.supersedes # None /\ req' = [req EXCEPT ![c] = r]
  BY SupersedeShape
<1>2. pc[c] = "idle" /\ Goto(c, "old") /\ UNCHANGED <<tables, dec, into, verdict, out>>
  BY DEF BeginSupersede
<1>3. LocalsOK(c)' /\ DecisionHolds(c)' /\ ReadsStayTrue(c)'
  BY <1>1, <1>2, BegunLocals
<1> QED
  BY <1>1, <1>2, <1>3, GoOnInv DEF IInv, TypeOK, Steps

-----------------------------------------------------------------------------
(* The reads before the store.                                             *)

LEMMA ReadOldInv ==
  ASSUME NEW c \in Call, IInv, ReadOld(c)
  PROVE  IInv'
<1> DEFINE old == memories[req[c].supersedes]
           r == Inherited(req[c], old)
<1>1. CASE Refuse(c)
  BY <1>1, RefuseInv
<1>2. CASE ~ Refuse(c)
  <2>1. /\ pc[c] = "old" /\ old # None /\ Goto(c, "lineage")
        /\ req' = [req EXCEPT ![c] = r]
        /\ UNCHANGED <<tables, dec, into, verdict, out>>
    BY <1>2 DEF ReadOld
  <2>2. req[c] \in Request /\ req[c].supersedes \in Rid
    BY <2>1 DEF IInv, LocalsInv, LocalsOK, TypeOK, Request
  <2>3. old \in Record /\ old.part # None
    BY <2>1, <2>2, NoneIsNothingElse DEF IInv, TypeOK, Record
  <2>4. r \in Request /\ r.part # None /\ r.supersedes # None
    BY <2>2, <2>3, InheritedRequest, NoneIsNothingElse
  <2> HIDE DEF r, old
  <2>5. pc'[c] = "lineage" /\ req'[c] = r /\ r # None
        /\ dec[c] = None /\ into[c] = None
    BY <2>1, <2>4, NoneIsNothingElse
       DEF IInv, TypeOK, LocalsInv, LocalsOK, Goto, Request
  <2>6. LocalsOK(c)' /\ DecisionHolds(c)'
    BY <2>1, <2>4, <2>5 DEF LocalsOK, DecisionHolds
  <2>7. ReadsStayTrue(c)'
    BY <2>1, <2>5 DEF IInv, LocalsInv, ReadsStayTrue, tables, Entries
  <2> QED
    BY <2>1, <2>4, <2>6, <2>7, GoOnInv DEF IInv, TypeOK, Steps
<1> QED
  BY <1>1, <1>2

LEMMA ReadLineageInv ==
  ASSUME NEW c \in Call, IInv, ReadLineage(c)
  PROVE  IInv'
<1>1. CASE Refuse(c)
  BY <1>1, RefuseInv
<1>2. CASE ~ Refuse(c)
  <2>1. pc[c] = "lineage" /\ Goto(c, "get") /\ UNCHANGED <<tables, locals, out>>
    BY <1>2 DEF ReadLineage
  <2>2. LocalsOK(c)' /\ DecisionHolds(c)' /\ ReadsStayTrue(c)'
    BY <2>1 DEF IInv, TypeOK, LocalsInv, LocalsOK, DecisionHolds, ReadsStayTrue,
                Goto, tables, locals, Entries
  <2> QED
    BY <2>1, <2>2, GoOnInv DEF IInv, TypeOK, Steps, locals
<1> QED
  BY <1>1, <1>2

(* The gate: a decision names the occupants it was shown, and a contest    *)
(* is never opened against an empty slot.                                  *)
LEMMA ShownIds ==
  ASSUME NEW m, NEW ids
  PROVE  {o.id : o \in SlotOccupants(m, ids)} = ids
<1> DEFINE Shown(i) == [id |-> i, content |-> m[i].content, asserted |-> m[i].asserted]
<1>1. SlotOccupants(m, ids) = {Shown(i) : i \in ids}
  BY DEF SlotOccupants
<1>2. \A i : Shown(i).id = i
  OBVIOUS
<1> HIDE DEF Shown
<1>3. ASSUME NEW i \in ids PROVE i \in {o.id : o \in SlotOccupants(m, ids)}
  <2>1. Shown(i) \in SlotOccupants(m, ids)
    BY <1>1
  <2> QED
    BY <1>2, <2>1
<1>4. ASSUME NEW o \in SlotOccupants(m, ids) PROVE o.id \in ids
  BY <1>1, <1>2
<1> QED
  BY <1>3, <1>4

LEMMA DecideSound ==
  ASSUME NEW w, NEW slot, NEW enabled, {o.id : o \in slot} \subseteq Rid
  PROVE  /\ Decide(w, slot, enabled) \in Decision
         /\ Decide(w, slot, enabled).disposition = "contested" =>
              /\ w.claim # None
              /\ Decide(w, slot, enabled).trigger # None
              /\ Decide(w, slot, enabled).incumbents # {}
              /\ Decide(w, slot, enabled).incumbents = {o.id : o \in slot}
<1> DEFINE ids == {o.id : o \in slot}
<1>1. \A t \in AllTriggers :
        /\ Contest(ids, t) \in Decision /\ Contest(ids, t).trigger # None
        /\ Contest(ids, t).incumbents = ids
        /\ Contest(ids, t).disposition = "contested"
  BY NoneIsNothingElse DEF Contest, Decision, Disposition
<1>2. \A S \in SUBSET Rid :
        Admit(S) \in Decision /\ Admit(S).disposition = "admitted"
  BY DEF Admit, Decision, Disposition
<1>3. Differs(w, slot) => ids # {}
  BY DEF Differs
<1> HIDE DEF ids
<1>4. \/ \E S \in SUBSET Rid : Decide(w, slot, enabled) = Admit(S)
      \/ /\ w.claim # None /\ Differs(w, slot)
         /\ \E t \in AllTriggers : Decide(w, slot, enabled) = Contest(ids, t)
  BY DEF Decide, AllTriggers, ids
<1> QED
  BY <1>1, <1>2, <1>3, <1>4 DEF ids

LEMMA ReadExistingInv ==
  ASSUME NEW c \in Call, IInv, ReadExisting(c)
  PROVE  IInv'
<1> DEFINE r == req[c]
<1>1. pc[c] = "get" /\ r \in Request /\ r.id \in Rid /\ r.part # None
      /\ into[c] = None /\ dec[c] = None
  BY DEF ReadExisting, IInv, TypeOK, LocalsInv, LocalsOK, Request
<1>2. CASE Refuse(c)
  BY <1>2, RefuseInv
<1>3. CASE Finish(c, "retained", r.id, None) /\ UNCHANGED tables
  BY <1>1, <1>3, ReturnInv
<1>4. CASE /\ r.claim = None /\ dec' = [dec EXCEPT ![c] = Admit({})]
           /\ Goto(c, "store")
           /\ UNCHANGED <<tables, req, into, verdict, out>>
  <2>1. Admit({}) \in Decision /\ Admit({}).disposition = "admitted"
    BY DEF Admit, Decision, Disposition
  <2>2. pc'[c] = "store" /\ req'[c] = r /\ r # None /\ dec'[c] = Admit({})
        /\ dec'[c] # None
    BY <1>1, <1>4, <2>1, NoneIsNothingElse DEF IInv, TypeOK, Goto
  <2>3. LocalsOK(c)'
    BY <1>1, <2>2, <1>4 DEF LocalsOK
  <2>4. DecisionHolds(c)'
    BY <2>1, <2>2 DEF DecisionHolds
  <2>5. ReadsStayTrue(c)'
    BY <1>1, <1>4, <2>2 DEF IInv, LocalsInv, ReadsStayTrue, tables, Entries
  <2> QED
    BY <1>4, <2>1, <2>3, <2>4, <2>5, GoOnInv DEF IInv, TypeOK, Steps
<1>5. CASE r.claim # None /\ Goto(c, "slot")
           /\ UNCHANGED <<tables, req, dec, into, verdict, out>>
  <2>1. pc'[c] = "slot" /\ req'[c] = r /\ r # None
    BY <1>1, <1>5, NoneIsNothingElse DEF IInv, TypeOK, Goto
  <2>2. LocalsOK(c)' /\ DecisionHolds(c)'
    BY <1>1, <1>5, <2>1 DEF LocalsOK, DecisionHolds
  <2>3. ReadsStayTrue(c)'
    BY <1>1, <1>5, <2>1 DEF IInv, LocalsInv, ReadsStayTrue, tables, Entries
  <2> QED
    BY <1>5, <2>2, <2>3, GoOnInv DEF IInv, TypeOK, Steps
<1> QED
  BY <1>2, <1>3, <1>4, <1>5 DEF ReadExisting

LEMMA ReadSlotInv ==
  ASSUME NEW c \in Call, IInv, ReadSlot(c)
  PROVE  IInv'
<1> DEFINE r    == req[c]
           held == Occupants(memories, r.claim, r.part) \ {r.id}
           slot == SlotOccupants(memories, held)
           d    == Decide(r, slot, Triggers)
           step == IF d.disposition = "contested" THEN "coalesce" ELSE "store"
<1>1. /\ pc[c] = "slot" /\ Goto(c, step) /\ dec' = [dec EXCEPT ![c] = d]
      /\ UNCHANGED <<tables, req, into, verdict, out>>
  BY DEF ReadSlot
<1>2. held \subseteq Admitted(memories) /\ held \subseteq Rid
  BY DEF Occupants, Filed, Admitted, Stored
<1>3. d \in Decision /\ (d.disposition = "contested" =>
         /\ r.claim # None /\ d.trigger # None
         /\ d.incumbents # {} /\ d.incumbents = held)
  <2>1. {o.id : o \in slot} = held
    BY ShownIds
  <2> HIDE DEF slot, held
  <2> QED
    BY <1>2, <2>1, DecideSound, ZenonT(40)
<1> HIDE DEF held, slot, d
<1>4. r # None /\ r.part # None /\ into[c] = None
  BY <1>1 DEF IInv, TypeOK, LocalsInv, LocalsOK
<1>5. pc'[c] = step /\ req'[c] = r /\ dec'[c] = d /\ d # None /\ into'[c] = None
  BY <1>1, <1>3, <1>4, NoneIsNothingElse DEF IInv, TypeOK, Goto
<1>6. LocalsOK(c)'
  BY <1>4, <1>5 DEF LocalsOK
<1>7. DecisionHolds(c)'
  BY <1>1, <1>2, <1>3, <1>4, <1>5 DEF DecisionHolds, tables
<1>8. ReadsStayTrue(c)'
  BY <1>1, <1>5 DEF IInv, LocalsInv, ReadsStayTrue, tables, Entries
<1>9. step \in Steps
  BY DEF Steps
<1> QED
  BY <1>1, <1>3, <1>6, <1>7, <1>8, <1>9, GoOnInv DEF IInv, TypeOK

LEMMA FindOpenContestInv ==
  ASSUME NEW c \in Call, IInv, FindOpenContest(c)
  PROVE  IInv'
<1>1. /\ pc[c] = "coalesce" /\ Goto(c, "store")
      /\ UNCHANGED <<tables, req, dec, verdict, out>>
  BY DEF FindOpenContest
<1>2. PICK e \in Entries \cup {into[c]} : into' = [into EXCEPT ![c] = e]
  BY DEF FindOpenContest, OpenFor, Open, IInv, TypeOK
<1>3. /\ pc'[c] = "store" /\ into'[c] = e /\ into[c] = None
      /\ e \in Entries \cup {None} /\ Entries \subseteq Call
  BY <1>1, <1>2 DEF IInv, TypeOK, LocalsInv, LocalsOK, Goto, Entries
<1>4. LocalsOK(c)' /\ DecisionHolds(c)'
  BY <1>1, <1>3 DEF IInv, LocalsInv, LocalsOK, DecisionHolds, tables
<1>5. ReadsStayTrue(c)'
  BY <1>1, <1>3 DEF IInv, LocalsInv, ReadsStayTrue, tables, Entries
<1> QED
  BY <1>1, <1>2, <1>3, <1>4, <1>5, GoOnInv DEF IInv, TypeOK, Steps

-----------------------------------------------------------------------------
(* The verdict's reads.                                                    *)

LEMMA CheckFreeInv ==
  ASSUME NEW c \in Call, IInv, CheckFree(c)
  PROVE  IInv'
<1>1. CASE Refuse(c)
  BY <1>1, RefuseInv
<1>2. CASE ~ Refuse(c)
  <2>1. pc[c] = "free" /\ Goto(c, "resolve") /\ UNCHANGED <<tables, locals, out>>
    BY <1>2 DEF CheckFree
  <2>2. pc'[c] = "resolve"
    BY <2>1 DEF IInv, TypeOK, Goto
  <2>3. LocalsOK(c)' /\ DecisionHolds(c)' /\ ReadsStayTrue(c)'
    BY <2>1, <2>2 DEF IInv, LocalsInv, LocalsOK, DecisionHolds, ReadsStayTrue,
                      tables, locals, Entries
  <2> QED
    BY <2>1, <2>3, GoOnInv DEF IInv, TypeOK, Steps, locals
<1> QED
  BY <1>1, <1>2

(* What the ledger knows of the record an entry stands against.            *)
LEMMA ContestedRecord ==
  ASSUME NEW e \in Entries, IInv
  PROVE  /\ e \in Call /\ contests[e] \in Entry /\ contests[e].record \in Rid
         /\ memories[contests[e].record] \in Record
         /\ memories[contests[e].record].claim \in Key
         /\ memories[contests[e].record].part \in Part
<1>1. e \in Call /\ contests[e] \in Entry
  BY DEF Entries, IInv, TypeOK
<1>2. contests[e].record \in Rid /\ contests[e].claim \in Key
  BY <1>1 DEF Entry
<1>3. /\ memories[contests[e].record] # None
      /\ memories[contests[e].record].claim = contests[e].claim
  BY DEF IInv, TablesInv, LedgerAgrees, EntriesFollowRecords
<1>4. memories[contests[e].record] \in Record
  BY <1>2, <1>3 DEF IInv, TypeOK
<1> QED
  BY <1>1, <1>2, <1>3, <1>4 DEF Record

(* The two shapes of a verdict that goes on.                               *)
Opens(c, v, e) ==
  /\ v \in Verdict
  /\ v.contest = e
  /\ v.record = contests[e].record
  /\ v.part = memories[v.record].part /\ v.part \in Access[v.by]
  /\ verdict' = [verdict EXCEPT ![c] = v]
  /\ UNCHANGED <<tables, dec, into, out>>

Appends(c, v, e) ==
  /\ Opens(c, v, e)
  /\ v.resolution # "split"
  /\ \E r \in Request : /\ r.supersedes # None /\ r.part = None
                         /\ req' = [req EXCEPT ![c] = r]
  /\ Goto(c, "old")

Decides(c, v, e) ==
  /\ Opens(c, v, e)
  /\ UNCHANGED req
  /\ \/ Goto(c, "resolve") /\ v.resolution # "split"
     \/ Goto(c, "free") /\ v.newKey # None

LEMMA BeginResolveShape ==
  ASSUME NEW c \in Call, IInv, BeginResolve(c)
  PROVE  \/ Refuse(c)
         \/ \E e \in Entries, v \in Verdict : Appends(c, v, e) \/ Decides(c, v, e)
<1>1. PICK a \in Agent, e \in Entries, k \in Key \cup {None}, res \in Resolution,
           incumbent \in Stored(memories) \cup {None} :
       LET contested == memories[contests[e].record] IN
       /\ incumbent # None => res = "admit-superseding"
       /\ \/ /\ contested.part \in Access[a]
             /\ res = "split" => k # None
             /\ res = "admit-superseding" => incumbent # None
             /\ verdict' = [verdict EXCEPT ![c] =
                  [contest |-> e, resolution |-> res, newKey |-> k, by |-> a,
                   record |-> contests[e].record, claim |-> contested.claim,
                   part |-> contested.part, successor |-> None]]
             /\ IF res = "admit-superseding"
                THEN /\ req' = [req EXCEPT ![c] =
                          [agent |-> a, id |-> c, content |-> contested.content,
                           claim |-> contested.claim, supersedes |-> incumbent,
                           part |-> None, asserted |-> None, derived |-> FALSE,
                           createOnly |-> TRUE]]
                     /\ Goto(c, "old")
                ELSE /\ Goto(c, IF res = "split" THEN "free" ELSE "resolve")
                     /\ UNCHANGED req
             /\ UNCHANGED <<tables, dec, into, out>>
          \/ /\ \/ contested.part \notin Access[a]
                \/ res = "split" /\ k = None
                \/ res = "admit-superseding" /\ incumbent = None
             /\ Refuse(c)
  BY DEF BeginResolve
<1> DEFINE contested == memories[contests[e].record]
           v == [contest |-> e, resolution |-> res, newKey |-> k, by |-> a,
                 record |-> contests[e].record, claim |-> contested.claim,
                 part |-> contested.part, successor |-> None]
           r == [agent |-> a, id |-> c, content |-> contested.content,
                 claim |-> contested.claim, supersedes |-> incumbent,
                 part |-> None, asserted |-> None, derived |-> FALSE,
                 createOnly |-> TRUE]
<1>2. /\ e \in Call /\ contests[e].record \in Rid /\ contested \in Record
      /\ contested.claim \in Key /\ contested.part \in Part
  BY ContestedRecord
<1>3. contested.content \in Content
  BY <1>2 DEF Record
<1> HIDE DEF contested
<1>4. /\ v \in Verdict /\ v.contest = e /\ v.record = contests[e].record
      /\ v.newKey = k /\ v.by = a /\ v.resolution = res /\ v.part = contested.part
  BY <1>2 DEF Verdict
<1>5. incumbent # None => r \in Request /\ r.supersedes # None /\ r.part = None
  BY <1>2, <1>3, StoredIsRid DEF Request, Rid
<1> HIDE DEF v, r
<1>6. CASE Refuse(c)
  BY <1>6
<1>7. CASE /\ contested.part \in Access[a]
           /\ res = "admit-superseding" /\ incumbent # None
           /\ verdict' = [verdict EXCEPT ![c] = v] /\ req' = [req EXCEPT ![c] = r]
           /\ Goto(c, "old") /\ UNCHANGED <<tables, dec, into, out>>
  BY <1>4, <1>5, <1>7 DEF Appends, Opens, contested
<1>8. CASE /\ contested.part \in Access[a]
           /\ res # "admit-superseding" /\ (res = "split" => k # None)
           /\ verdict' = [verdict EXCEPT ![c] = v] /\ UNCHANGED req
           /\ Goto(c, IF res = "split" THEN "free" ELSE "resolve")
           /\ UNCHANGED <<tables, dec, into, out>>
  BY <1>4, <1>8 DEF Decides, Opens, contested
<1> QED
  BY <1>1, <1>6, <1>7, <1>8 DEF v, r, contested

LEMMA BeginResolveInv ==
  ASSUME NEW c \in Call, IInv, BeginResolve(c)
  PROVE  IInv'
<1>1. pc[c] = "idle" /\ dec[c] = None /\ into[c] = None /\ contests[c] = None
  BY DEF BeginResolve, IInv, LocalsInv, LocalsOK, ReadsStayTrue
<1>2. CASE Refuse(c)
  BY <1>2, RefuseInv
<1>3. ASSUME NEW e \in Entries, NEW v \in Verdict, Opens(c, v, e)
      PROVE  /\ verdict'[c] = v /\ v # None
             /\ verdict' \in [Call -> Verdict \cup {None}]
             /\ \A d \in Call \ {c} : verdict'[d] = verdict[d]
             /\ v.contest \in Entries' /\ contests'[v.contest].record = v.record
  BY <1>3, NoneIsNothingElse DEF Opens, IInv, TypeOK, Entries, tables
<1>4. ASSUME NEW e \in Entries, NEW v \in Verdict, Appends(c, v, e)
      PROVE  IInv'
  <2>1. PICK r \in Request : r.supersedes # None /\ req' = [req EXCEPT ![c] = r]
    BY <1>4 DEF Appends
  <2>2. Goto(c, "old") /\ UNCHANGED <<tables, dec, into, out>>
    BY <1>4 DEF Appends, Opens
  <2>3. pc'[c] = "old"
    BY <2>2 DEF Goto, IInv, TypeOK
  <2>4. ReadsStayTrue(c)'
    BY <1>1, <1>3, <1>4, <2>2, <2>3 DEF ReadsStayTrue, Appends, tables
  <2>5. LocalsOK(c)' /\ DecisionHolds(c)'
    BY <1>1, <2>1, <2>2, <2>4, BegunLocals
  <2> QED
    BY <1>3, <1>4, <2>1, <2>2, <2>4, <2>5, GoOnInv
       DEF IInv, TypeOK, Steps, Appends
<1>5. ASSUME NEW e \in Entries, NEW v \in Verdict, Decides(c, v, e)
      PROVE  IInv'
  <2>1. PICK step \in {"resolve", "free"} :
          Goto(c, step) /\ (step = "free" => v.newKey # None)
    BY <1>5 DEF Decides
  <2>2. UNCHANGED <<tables, req, dec, into, out>>
    BY <1>5 DEF Decides, Opens
  <2>3. pc'[c] = step
    BY <2>1 DEF Goto, IInv, TypeOK, Steps
  <2>4. ReadsStayTrue(c)'
    BY <1>1, <1>3, <1>5, <2>2, <2>3 DEF ReadsStayTrue, Decides, tables
  <2>5. LocalsOK(c)' /\ DecisionHolds(c)'
    BY <1>1, <1>3, <1>5, <2>1, <2>2, <2>3 DEF LocalsOK, DecisionHolds, Decides
  <2> QED
    BY <1>3, <1>5, <2>1, <2>2, <2>4, <2>5, GoOnInv
       DEF IInv, TypeOK, Steps, Decides
<1> QED
  BY <1>2, <1>4, <1>5, BeginResolveShape

-----------------------------------------------------------------------------
(* The storing transaction.                                                *)

(* Two entries that say the same of everything but their count.            *)
SameButCount(e, f) ==
  /\ f.record = e.record /\ f.claim = e.claim /\ f.part = e.part
  /\ f.incumbents = e.incumbents /\ f.state = e.state
  /\ f.resolution = e.resolution /\ f.author = e.author

Storing(c) ==
  /\ pc[c] = "store"
  /\ memories[req[c].id] = None
  /\ memories' = [memories EXCEPT ![req[c].id] = NewRecord(c)]
  /\ WriteLedgerRows(c)

LEMMA StoreLocals ==
  ASSUME NEW c \in Call, IInv, pc[c] = "store"
  PROVE  /\ req[c] \in Request /\ req[c].id \in Rid /\ req[c].part \in Part
         /\ dec[c] \in Decision /\ into[c] \in Entries \cup {None}
         /\ contests[c] = None
         /\ dec[c].disposition # "admitted" =>
              /\ dec[c].disposition = "contested"
              /\ req[c].claim \in Key /\ dec[c].trigger \in AllTriggers
              /\ dec[c].incumbents # {}
              /\ dec[c].incumbents \subseteq Admitted(memories)
<1>1. /\ req[c] \in Request /\ dec[c] \in Decision /\ req[c].part # None
      /\ into[c] \in Entries \cup {None} /\ contests[c] = None
  BY DEF IInv, TypeOK, LocalsInv, LocalsOK, ReadsStayTrue
<1>2. /\ req[c].id \in Rid /\ req[c].part \in Part /\ req[c].claim \in Key \cup {None}
      /\ dec[c].trigger \in AllTriggers \cup {None}
      /\ dec[c].disposition \in {"admitted", "contested"}
  BY <1>1 DEF Request, Decision, Disposition
<1>3. dec[c] # None
  BY <1>1, NoneIsNothingElse
<1> QED
  BY <1>1, <1>2, <1>3 DEF IInv, LocalsInv, DecisionHolds

LEMMA NewRecordType ==
  ASSUME NEW c \in Call, IInv, pc[c] = "store"
  PROVE  /\ NewRecord(c) \in Record /\ NewRecord(c) # None
         /\ NewRecord(c).claim = req[c].claim
         /\ NewRecord(c).part = req[c].part
         /\ NewRecord(c).disposition = dec[c].disposition
<1> DEFINE via == IF verdict[c] = None THEN None ELSE verdict[c].contest
<1>1. via \in Call \cup {None}
  BY DEF IInv, TypeOK, Verdict
<1>2. /\ req[c].content \in Content /\ req[c].claim \in Key \cup {None}
      /\ req[c].supersedes \in Rid \cup {None} /\ req[c].agent \in Agent
      /\ req[c].asserted \in Time \cup {None} /\ req[c].part \in Part
  BY StoreLocals DEF Request
<1>3. dec[c].disposition \in Disposition
  BY StoreLocals DEF Decision
<1> HIDE DEF via
<1>4. NewRecord(c) =
        [content |-> req[c].content, claim |-> req[c].claim, part |-> req[c].part,
         supersedes |-> req[c].supersedes, author |-> req[c].agent,
         asserted |-> req[c].asserted, via |-> via,
         disposition |-> dec[c].disposition]
  BY DEF NewRecord, via
<1>5. NewRecord(c) \in Record
  BY <1>1, <1>2, <1>3, <1>4 DEF Record
<1> QED
  BY <1>4, <1>5, NoneIsNothingElse

LEMMA NewEntryType ==
  ASSUME NEW c \in Call, IInv, pc[c] = "store", dec[c].disposition # "admitted"
  PROVE  /\ NewEntry(c) \in Entry
         /\ NewEntry(c).record = req[c].id /\ NewEntry(c).claim = req[c].claim
         /\ NewEntry(c).part = req[c].part /\ NewEntry(c).state = "open"
         /\ NewEntry(c).incumbents = dec[c].incumbents
<1>1. req[c].agent \in Agent /\ dec[c].incumbents \in SUBSET Rid
  BY StoreLocals DEF Request, Decision
<1>2. 1 \in Nat \ {0}
  OBVIOUS
<1>3. NewEntry(c) \in Entry
  BY <1>1, <1>2, StoreLocals DEF NewEntry, Entry
<1> QED
  BY <1>3 DEF NewEntry

LEMMA WriteReceiptType ==
  ASSUME NEW c \in Call, IInv, pc[c] = "store", req[c].claim # None
  PROVE  /\ WriteReceipt(c) \in Receipt
         /\ WriteReceipt(c).record = req[c].id
         /\ WriteReceipt(c).disposition = dec[c].disposition
         /\ WriteReceipt(c).resolution = None
         /\ WriteReceipt(c).contest = LedgerContest(c)
<1>1. LedgerContest(c) \in Call \cup {None}
  BY StoreLocals DEF LedgerContest, Entries
<1>2. /\ req[c].id \in Rid /\ req[c].claim \in Key /\ req[c].agent \in Agent
      /\ dec[c].incumbents \in SUBSET Rid /\ dec[c].disposition \in Disposition
      /\ dec[c].trigger \in AllTriggers \cup {None}
  BY StoreLocals DEF Request, Decision
<1>3. WriteReceipt(c) \in Receipt
  BY <1>1, <1>2 DEF WriteReceipt, Receipt
<1> QED
  BY <1>3 DEF WriteReceipt

(* What the ledger's rows look like after the store: the entries there     *)
(* were keep all but their count, and at most one is new, that of c.       *)
LEMMA LedgerRows ==
  ASSUME NEW c \in Call, IInv, pc[c] = "store", WriteLedgerRows(c)
  PROVE  /\ contests' \in [Call -> Entry \cup {None}]
         /\ \A e \in Entries :
              /\ contests'[e] # None
              /\ SameButCount(contests[e], contests'[e])
              /\ contests[e].state = "resolved" => contests'[e] = contests[e]
         /\ Entries \subseteq Entries' /\ Entries' \subseteq Entries \cup {c}
         /\ c \in Entries' => /\ dec[c].disposition = "contested"
                               /\ contests'[c] = NewEntry(c)
         /\ dec[c].disposition = "contested" => LedgerContest(c) \in Entries'
<1> USE StoreLocals
<1>1. contests \in [Call -> Entry \cup {None}] /\ c \notin Entries
  BY DEF IInv, TypeOK, Entries
<1>2. \A e \in Entries : /\ contests[e] # None /\ contests[e] \in Entry
                         /\ SameButCount(contests[e], contests[e])
  BY <1>1 DEF SameButCount, Entries
<1>3. CASE contests' = contests /\ (dec[c].disposition = "contested" => into[c] # None)
  BY <1>1, <1>2, <1>3 DEF Entries, LedgerContest
<1>4. CASE /\ dec[c].disposition # "admitted" /\ into[c] = None
           /\ contests' = [contests EXCEPT ![c] = NewEntry(c)]
  <2>1. NewEntry(c) \in Entry /\ NewEntry(c) # None
    BY <1>4, NewEntryType, NoneIsNothingElse
  <2>2. Entries' = Entries \cup {c} /\ LedgerContest(c) = c
    BY <1>1, <1>4, <2>1 DEF Entries, LedgerContest
  <2> QED
    BY <1>1, <1>2, <1>4, <2>1, <2>2
<1>5. CASE /\ into[c] \in Entries /\ dec[c].disposition # "admitted"
           /\ contests[into[c]].state = "open"
           /\ contests' = [contests EXCEPT ![into[c]] = CountedUp(contests[into[c]])]
  <2> DEFINE f == CountedUp(contests[into[c]])
  <2>1. f \in Entry /\ SameButCount(contests[into[c]], f)
    BY <1>2, <1>5, CountedUpEntry DEF SameButCount
  <2>2. f # None
    BY <2>1, NoneIsNothingElse
  <2> HIDE DEF f
  <2>3. contests' = [contests EXCEPT ![into[c]] = f]
    BY <1>5 DEF f
  <2>4. Entries' = Entries /\ LedgerContest(c) = into[c]
    BY <1>1, <1>5, <2>2, <2>3, NoneIsNothingElse DEF Entries, LedgerContest
  <2> QED
    BY <1>1, <1>2, <1>5, <2>1, <2>2, <2>3, <2>4 DEF Entries
<1> QED
  BY <1>1, <1>3, <1>4, <1>5 DEF WriteLedgerRows

(* What the tables look like after the store.                              *)
LEMMA StoredTables ==
  ASSUME NEW c \in Call, IInv, Storing(c)
  PROVE  /\ memories' \in [Rid -> Record \cup {None}]
         /\ receipts' \subseteq Receipt
         /\ Stored(memories') = Stored(memories) \cup {req[c].id}
         /\ Stored(memories) \subseteq Rid \ {req[c].id}
         /\ \A j \in Stored(memories) : memories'[j] = memories[j]
         /\ memories'[req[c].id] = NewRecord(c)
         /\ Admitted(memories) \subseteq Admitted(memories')
         /\ receipts \subseteq receipts'
         /\ req[c].claim # None => receipts' = receipts \cup {WriteReceipt(c)}
         /\ req[c].claim = None => receipts' = receipts
<1> DEFINE i == req[c].id
<1>1. i \in Rid /\ NewRecord(c) \in Record /\ NewRecord(c) # None
  BY StoreLocals, NewRecordType DEF Storing
<1>2. memories[i] = None /\ memories' = [memories EXCEPT ![i] = NewRecord(c)]
  BY DEF Storing
<1> HIDE DEF i
<1>3. memories \in [Rid -> Record \cup {None}] /\ receipts \subseteq Receipt
  BY DEF IInv, TypeOK
<1>4. /\ memories' \in [Rid -> Record \cup {None}] /\ memories'[i] = NewRecord(c)
      /\ \A j \in Rid \ {i} : memories'[j] = memories[j]
  BY <1>1, <1>2, <1>3
<1>5. /\ Stored(memories') = Stored(memories) \cup {i}
      /\ Stored(memories) \subseteq Rid \ {i}
  BY <1>1, <1>2, <1>4 DEF Stored
<1>6. Admitted(memories) \subseteq Admitted(memories')
  BY <1>4, <1>5 DEF Admitted
<1>7. /\ req[c].claim # None => receipts' = receipts \cup {WriteReceipt(c)}
      /\ req[c].claim = None => receipts' = receipts
  BY DEF Storing, WriteLedgerRows
<1>8. receipts' \subseteq Receipt /\ receipts \subseteq receipts'
  BY <1>3, <1>7, WriteReceiptType DEF Storing
<1> QED
  BY <1>4, <1>5, <1>6, <1>7, <1>8 DEF i

LEMMA StoreGrows ==
  ASSUME NEW c \in Call, IInv, Storing(c)
  PROVE  Grows(c)
<1>1. Admitted(memories) \subseteq Admitted(memories')
  BY StoredTables
<1>2. \A e \in Entries : contests'[e] # None /\ contests'[e].record = contests[e].record
  BY LedgerRows DEF Storing, SameButCount
<1>3. \A d \in Call \ {c} : contests[d] = None => contests'[d] = None
  BY LedgerRows DEF Storing, Entries
<1> QED
  BY <1>1, <1>2, <1>3 DEF Grows

LEMMA StoreTables ==
  ASSUME NEW c \in Call, IInv, Storing(c)
  PROVE  TablesInv'
<1> DEFINE i == req[c].id
<1>1. pc[c] = "store" /\ WriteLedgerRows(c) /\ c \notin Entries
  BY StoreLocals DEF Storing, Entries
<1>2. \A e \in Entries : /\ contests[e].record \in Stored(memories)
                         /\ memories'[contests[e].record] = memories[contests[e].record]
                         /\ contests[e].record # i
  BY StoredTables, ContestedRecord, NoneIsNothingElse DEF Stored
<1>3. \A e \in Entries : e \in Entries' /\ SameButCount(contests[e], contests'[e])
  BY <1>1, LedgerRows
<1>4. ASSUME NEW e \in Entries', e \notin Entries
      PROVE  /\ e = c /\ dec[c].disposition = "contested"
             /\ contests'[e].record = i /\ contests'[e].claim = req[c].claim
             /\ contests'[e].part = req[c].part /\ contests'[e].state = "open"
             /\ contests'[e].incumbents = dec[c].incumbents
  BY <1>1, <1>4, LedgerRows, NewEntryType
<1>5. /\ memories'[i] = NewRecord(c) /\ NewRecord(c) # None
      /\ NewRecord(c).claim = req[c].claim /\ NewRecord(c).part = req[c].part
      /\ NewRecord(c).disposition = dec[c].disposition
  BY <1>1, StoredTables, NewRecordType
<1> HIDE DEF i
<1>6. EntriesFollowRecords'
  BY <1>2, <1>3, <1>4, <1>5
     DEF IInv, TablesInv, LedgerAgrees, EntriesFollowRecords, SameButCount
<1>7. OneEntryPerRecord'
  BY <1>2, <1>3, <1>4 DEF IInv, TablesInv, LedgerAgrees, OneEntryPerRecord, SameButCount
<1>8. OpenEntriesAreContested'
  BY <1>2, <1>3, <1>4, <1>5
     DEF IInv, TablesInv, LedgerAgrees, OpenEntriesAreContested, SameButCount, Open
<1>9. ClosedAsDecided'
  BY <1>2, <1>3, <1>4 DEF IInv, TablesInv, LedgerAgrees, ClosedAsDecided, SameButCount, Open
<1>10. IncumbentsStand'
  <2>1. Admitted(memories) \subseteq Admitted(memories')
    BY StoredTables
  <2>2. dec[c].disposition = "contested" =>
          dec[c].incumbents # {} /\ dec[c].incumbents \subseteq Admitted(memories)
    BY <1>1, StoreLocals
  <2> QED
    BY <1>3, <1>4, <2>1, <2>2 DEF IInv, TablesInv, IncumbentsStand, SameButCount
<1>11. ReceiptsNeverOverstate'
  <2>1. ASSUME NEW r \in receipts
        PROVE  memories'[r.record] = memories[r.record] /\ memories[r.record] # None
    <3>1. r.record \in Stored(memories)
      BY DEF IInv, TypeOK, Receipt, TablesInv, ReceiptsNeverOverstate, Stored
    <3> QED
      BY <3>1, StoredTables DEF Stored
  <2>2. ASSUME NEW r \in receipts', r \notin receipts
        PROVE  r.record = i /\ r.disposition = dec[c].disposition
    BY <1>1, <2>2, StoredTables, WriteReceiptType DEF i
  <2> QED
    BY <1>5, <2>1, <2>2 DEF IInv, TablesInv, ReceiptsNeverOverstate
<1>12. ReceiptsReproduceDispositions'
  <2>1. \A r \in receipts : r.record # i
    BY StoredTables DEF IInv, TablesInv, ReceiptsNeverOverstate, Storing, i
  <2>2. req[c].claim # None =>
          /\ receipts' = receipts \cup {WriteReceipt(c)}
          /\ WriteReceipt(c).record = i
          /\ WriteReceipt(c).disposition = dec[c].disposition
          /\ WriteReceipt(c).resolution = None
          /\ dec[c].disposition = "contested" => WriteReceipt(c).contest \in Entries'
    BY <1>1, StoredTables, WriteReceiptType, LedgerRows DEF i
  <2>3. dec[c].disposition = "contested" => req[c].claim # None
    BY <1>1, StoreLocals, NoneIsNothingElse
  <2>4. receipts' = receipts \/ (req[c].claim # None /\ receipts' = receipts \cup {WriteReceipt(c)})
    BY StoredTables
  <2>5. ASSUME NEW j \in Stored(memories)
        PROVE  /\ memories'[j] = memories[j] /\ j # i
               /\ \A r \in receipts' : r.record = j => r \in receipts
    BY <2>2, <2>4, StoredTables DEF i
  <2>6. ASSUME NEW j \in Stored(memories)', memories'[j].claim # None
        PROVE  memories'[j].disposition = "admitted"
                 <=> \E r \in receipts' : r.record = j /\ r.disposition = "admitted"
    <3>1. CASE j = i
      BY <1>5, <2>1, <2>2, <2>6, <3>1
    <3>2. CASE j \in Stored(memories)
      BY <2>4, <2>5, <2>6, <3>2 DEF IInv, TablesInv, ReceiptsReproduceDispositions
    <3> QED
      BY <3>1, <3>2, StoredTables DEF i
  <2>7. ASSUME NEW j \in Stored(memories)', memories'[j].disposition = "contested"
        PROVE  \E r \in receipts' : /\ r.record = j /\ r.resolution = None
                                    /\ r.contest \in Entries'
    <3>1. CASE j = i
      BY <1>5, <2>2, <2>3, <2>7, <3>1
    <3>2. CASE j \in Stored(memories)
      BY <1>3, <2>4, <2>5, <2>7, <3>2 DEF IInv, TablesInv, ReceiptsReproduceDispositions
    <3> QED
      BY <3>1, <3>2, StoredTables DEF i
  <2> QED
    BY <2>6, <2>7 DEF ReceiptsReproduceDispositions
<1> QED
  BY <1>6, <1>7, <1>8, <1>9, <1>10, <1>11, <1>12 DEF TablesInv, LedgerAgrees

LEMMA StoreInv ==
  ASSUME NEW c \in Call, IInv, Store(c)
  PROVE  IInv'
<1>1. CASE KeepRetained(c)
  <2>1. pc[c] = "store" /\ LedgerContest(c) \in Call \cup {None} /\ req[c].id \in Rid
    BY StoreLocals DEF Store, LedgerContest, Entries
  <2> QED
    BY <1>1, <2>1, RefuseInv, ReturnInv DEF KeepRetained
<1>2. CASE InsertRecord(c)
  <2>1. Storing(c) /\ AfterStore(c)
    BY <1>2 DEF Store, InsertRecord, Storing
  <2>2. /\ Grows(c) /\ TablesInv'
        /\ memories' \in [Rid -> Record \cup {None}] /\ receipts' \subseteq Receipt
        /\ contests' \in [Call -> Entry \cup {None}]
    BY <2>1, StoreGrows, StoreTables, StoredTables, LedgerRows DEF Storing
  <2>3. LedgerContest(c) \in Call \cup {None} /\ req[c].id \in Rid
    BY <2>1, StoreLocals DEF Storing, LedgerContest, Entries
  <2>4. CASE Finish(c, "created", req[c].id, LedgerContest(c))
    <3>1. TypeOK'
      BY <2>2, <2>3, <2>4, FinishType DEF IInv, TypeOK
    <3> QED
      BY <2>2, <2>4, <3>1, FinishLocals DEF IInv
  <2>5. CASE verdict[c] # None
    <3> DEFINE v == [verdict[c] EXCEPT !.successor = req[c].id]
    <3>1. /\ v \in Verdict /\ v.contest = verdict[c].contest
          /\ v.record = verdict[c].record
      BY <2>3, <2>5 DEF IInv, TypeOK, Verdict
    <3>2. v # None
      BY <3>1, NoneIsNothingElse
    <3> HIDE DEF v
    <3>3. /\ Goto(c, "resolve") /\ verdict' = [verdict EXCEPT ![c] = v]
          /\ req' = [req EXCEPT ![c] = None] /\ dec' = [dec EXCEPT ![c] = None]
          /\ into' = [into EXCEPT ![c] = None] /\ UNCHANGED out
      BY <2>1, <2>5 DEF AfterStore, v
    <3>4. TypeOK'
      BY <2>2, <3>1, <3>3 DEF IInv, TypeOK, Goto, Steps
    <3>5. OthersKeep(c) /\ pc'[c] = "resolve" /\ verdict'[c] = v
          /\ req'[c] = None /\ dec'[c] = None /\ into'[c] = None
      BY <3>3 DEF IInv, TypeOK, OthersKeep, Goto
    <3>6. LocalsOK(c)' /\ DecisionHolds(c)'
      BY <3>2, <3>5 DEF LocalsOK, DecisionHolds
    <3>7. ReadsStayTrue(c)'
      BY <2>2, <2>5, <3>1, <3>5 DEF IInv, LocalsInv, ReadsStayTrue, Grows, Entries
    <3>8. LocalsInv'
      BY <2>2, <3>5, <3>6, <3>7, OtherCallsKeep DEF IInv, LocalsInv
    <3> QED
      BY <2>2, <3>4, <3>8 DEF IInv
  <2> QED
    BY <2>1, <2>4, <2>5 DEF AfterStore
<1> QED
  BY <1>1, <1>2 DEF Store

-----------------------------------------------------------------------------
(* The verdict's transaction.                                              *)

Deciding(c) ==
  LET v == verdict[c] IN
  /\ pc[c] = "resolve"
  /\ contests[v.contest].state = "open"
  /\ memories' = [memories EXCEPT ![v.record] = Refiled(memories[v.record], v)]
  /\ contests' = [contests EXCEPT ![v.contest] = Closed(contests[v.contest], v)]
  /\ receipts' = receipts \cup {ResolveReceipt(c)}

LEMMA DecidingLocals ==
  ASSUME NEW c \in Call, IInv, pc[c] = "resolve"
  PROVE  /\ verdict[c] \in Verdict /\ verdict[c].contest \in Entries
         /\ verdict[c].contest \in Call /\ verdict[c].record \in Rid
         /\ contests[verdict[c].contest] \in Entry
         /\ contests[verdict[c].contest].record = verdict[c].record
         /\ memories[verdict[c].record] \in Record
         /\ memories[verdict[c].record].claim # None
<1>1. verdict[c] \in Verdict /\ verdict[c] # None
  BY DEF IInv, TypeOK, LocalsInv, LocalsOK
<1>2. /\ verdict[c].contest \in Entries
      /\ contests[verdict[c].contest].record = verdict[c].record
  BY <1>1 DEF IInv, LocalsInv, ReadsStayTrue
<1> QED
  BY <1>1, <1>2, ContestedRecord, NoneIsNothingElse

LEMMA ResolveReceiptType ==
  ASSUME NEW c \in Call, IInv, pc[c] = "resolve"
  PROVE  /\ ResolveReceipt(c) \in Receipt
         /\ ResolveReceipt(c).record = verdict[c].record
         /\ ResolveReceipt(c).resolution = verdict[c].resolution
         /\ ResolveReceipt(c).disposition =
              IF Admits(verdict[c].resolution) THEN "admitted" ELSE "contested"
<1> DEFINE e == contests[verdict[c].contest]
           claim == IF verdict[c].newKey # None THEN verdict[c].newKey ELSE verdict[c].claim
           found == IF Admits(verdict[c].resolution) THEN "admitted" ELSE "contested"
<1>1. /\ verdict[c].record \in Rid /\ verdict[c].contest \in Call
      /\ verdict[c].by \in Agent /\ verdict[c].resolution \in Resolution
      /\ verdict[c].successor \in Rid \cup {None} /\ claim \in Key
  BY DecidingLocals DEF Verdict
<1>2. e.incumbents \in SUBSET Rid /\ e.trigger \in AllTriggers
  BY DecidingLocals DEF Entry
<1>3. found \in Disposition
  BY DEF Disposition
<1>4. ResolveReceipt(c) =
        [call |-> c, record |-> verdict[c].record, claim |-> claim,
         agent |-> verdict[c].by, disposition |-> found,
         incumbents |-> e.incumbents, trigger |-> e.trigger,
         contest |-> verdict[c].contest, resolution |-> verdict[c].resolution,
         successor |-> verdict[c].successor]
  BY DEF ResolveReceipt
<1> HIDE DEF e, claim, found
<1>5. ResolveReceipt(c) \in Receipt
  BY <1>1, <1>2, <1>3, <1>4 DEF Receipt
<1>6. /\ ResolveReceipt(c).record = verdict[c].record
      /\ ResolveReceipt(c).resolution = verdict[c].resolution
      /\ ResolveReceipt(c).disposition = found
  BY <1>4
<1> QED
  BY <1>5, <1>6 DEF found

(* What the tables look like after a verdict: one record, its one entry,   *)
(* one more receipt.                                                       *)
LEMMA DecidedTables ==
  ASSUME NEW c \in Call, IInv, Deciding(c)
  PROVE  LET v == verdict[c]
             e == v.contest
             i == v.record
         IN /\ memories' \in [Rid -> Record \cup {None}]
            /\ contests' \in [Call -> Entry \cup {None}]
            /\ receipts' \subseteq Receipt
            /\ memories[i].disposition = "contested"
            /\ memories'[i] = Refiled(memories[i], v)
            /\ memories'[i].part = memories[i].part
            /\ memories'[i].claim = IF v.newKey # None THEN v.newKey ELSE memories[i].claim
            /\ memories'[i].disposition =
                 IF Admits(v.resolution) THEN "admitted" ELSE "contested"
            /\ \A j \in Rid \ {i} : memories'[j] = memories[j]
            /\ Stored(memories') = Stored(memories)
            /\ Admitted(memories) \subseteq Admitted(memories')
            /\ contests'[e].record = i
            /\ contests'[e].part = contests[e].part
            /\ contests'[e].incumbents = contests[e].incumbents
            /\ contests'[e].claim = IF v.newKey # None THEN v.newKey ELSE contests[e].claim
            /\ contests'[e].state = "resolved"
            /\ contests'[e].resolution = v.resolution
            /\ \A f \in Call \ {e} : contests'[f] = contests[f]
            /\ Entries' = Entries
<1> DEFINE v == verdict[c]
           e == v.contest
           i == v.record
           m == Refiled(memories[i], v)
           f == Closed(contests[e], v)
<1>1. /\ v \in Verdict /\ e \in Entries /\ e \in Call /\ i \in Rid
      /\ contests[e] \in Entry /\ contests[e].record = i
      /\ memories[i] \in Record /\ pc[c] = "resolve" /\ contests[e].state = "open"
  BY DecidingLocals DEF Deciding
<1>2. memories[i].disposition = "contested"
  BY <1>1 DEF IInv, TablesInv, LedgerAgrees, OpenEntriesAreContested, Open
<1>3. /\ m \in Record /\ m.part = memories[i].part
      /\ m.claim = IF v.newKey # None THEN v.newKey ELSE memories[i].claim
      /\ m.disposition = IF Admits(v.resolution) THEN "admitted" ELSE "contested"
  BY <1>1, <1>2, RefiledRecord
<1>4. /\ f \in Entry /\ f.record = i /\ f.part = contests[e].part
      /\ f.incumbents = contests[e].incumbents /\ f.state = "resolved"
      /\ f.claim = IF v.newKey # None THEN v.newKey ELSE contests[e].claim
      /\ f.resolution = v.resolution
  BY <1>1, ClosedEntry
<1>5. m # None /\ f # None
  BY <1>3, <1>4, NoneIsNothingElse
<1>6. /\ memories' = [memories EXCEPT ![i] = m] /\ contests' = [contests EXCEPT ![e] = f]
      /\ receipts' = receipts \cup {ResolveReceipt(c)}
  BY DEF Deciding
<1> HIDE DEF v, e, i, m, f
<1>7. /\ memories' \in [Rid -> Record \cup {None}] /\ memories'[i] = m
      /\ \A j \in Rid \ {i} : memories'[j] = memories[j]
  BY <1>1, <1>3, <1>6 DEF IInv, TypeOK
<1>8. /\ contests' \in [Call -> Entry \cup {None}] /\ contests'[e] = f
      /\ \A g \in Call \ {e} : contests'[g] = contests[g]
  BY <1>1, <1>4, <1>6 DEF IInv, TypeOK
<1>9. Stored(memories') = Stored(memories) /\ Entries' = Entries
  <2>1. memories[i] # None /\ contests[e] # None
    BY <1>1, NoneIsNothingElse
  <2>2. Stored(memories') = Stored(memories)
    BY <1>1, <1>5, <1>7, <2>1 DEF Stored
  <2>3. Entries' = Entries
    BY <1>1, <1>5, <1>8, <2>1 DEF Entries
  <2> QED
    BY <2>2, <2>3
<1>10. Admitted(memories) \subseteq Admitted(memories')
  BY <1>2, <1>7, <1>9 DEF Admitted, Stored
<1>11. receipts' \subseteq Receipt
  BY <1>1, <1>6, ResolveReceiptType DEF IInv, TypeOK
<1> QED
  BY <1>2, <1>3, <1>4, <1>7, <1>8, <1>9, <1>10, <1>11 DEF v, e, i, m, f

LEMMA DecidingTables ==
  ASSUME NEW c \in Call, IInv, Deciding(c), NEW v, v = verdict[c],
         NEW e, e = v.contest, NEW i, i = v.record
  PROVE  TablesInv'
<1>1. /\ e \in Entries /\ contests[e].record = i /\ i \in Rid /\ e \in Call
      /\ i \in Stored(memories) /\ contests[e].state = "open"
      /\ memories[i].claim # None /\ pc[c] = "resolve"
  BY DecidingLocals, NoneIsNothingElse DEF Deciding, Stored
<1>2. /\ memories[i].disposition = "contested"
      /\ memories'[i].part = memories[i].part
      /\ memories'[i].claim = IF v.newKey # None THEN v.newKey ELSE memories[i].claim
      /\ memories'[i].disposition =
           IF Admits(v.resolution) THEN "admitted" ELSE "contested"
      /\ \A j \in Rid \ {i} : memories'[j] = memories[j]
      /\ Stored(memories') = Stored(memories)
      /\ Admitted(memories) \subseteq Admitted(memories')
  BY DecidedTables
<1>3. /\ contests'[e].record = i /\ contests'[e].part = contests[e].part
      /\ contests'[e].incumbents = contests[e].incumbents
      /\ contests'[e].claim = IF v.newKey # None THEN v.newKey ELSE contests[e].claim
      /\ contests'[e].state = "resolved" /\ contests'[e].resolution = v.resolution
      /\ \A f \in Call \ {e} : contests'[f] = contests[f]
      /\ Entries' = Entries
  BY DecidedTables
<1>4. /\ receipts' = receipts \cup {ResolveReceipt(c)}
      /\ ResolveReceipt(c).record = i
      /\ ResolveReceipt(c).disposition =
           IF Admits(v.resolution) THEN "admitted" ELSE "contested"
  BY <1>1, ResolveReceiptType DEF Deciding
<1>5. \A f \in Entries : /\ f \in Call /\ contests[f].record \in Rid
                         /\ contests[f].record \in Stored(memories)
                         /\ f # e => contests[f].record # i
  BY <1>1, ContestedRecord, NoneIsNothingElse
     DEF IInv, TablesInv, LedgerAgrees, OneEntryPerRecord, Stored
<1>6. ASSUME NEW f \in Entries, f # e
      PROVE  /\ contests'[f] = contests[f]
             /\ memories'[contests[f].record] = memories[contests[f].record]
  <2>1. f \in Call \ {e} /\ contests[f].record \in Rid \ {i}
    BY <1>5, <1>6
  <2>2. contests'[f] = contests[f]
    BY <1>3, <2>1
  <2>3. \A j \in Rid \ {i} : memories'[j] = memories[j]
    BY <1>2
  <2> QED
    BY <2>1, <2>2, <2>3
<1>7. EntriesFollowRecords' /\ OneEntryPerRecord'
  <2>1. ASSUME NEW f \in Entries
        PROVE  /\ memories'[contests'[f].record] # None
               /\ memories'[contests'[f].record].claim = contests'[f].claim
               /\ memories'[contests'[f].record].part = contests'[f].part
    <3>1. CASE f = e
      BY <1>1, <1>2, <1>3, <3>1
         DEF IInv, TablesInv, LedgerAgrees, EntriesFollowRecords, Stored
    <3>2. CASE f # e
      BY <1>6, <3>2 DEF IInv, TablesInv, LedgerAgrees, EntriesFollowRecords
    <3> QED
      BY <3>1, <3>2
  <2>2. \A f \in Entries : contests'[f].record = contests[f].record
    BY <1>1, <1>3, <1>6
  <2> QED
    BY <1>3, <2>1, <2>2
       DEF EntriesFollowRecords, IInv, TablesInv, LedgerAgrees, OneEntryPerRecord
<1>8. OpenEntriesAreContested'
  <2>1. \A f \in Entries : contests'[f].state = "open" => f # e /\ contests[f].state = "open"
    BY <1>3, <1>6
  <2> QED
    BY <1>3, <1>6, <2>1 DEF IInv, TablesInv, LedgerAgrees, OpenEntriesAreContested, Open
<1>9. ClosedAsDecided'
  <2>1. ASSUME NEW f \in Entries, contests'[f].state # "open"
        PROVE  memories'[contests'[f].record].disposition = "admitted"
                 <=> Admits(contests'[f].resolution)
    <3>1. CASE f = e
      BY <1>2, <1>3, <3>1
    <3>2. CASE f # e
      BY <1>6, <2>1, <3>2 DEF IInv, TablesInv, LedgerAgrees, ClosedAsDecided, Open
    <3> QED
      BY <3>1, <3>2
  <2> QED
    BY <1>3, <2>1 DEF ClosedAsDecided, Open
<1>10. IncumbentsStand'
  <2>1. \A f \in Entries : contests'[f].incumbents = contests[f].incumbents
    BY <1>3, <1>6
  <2> QED
    BY <1>2, <1>3, <2>1 DEF IInv, TablesInv, IncumbentsStand
<1>11. \A r \in receipts : r.record \in Stored(memories)
  BY DEF IInv, TypeOK, Receipt, TablesInv, ReceiptsNeverOverstate, Stored
<1>12. ReceiptsNeverOverstate'
  <2>1. ASSUME NEW r \in receipts, r.disposition = "admitted"
        PROVE  r.record # i /\ memories'[r.record].disposition = "admitted"
    BY <1>2, <1>11, <2>1 DEF IInv, TablesInv, ReceiptsNeverOverstate, Stored
  <2>2. \A r \in receipts' : r.record \in Stored(memories')
    BY <1>1, <1>2, <1>4, <1>11
  <2>3. \A r \in receipts' \ receipts : r = ResolveReceipt(c)
    BY <1>4
  <2> QED
    BY <1>2, <1>4, <2>1, <2>2, <2>3 DEF ReceiptsNeverOverstate, Stored
<1>13. ReceiptsReproduceDispositions'
  <2>1. ASSUME NEW j \in Stored(memories)', memories'[j].claim # None
        PROVE  memories'[j].disposition = "admitted"
                 <=> \E r \in receipts' : r.record = j /\ r.disposition = "admitted"
    <3>1. CASE j = i
      <4>1. \A r \in receipts : r.record = i => r.disposition # "admitted"
        BY <1>2 DEF IInv, TablesInv, ReceiptsNeverOverstate
      <4> QED
        BY <1>2, <1>4, <3>1, <4>1
    <3>2. CASE j # i
      <4>1. memories'[j] = memories[j] /\ j \in Stored(memories)
        BY <1>2, <3>2 DEF Stored
      <4> QED
        BY <1>4, <2>1, <3>2, <4>1 DEF IInv, TablesInv, ReceiptsReproduceDispositions
    <3> QED
      BY <3>1, <3>2
  <2>2. ASSUME NEW j \in Stored(memories)', memories'[j].disposition = "contested"
        PROVE  \E r \in receipts' : /\ r.record = j /\ r.resolution = None
                                    /\ r.contest \in Entries'
    <3>1. j \in Stored(memories) /\ memories[j].disposition = "contested"
      BY <1>2, <2>2 DEF Stored
    <3> QED
      BY <1>3, <1>4, <3>1 DEF IInv, TablesInv, ReceiptsReproduceDispositions
  <2> QED
    BY <2>1, <2>2 DEF ReceiptsReproduceDispositions
<1> QED
  BY <1>7, <1>8, <1>9, <1>10, <1>12, <1>13 DEF TablesInv, LedgerAgrees

LEMMA ResolveInv ==
  ASSUME NEW c \in Call, IInv, Resolve(c)
  PROVE  IInv'
<1>1. /\ pc[c] = "resolve"
      /\ verdict[c].record \in Rid \cup {None} /\ verdict[c].contest \in Call \cup {None}
  BY DecidingLocals DEF Resolve
<1>2. CASE Finish(c, "already-resolved", verdict[c].record, verdict[c].contest)
           /\ UNCHANGED tables
  BY <1>1, <1>2, ReturnInv
<1>3. CASE Deciding(c) /\ Finish(c, "resolved", verdict[c].record, verdict[c].contest)
  <2>1. /\ memories' \in [Rid -> Record \cup {None}] /\ receipts' \subseteq Receipt
        /\ contests' \in [Call -> Entry \cup {None}]
    BY <1>3, DecidedTables
  <2>2. TypeOK'
    BY <1>1, <1>3, <2>1, FinishType DEF TypeOK, IInv
  <2>3. Grows(c)
    <3>1. Admitted(memories) \subseteq Admitted(memories')
      BY <1>3, DecidedTables
    <3>2. /\ contests'[verdict[c].contest].record = contests[verdict[c].contest].record
          /\ \A f \in Call \ {verdict[c].contest} : contests'[f] = contests[f]
          /\ Entries' = Entries
      BY <1>1, <1>3, DecidedTables, DecidingLocals
    <3> QED
      BY <3>1, <3>2 DEF Grows, Entries
  <2>4. LocalsInv'
    BY <1>3, <2>3, FinishLocals DEF IInv
  <2>5. TablesInv'
    BY <1>3, DecidingTables
  <2> QED
    BY <2>2, <2>4, <2>5 DEF IInv
<1> QED
  BY <1>1, <1>2, <1>3 DEF Resolve, Deciding

-----------------------------------------------------------------------------
(* The invariant.                                                          *)

LEMMA StutterInv ==
  ASSUME IInv, UNCHANGED vars
  PROVE  IInv'
<1>1. UNCHANGED tables /\ pc' = pc /\ req' = req /\ dec' = dec /\ into' = into
      /\ verdict' = verdict /\ out' = out
  BY DEF vars, tables
<1>2. TypeOK'
  BY <1>1 DEF IInv, TypeOK, tables
<1>3. LocalsInv'
  BY <1>1 DEF IInv, LocalsInv, LocalsOK, DecisionHolds, ReadsStayTrue, Entries, tables
<1>4. TablesInv'
  BY <1>1, TablesKept DEF IInv
<1> QED
  BY <1>2, <1>3, <1>4 DEF IInv

LEMMA StepInv ==
  ASSUME IInv, [Next]_vars
  PROVE  IInv'
<1>1. CASE UNCHANGED vars
  BY <1>1, StutterInv
<1>2. CASE Quiesce
  BY <1>2, StutterInv DEF Quiesce
<1>3. ASSUME NEW c \in Call, CallStep(c)
      PROVE  IInv'
  BY <1>3, BeginRememberInv, BeginSupersedeInv, BeginResolveInv, ReadOldInv,
     ReadLineageInv, ReadExistingInv, ReadSlotInv, FindOpenContestInv, StoreInv,
     CheckFreeInv, ResolveInv, CrashInv DEF CallStep
<1> QED
  BY <1>1, <1>2, <1>3 DEF Next

THEOREM LedgerInvariant == Spec => []IInv
<1>1. Init => IInv
  BY InitInv
<1>2. IInv /\ [Next]_vars => IInv'
  BY StepInv
<1> QED
  BY <1>1, <1>2, PTL DEF Spec

-----------------------------------------------------------------------------
(* What the invariant gives.                                               *)

(* Whatever the calls do and wherever they die, the tables, the locals and *)
(* the outcomes hold what they are meant to hold.                          *)
THEOREM TypeCorrect == Spec => []TypeOK
<1>1. IInv => TypeOK
  BY DEF IInv
<1> QED
  BY <1>1, LedgerInvariant, PTL

(* The ledger and the memories never disagree: an open entry stands        *)
(* against a contested record, a closed one left its record as the verdict *)
(* says, both name the same slot, and no record has two entries.           *)
THEOREM LedgerAlwaysAgrees == Spec => []LedgerAgrees
<1>1. IInv => LedgerAgrees
  BY DEF IInv, TablesInv
<1> QED
  BY <1>1, LedgerInvariant, PTL

(* The records a contest was opened against stay stored and admitted.      *)
THEOREM IncumbentsAlwaysStand == Spec => []IncumbentsStand
<1>1. IInv => IncumbentsStand
  BY DEF IInv, TablesInv
<1> QED
  BY <1>1, LedgerInvariant, PTL

(* The receipts alone tell which records are admitted and which contested. *)
THEOREM ReceiptsAlwaysReproduce == Spec => []ReceiptsReproduceDispositions
<1>1. IInv => ReceiptsReproduceDispositions
  BY DEF IInv, TablesInv
<1> QED
  BY <1>1, LedgerInvariant, PTL

-----------------------------------------------------------------------------
(* The action properties.  Only two transactions write the tables.         *)

LEMMA CallWrites ==
  ASSUME NEW c \in Call, CallStep(c)
  PROVE  UNCHANGED tables \/ Storing(c) \/ Deciding(c)
<1>1. CASE Store(c)
  BY <1>1 DEF Store, InsertRecord, KeepRetained, Refuse, Storing
<1>2. CASE Resolve(c)
  BY <1>2 DEF Resolve, Deciding
<1>3. CASE BeginRemember(c) \/ BeginSupersede(c) \/ BeginResolve(c) \/ Crash(c)
  BY <1>3 DEF BeginRemember, BeginSupersede, BeginResolve, Crash, Refuse
<1>4. CASE ReadOld(c) \/ ReadLineage(c) \/ ReadExisting(c)
  BY <1>4 DEF ReadOld, ReadLineage, ReadExisting, Refuse
<1>5. CASE ReadSlot(c) \/ FindOpenContest(c) \/ CheckFree(c)
  BY <1>5 DEF ReadSlot, FindOpenContest, CheckFree, Refuse
<1> QED
  BY <1>1, <1>2, <1>3, <1>4, <1>5 DEF CallStep

LEMMA WritingSteps ==
  ASSUME [Next]_vars
  PROVE  UNCHANGED tables \/ \E c \in Call : Storing(c) \/ Deciding(c)
BY CallWrites DEF Next, Quiesce, vars, tables

LEMMA RecordsKept ==
  ASSUME IInv, [Next]_vars, NEW j \in Stored(memories)
  PROVE  memories'[j] = memories[j] \/ IsDecided(j)
<1>1. CASE UNCHANGED tables
  BY <1>1 DEF tables
<1>2. ASSUME NEW c \in Call, Storing(c)
      PROVE  memories'[j] = memories[j]
  BY <1>2, StoredTables
<1>3. ASSUME NEW c \in Call, Deciding(c)
      PROVE  memories'[j] = memories[j] \/ IsDecided(j)
  <2>1. j \in Rid
    BY DEF Stored
  <2>2. CASE j # verdict[c].record
    BY <1>3, <2>1, <2>2, DecidedTables
  <2>3. CASE j = verdict[c].record
    <3>1. /\ verdict[c] \in Verdict /\ memories[j] \in Record
          /\ verdict[c].contest \in Open
          /\ contests[verdict[c].contest].record = j
      BY <1>3, <2>3, DecidingLocals DEF Deciding, Open
    <3>2. /\ memories[j].disposition = "contested"
          /\ memories'[j] = Refiled(memories[j], verdict[c])
          /\ contests'[verdict[c].contest].state = "resolved"
      BY <1>3, <2>3, DecidedTables
    <3>3. SameButDecided(memories[j], memories'[j])
      BY <3>1, <3>2, RefiledIsDecided
    <3> QED
      BY <3>1, <3>2, <3>3 DEF IsDecided
  <2> QED
    BY <2>2, <2>3
<1> QED
  BY <1>1, <1>2, <1>3, WritingSteps

(* A stored record is immutable but for a verdict on it while contested.   *)
THEOREM RecordsChangeByVerdictOnly == Spec => OnlyAVerdictChangesARecord
<1>1. IInv /\ [Next]_vars => [RecordsAreKeptOrDecided]_vars
  BY RecordsKept DEF RecordsAreKeptOrDecided
<1> QED
  BY <1>1, LedgerInvariant, PTL DEF Spec, OnlyAVerdictChangesARecord

(* Receipts and entries only accumulate, and a verdict is given once.      *)
THEOREM LedgerOnlyGrows == Spec => LedgerIsAppendOnly
<1>1. ASSUME IInv, [Next]_vars
      PROVE  LedgerGrows
  <2>1. CASE UNCHANGED tables
    BY <2>1 DEF LedgerGrows, tables, Entries
  <2>2. ASSUME NEW c \in Call, Storing(c)
        PROVE  LedgerGrows
    <3>1. receipts \subseteq receipts'
      BY <1>1, <2>2, StoredTables
    <3> QED
      BY <1>1, <2>2, <3>1, LedgerRows DEF LedgerGrows, Storing, SameButCount
  <2>3. ASSUME NEW c \in Call, Deciding(c)
        PROVE  LedgerGrows
    <3>1. receipts \subseteq receipts' /\ contests[verdict[c].contest].state = "open"
      BY <2>3 DEF Deciding
    <3>2. contests'[verdict[c].contest].record = contests[verdict[c].contest].record
      <4>1. pc[c] = "resolve"
        BY <2>3 DEF Deciding
      <4>2. contests[verdict[c].contest].record = verdict[c].record
        BY <1>1, <4>1, DecidingLocals
      <4>3. contests'[verdict[c].contest].record = verdict[c].record
        BY <1>1, <2>3, DecidedTables
      <4> QED
        BY <4>2, <4>3
    <3>3. /\ \A e \in Call \ {verdict[c].contest} : contests'[e] = contests[e]
          /\ Entries' = Entries
      BY <1>1, <2>3, DecidedTables
    <3> QED
      BY <3>1, <3>2, <3>3 DEF LedgerGrows, Entries
  <2> QED
    BY <1>1, <2>1, <2>2, <2>3, WritingSteps
<1>2. IInv /\ [Next]_vars => [LedgerGrows]_vars
  BY <1>1
<1> QED
  BY <1>2, LedgerInvariant, PTL DEF Spec, LedgerIsAppendOnly

(* A write that is held aside leaves every slot to whoever held it.        *)
THEOREM HeldAsideNeverDisplaces == Spec => ContestedWriteNeverDisplaces
<1>1. ASSUME IInv, [Next]_vars, AWriteIsHeldAside
      PROVE  SlotsAreKept
  <2>1. PICK i \in Rid : /\ memories[i] = None /\ memories'[i] # None
                         /\ memories'[i].disposition = "contested"
    BY <1>1 DEF AWriteIsHeldAside
  <2>2. ~ UNCHANGED tables
    BY <2>1 DEF tables
  <2>3. ASSUME NEW c \in Call, Deciding(c)
        PROVE  FALSE
    <3>1. Stored(memories') = Stored(memories)
      BY <1>1, <2>3, DecidedTables
    <3> QED
      BY <2>1, <3>1 DEF Stored
  <2>4. ASSUME NEW c \in Call, Storing(c)
        PROVE  SlotsAreKept
    <3>1. /\ Stored(memories') = Stored(memories) \cup {req[c].id}
          /\ \A j \in Stored(memories) : memories'[j] = memories[j]
      BY <1>1, <2>4, StoredTables
    <3>2. i = req[c].id
      BY <2>1, <3>1 DEF Stored
    <3>3. Admitted(memories') = Admitted(memories)
      BY <2>1, <3>1, <3>2 DEF Admitted, Stored
    <3>4. \A k, p : Filed(memories', k, p) = Filed(memories, k, p)
      BY <3>1, <3>3 DEF Filed, Admitted
    <3> QED
      BY <3>1, <3>4 DEF SlotsAreKept, Occupants, Filed, Admitted
  <2> QED
    BY <1>1, <2>2, <2>3, <2>4, WritingSteps
<1>2. IInv /\ [Next]_vars => [AWriteIsHeldAside => SlotsAreKept]_vars
  BY <1>1
<1> QED
  BY <1>2, LedgerInvariant, PTL DEF Spec, ContestedWriteNeverDisplaces

-----------------------------------------------------------------------------
(* Who created a record.                                                   *)

LEMMA StoredStayStored ==
  ASSUME IInv, [Next]_vars
  PROVE  Stored(memories) \subseteq Stored(memories')
<1>1. CASE UNCHANGED tables
  BY <1>1 DEF tables
<1>2. ASSUME NEW c \in Call, Storing(c)
      PROVE  Stored(memories) \subseteq Stored(memories')
  BY <1>2, StoredTables
<1>3. ASSUME NEW c \in Call, Deciding(c)
      PROVE  Stored(memories) \subseteq Stored(memories')
  BY <1>3, DecidedTables
<1> QED
  BY <1>1, <1>2, <1>3, WritingSteps

(* A call that becomes a creator is the one that stores the record.        *)
NewlyCreator(c) == Creator(c)' /\ out'[c] # out[c]

LEMMA FinishOutcome ==
  ASSUME NEW c \in Call, NEW status, NEW record, NEW contest, TypeOK,
         Finish(c, status, record, contest)
  PROVE  /\ out'[c] = [status |-> status, record |-> record, contest |-> contest]
         /\ \A d \in Call \ {c} : out'[d] = out[d]
BY DEF Finish, TypeOK

LEMMA QuietFinish ==
  ASSUME NEW c \in Call, NEW status, NEW record, NEW contest, TypeOK,
         Finish(c, status, record, contest), status # "created", NEW d \in Call
  PROVE  ~ NewlyCreator(d)
<1> DEFINE o == [status |-> status, record |-> record, contest |-> contest]
<1>0. out'[c] = o /\ o.status # "created" /\ \A e \in Call \ {c} : out'[e] = out[e]
  BY FinishOutcome
<1>1. CASE d = c
  BY <1>0, <1>1 DEF NewlyCreator, Creator
<1>2. CASE d # c
  BY <1>0, <1>2 DEF NewlyCreator
<1> QED
  BY <1>1, <1>2

LEMMA CreatorsStore ==
  ASSUME IInv, [Next]_vars, NEW d \in Call, NewlyCreator(d)
  PROVE  /\ Storing(d)
         /\ out'[d].record = req[d].id
         /\ \A e \in Call \ {d} : out'[e] = out[e]
<1>1. TypeOK
  BY DEF IInv
<1>2. CASE UNCHANGED out
  BY <1>2 DEF NewlyCreator
<1>3. ASSUME NEW c \in Call, Refuse(c)
      PROVE  FALSE
  BY <1>1, <1>3, QuietFinish DEF Refuse
<1>4. ASSUME NEW c \in Call, Store(c)
      PROVE  /\ Storing(d)
             /\ out'[d].record = req[d].id
             /\ \A e \in Call \ {d} : out'[e] = out[e]
  <2>1. CASE InsertRecord(c)
    <3>1. Finish(c, "created", req[c].id, LedgerContest(c)) \/ UNCHANGED out
      BY <2>1 DEF InsertRecord, AfterStore
    <3>2. /\ d = c /\ out'[c].record = req[c].id
          /\ \A e \in Call \ {c} : out'[e] = out[e]
      <4>1. Finish(c, "created", req[c].id, LedgerContest(c))
        BY <1>2, <3>1 DEF NewlyCreator
      <4> DEFINE o == [status |-> "created", record |-> req[c].id,
                       contest |-> LedgerContest(c)]
      <4>2. out'[c] = o /\ o.record = req[c].id /\ \A e \in Call \ {c} : out'[e] = out[e]
        BY <1>1, <4>1, FinishOutcome
      <4> QED
        BY <4>2 DEF NewlyCreator
    <3>3. Storing(c)
      BY <1>4, <2>1 DEF Store, InsertRecord, Storing
    <3> QED
      BY <3>2, <3>3
  <2>2. CASE KeepRetained(c)
    <3>1. Refuse(c) \/ Finish(c, "retained", req[c].id, LedgerContest(c))
      BY <2>2 DEF KeepRetained
    <3> QED
      BY <1>1, <1>3, <3>1, QuietFinish
  <2> QED
    BY <1>4, <2>1, <2>2 DEF Store
<1>5. ASSUME NEW c \in Call, CallStep(c), ~ Store(c)
      PROVE  FALSE
  <2>1. CASE BeginRemember(c) \/ BeginSupersede(c) \/ ReadSlot(c) \/ FindOpenContest(c)
    BY <1>2, <2>1 DEF BeginRemember, BeginSupersede, ReadSlot, FindOpenContest,
                      NewlyCreator
  <2>2. CASE ReadOld(c) \/ ReadLineage(c) \/ CheckFree(c) \/ BeginResolve(c)
    <3>1. Refuse(c) \/ UNCHANGED out
      BY <2>2 DEF ReadOld, ReadLineage, CheckFree, BeginResolve
    <3> QED
      BY <1>3, <3>1 DEF NewlyCreator
  <2>3. CASE ReadExisting(c)
    <3>1. Refuse(c) \/ UNCHANGED out \/ Finish(c, "retained", req[c].id, None)
      BY <2>3 DEF ReadExisting
    <3> QED
      BY <1>1, <1>3, <3>1, QuietFinish DEF NewlyCreator
  <2>4. CASE Resolve(c)
    <3>1. \/ Finish(c, "resolved", verdict[c].record, verdict[c].contest)
          \/ Finish(c, "already-resolved", verdict[c].record, verdict[c].contest)
      BY <2>4 DEF Resolve
    <3> QED
      BY <1>1, <3>1, QuietFinish
  <2>5. CASE Crash(c)
    BY <1>1, <2>5, QuietFinish DEF Crash
  <2> QED
    BY <1>5, <2>1, <2>2, <2>3, <2>4, <2>5 DEF CallStep
<1> QED
  BY <1>2, <1>4, <1>5 DEF Next, Quiesce, vars

(* At most one of the calls that race to store an id is told that it       *)
(* created the record: the storing transaction inserts or keeps, and a     *)
(* record that is there stays (_store_if_content_unchanged_sync).          *)
THEOREM OneCreator == Spec => []OneCreatorPerRecord
<1> DEFINE CInv == CreatedAreStored /\ OneCreatorPerRecord
<1>1. Init => CInv
  BY DEF Init, CreatedAreStored, OneCreatorPerRecord, Creator
<1>2. ASSUME IInv, CInv, [Next]_vars
      PROVE  CInv'
  <2>1. \A c \in Call : Creator(c)' => NewlyCreator(c) \/ (Creator(c) /\ out'[c] = out[c])
    BY DEF NewlyCreator, Creator
  <2>2. \A c \in Call : NewlyCreator(c) =>
          /\ Storing(c) /\ out'[c].record = req[c].id
          /\ req[c].id \in Stored(memories') /\ req[c].id \notin Stored(memories)
    BY <1>2, CreatorsStore, StoredTables
  <2>3. CreatedAreStored'
    BY <1>2, <2>1, <2>2, StoredStayStored DEF CreatedAreStored, Creator, Stored
  <2>4. OneCreatorPerRecord'
    <3> SUFFICES ASSUME NEW c \in Call, NEW d \in Call, Creator(c)', Creator(d)',
                        out'[c].record = out'[d].record
                 PROVE  c = d
      BY DEF OneCreatorPerRecord, Creator
    <3>1. CASE ~ NewlyCreator(c) /\ ~ NewlyCreator(d)
      BY <1>2, <2>1, <3>1 DEF OneCreatorPerRecord, Creator
    <3>2. CASE NewlyCreator(c) /\ ~ NewlyCreator(d)
      BY <1>2, <2>1, <2>2, <3>2 DEF CreatedAreStored
    <3>3. CASE ~ NewlyCreator(c) /\ NewlyCreator(d)
      BY <1>2, <2>1, <2>2, <3>3 DEF CreatedAreStored
    <3>4. CASE NewlyCreator(c) /\ NewlyCreator(d)
      BY <1>2, <3>4, CreatorsStore DEF NewlyCreator
    <3> QED
      BY <3>1, <3>2, <3>3, <3>4
  <2> QED
    BY <2>3, <2>4
<1>3. CInv => OneCreatorPerRecord
  OBVIOUS
<1> HIDE DEF CInv
<1> QED
  BY <1>1, <1>2, <1>3, LedgerInvariant, PTL DEF Spec

-----------------------------------------------------------------------------
(* What calls have read of the records, while others go on.                *)

(* What a step leaves of a stored record, whatever it does.                *)
LEMMA WhatStays ==
  ASSUME IInv, [Next]_vars, NEW j \in Stored(memories)
  PROVE  /\ j \in Stored(memories') /\ j \in Rid
         /\ memories'[j].content = memories[j].content
         /\ memories'[j].part = memories[j].part
         /\ memories'[j].supersedes = memories[j].supersedes
         /\ memories'[j].author = memories[j].author
         /\ memories'[j].asserted = memories[j].asserted
         /\ memories'[j].via = memories[j].via
         /\ j \in Admitted(memories) => j \in Admitted(memories')
<1>1. j \in Rid /\ memories[j] # None /\ memories[j] \in Record
  BY DEF Stored, IInv, TypeOK
<1>2. j \in Stored(memories')
  BY StoredStayStored
<1>3. CASE memories'[j] = memories[j]
  BY <1>1, <1>2, <1>3 DEF Admitted
<1>4. CASE IsDecided(j)
  <2>1. /\ memories[j].disposition = "contested"
        /\ SameButDecided(memories[j], memories'[j])
    BY <1>4 DEF IsDecided
  <2>2. j \notin Admitted(memories)
    BY <2>1 DEF Admitted
  <2> QED
    BY <1>1, <1>2, <2>1, <2>2 DEF SameButDecided, Record
<1> QED
  BY <1>3, <1>4, RecordsKept

LEMMA ShownStays ==
  ASSUME IInv, [Next]_vars, NEW ids \in SUBSET Stored(memories)
  PROVE  SlotOccupants(memories', ids) = SlotOccupants(memories, ids)
<1>1. \A i \in ids : /\ memories'[i].content = memories[i].content
                     /\ memories'[i].asserted = memories[i].asserted
  BY WhatStays
<1> QED
  BY <1>1 DEF SlotOccupants

ScopedRead(c) == DecisionAsShown(c) /\ RequestScoped(c) /\ VerdictScoped(c)

(* A call whose locals a step leaves alone keeps what they say.            *)
LEMMA ScopedIfKept ==
  ASSUME IInv, [Next]_vars, NEW d \in Call, ScopedRead(d),
         req'[d] = req[d], dec'[d] = dec[d], verdict'[d] = verdict[d],
         pc'[d] = "idle" => pc[d] = "idle"
  PROVE  ScopedRead(d)'
<1>1. DecisionAsShown(d)'
  <2> SUFFICES ASSUME dec[d] # None
               PROVE  /\ dec[d].incumbents \subseteq Admitted(memories') \ {req[d].id}
                      /\ \A i \in dec[d].incumbents : memories'[i].part = req[d].part
                      /\ dec[d] = Decide(req[d], SlotOccupants(memories', dec[d].incumbents),
                                         Triggers)
    BY DEF DecisionAsShown
  <2>1. /\ dec[d].incumbents \subseteq Admitted(memories) \ {req[d].id}
        /\ \A i \in dec[d].incumbents : memories[i].part = req[d].part
        /\ dec[d] = Decide(req[d], SlotOccupants(memories, dec[d].incumbents), Triggers)
    BY DEF ScopedRead, DecisionAsShown
  <2>2. dec[d].incumbents \subseteq Stored(memories)
    BY <2>1 DEF Admitted
  <2>3. SlotOccupants(memories', dec[d].incumbents)
          = SlotOccupants(memories, dec[d].incumbents)
    BY <2>2, ShownStays
  <2> QED
    BY <2>1, <2>2, <2>3, WhatStays
<1>2. RequestScoped(d)'
  BY WhatStays DEF ScopedRead, RequestScoped
<1>3. VerdictScoped(d)'
  <2> SUFFICES ASSUME verdict[d] # None
               PROVE  memories'[verdict[d].record].part \in Access[verdict[d].by]
    BY DEF VerdictScoped
  <2>1. /\ verdict[d].contest \in Entries
        /\ contests[verdict[d].contest].record = verdict[d].record
    BY DEF IInv, LocalsInv, ReadsStayTrue
  <2>2. verdict[d].record \in Stored(memories)
    BY <2>1, ContestedRecord, NoneIsNothingElse DEF Stored
  <2> QED
    BY <2>2, WhatStays DEF ScopedRead, VerdictScoped
<1> QED
  BY <1>1, <1>2, <1>3 DEF ScopedRead

(* A call that has returned has read nothing.                              *)
LEMMA ScopedIfGone ==
  ASSUME NEW c \in Call, NEW status, NEW record, NEW contest, TypeOK,
         Finish(c, status, record, contest)
  PROVE  ScopedRead(c)'
<1>1. pc'[c] = "done" /\ req'[c] = None /\ dec'[c] = None /\ verdict'[c] = None
  BY DEF TypeOK, Finish, Goto
<1> QED
  BY <1>1 DEF ScopedRead, DecisionAsShown, RequestScoped, VerdictScoped

(* A step of one call leaves the locals of the others alone.               *)
LEMMA OneCallSteps ==
  ASSUME NEW c \in Call, TypeOK, CallStep(c)
  PROVE  OthersKeep(c)
<1>1. ASSUME NEW status, NEW record, NEW contest, Finish(c, status, record, contest)
      PROVE  OthersKeep(c)
  BY <1>1 DEF TypeOK, OthersKeep, Finish, Goto
<1>2. CASE Refuse(c) \/ Crash(c)
  BY <1>1, <1>2 DEF Refuse, Crash
<1>3. CASE BeginRemember(c) \/ BeginSupersede(c)
  BY <1>3 DEF BeginRemember, BeginSupersede, TypeOK, OthersKeep, Goto
<1>4. CASE BeginResolve(c)
  BY <1>2, <1>4 DEF BeginResolve, TypeOK, OthersKeep, Goto
<1>5. CASE ReadOld(c) \/ ReadLineage(c) \/ CheckFree(c)
  BY <1>2, <1>5 DEF ReadOld, ReadLineage, CheckFree, locals, TypeOK, OthersKeep, Goto
<1>6. CASE ReadExisting(c)
  BY <1>1, <1>2, <1>6 DEF ReadExisting, TypeOK, OthersKeep, Goto
<1>7. CASE ReadSlot(c) \/ FindOpenContest(c)
  BY <1>7 DEF ReadSlot, FindOpenContest, TypeOK, OthersKeep, Goto
<1>8. CASE Store(c)
  BY <1>1, <1>2, <1>8 DEF Store, InsertRecord, KeepRetained, AfterStore, TypeOK,
                           OthersKeep, Goto
<1>9. CASE Resolve(c)
  BY <1>1, <1>9 DEF Resolve
<1> QED
  BY <1>2, <1>3, <1>4, <1>5, <1>6, <1>7, <1>8, <1>9 DEF CallStep

(* A request that has just been made, by a call that had none.             *)
LEMMA ScopedRequest ==
  ASSUME NEW c \in Call, NEW r, IInv, ScopedRead(c), pc[c] = "idle",
         pc'[c] # "idle", req'[c] = r, dec'[c] = dec[c], VerdictScoped(c)',
         r = None \/ r.part = None \/ /\ r.part \in Access[r.agent]
                                      /\ verdict'[c] = None
  PROVE  ScopedRead(c)'
<1>1. dec[c] = None
  BY DEF IInv, LocalsInv, LocalsOK
<1> QED
  BY <1>1 DEF ScopedRead, DecisionAsShown, RequestScoped

LEMMA BeginScoped ==
  ASSUME NEW c \in Call, IInv, ScopedRead(c), BeginRemember(c) \/ BeginSupersede(c)
  PROVE  ScopedRead(c)'
<1>1. PICK r \in Request : /\ r.part = None \/ r.part \in Access[r.agent]
                          /\ req' = [req EXCEPT ![c] = r]
  BY RememberShape, SupersedeShape
<1>2. req'[c] = r
  BY <1>1 DEF IInv, TypeOK
<1>3. /\ pc[c] = "idle" /\ pc'[c] # "idle" /\ dec'[c] = dec[c]
      /\ verdict[c] = None /\ verdict'[c] = None
  BY DEF BeginRemember, BeginSupersede, Goto, IInv, TypeOK, ScopedRead, RequestScoped
<1> QED
  BY <1>1, <1>2, <1>3, ScopedRequest DEF VerdictScoped

LEMMA BeginResolveScoped ==
  ASSUME NEW c \in Call, IInv, ScopedRead(c), BeginResolve(c)
  PROVE  ScopedRead(c)'
<1>1. CASE Refuse(c)
  BY <1>1, ScopedIfGone DEF Refuse, IInv
<1>2. ASSUME NEW e \in Entries, NEW v \in Verdict, Appends(c, v, e) \/ Decides(c, v, e)
      PROVE  ScopedRead(c)'
  <2>1. verdict'[c] = v /\ VerdictScoped(c)'
    BY <1>2 DEF Appends, Decides, Opens, VerdictScoped, IInv, TypeOK, tables
  <2>2. /\ pc[c] = "idle" /\ pc'[c] # "idle" /\ dec'[c] = dec[c]
        /\ req[c] = None
    BY <1>2 DEF BeginResolve, Appends, Decides, Opens, Goto, IInv, TypeOK, ScopedRead,
                RequestScoped
  <2>3. req'[c] = None \/ \E r \in Request : r.part = None /\ req'[c] = r
    BY <1>2, <2>2 DEF Appends, Decides, IInv, TypeOK
  <2> QED
    BY <2>1, <2>2, <2>3, ScopedRequest
<1> QED
  BY <1>1, <1>2, BeginResolveShape

LEMMA ReadOldScoped ==
  ASSUME NEW c \in Call, IInv, ScopedRead(c), ReadOld(c)
  PROVE  ScopedRead(c)'
<1> DEFINE old == memories[req[c].supersedes]
           r == Inherited(req[c], old)
<1>1. CASE Refuse(c)
  BY <1>1, ScopedIfGone DEF Refuse, IInv
<1>2. CASE /\ old # None /\ old.part \in Access[req[c].agent]
           /\ req' = [req EXCEPT ![c] = r] /\ Goto(c, "lineage")
           /\ UNCHANGED <<tables, dec, into, verdict, out>>
  <2>1. /\ pc[c] = "old" /\ req[c] \in Request /\ req[c].supersedes \in Rid
        /\ dec[c] = None
    BY DEF ReadOld, IInv, TypeOK, LocalsInv, LocalsOK, Request
  <2>2. old \in Record /\ req[c].supersedes \in Stored(memories)
    BY <1>2, <2>1 DEF IInv, TypeOK, Stored
  <2>3. r.part = old.part /\ r.agent = req[c].agent /\ r.supersedes = req[c].supersedes
    BY <2>1, <2>2 DEF Inherited, Request, Record
  <2> HIDE DEF r
  <2>4. req'[c] = r /\ pc'[c] # "idle" /\ dec'[c] = None /\ verdict'[c] = verdict[c]
    BY <1>2, <2>1 DEF IInv, TypeOK, Goto
  <2>5. DecisionAsShown(c)' /\ VerdictScoped(c)'
    BY <1>2, <2>4 DEF DecisionAsShown, VerdictScoped, ScopedRead, tables
  <2>6. RequestScoped(c)'
    BY <1>2, <2>2, <2>3, <2>4 DEF RequestScoped, tables
  <2> QED
    BY <2>5, <2>6 DEF ScopedRead
<1> QED
  BY <1>1, <1>2 DEF ReadOld

(* The gate decides on what it is shown, which is of the slot's partition. *)
LEMMA DecidingScoped ==
  ASSUME NEW c \in Call, NEW ids \in SUBSET Admitted(memories), NEW d,
         IInv, ScopedRead(c), pc'[c] # "idle", UNCHANGED <<tables, req, verdict>>,
         dec'[c] = d, d = Decide(req[c], SlotOccupants(memories, ids), Triggers),
         req[c].id \notin ids, \A i \in ids : memories[i].part = req[c].part,
         req[c].claim = None => ids = {}
  PROVE  ScopedRead(c)'
<1>1. d.incumbents = ids
  <2>1. CASE req[c].claim = None
    BY <2>1 DEF Decide, Admit
  <2>2. CASE req[c].claim # None
    <3>1. d.incumbents = Ids(SlotOccupants(memories, ids))
      BY <2>2, DecisionShape
    <3> QED
      BY <3>1, ShownIds DEF Ids
  <2> QED
    BY <2>1, <2>2
<1>2. DecisionAsShown(c)'
  BY <1>1 DEF DecisionAsShown, tables
<1>3. RequestScoped(c)' /\ VerdictScoped(c)'
  BY DEF ScopedRead, RequestScoped, VerdictScoped, tables
<1> QED
  BY <1>2, <1>3 DEF ScopedRead

LEMMA ReadSlotScoped ==
  ASSUME NEW c \in Call, IInv, ScopedRead(c), ReadSlot(c)
  PROVE  ScopedRead(c)'
<1> DEFINE held == Occupants(memories, req[c].claim, req[c].part) \ {req[c].id}
           d    == Decide(req[c], SlotOccupants(memories, held), Triggers)
<1>1. /\ held \subseteq Admitted(memories) /\ req[c].id \notin held
      /\ \A i \in held : memories[i].part = req[c].part
  BY DEF Occupants, Filed
<1>2. /\ pc'[c] # "idle" /\ dec'[c] = d /\ UNCHANGED <<tables, req, verdict>>
      /\ req[c].claim # None
  BY DEF ReadSlot, Goto, IInv, TypeOK, LocalsInv, LocalsOK
<1> HIDE DEF held
<1> QED
  BY <1>1, <1>2, DecidingScoped

LEMMA ReadExistingScoped ==
  ASSUME NEW c \in Call, IInv, [Next]_vars, ScopedRead(c), ReadExisting(c)
  PROVE  ScopedRead(c)'
<1>1. CASE Refuse(c) \/ Finish(c, "retained", req[c].id, None)
  BY <1>1, ScopedIfGone DEF Refuse, IInv
<1>2. CASE /\ req[c].claim = None /\ dec' = [dec EXCEPT ![c] = Admit({})]
           /\ Goto(c, "store")
           /\ UNCHANGED <<tables, req, into, verdict, out>>
  <2>1. Admit({}) = Decide(req[c], SlotOccupants(memories, {}), Triggers)
    BY <1>2 DEF Decide
  <2>2. pc'[c] # "idle" /\ dec'[c] = Admit({}) /\ UNCHANGED <<tables, req, verdict>>
    BY <1>2 DEF Goto, IInv, TypeOK
  <2> QED
    BY <2>1, <2>2, DecidingScoped
<1>3. CASE Goto(c, "slot") /\ UNCHANGED <<tables, req, dec, into, verdict, out>>
  BY <1>3, ScopedIfKept DEF Goto, IInv, TypeOK
<1> QED
  BY <1>1, <1>2, <1>3 DEF ReadExisting

LEMMA StoreScoped ==
  ASSUME NEW c \in Call, IInv, [Next]_vars, ScopedRead(c), Store(c)
  PROVE  ScopedRead(c)'
<1>1. ASSUME NEW status, NEW record, NEW contest, Finish(c, status, record, contest)
      PROVE  ScopedRead(c)'
  BY <1>1, ScopedIfGone DEF IInv
<1>2. CASE KeepRetained(c)
  BY <1>1, <1>2 DEF KeepRetained, Refuse
<1>3. CASE InsertRecord(c) /\ verdict[c] = None
  BY <1>1, <1>3 DEF InsertRecord, AfterStore
<1>4. CASE InsertRecord(c) /\ verdict[c] # None
  <2> DEFINE v == [verdict[c] EXCEPT !.successor = req[c].id]
  <2>1. verdict[c] \in Verdict
    BY <1>4 DEF IInv, TypeOK
  <2>2. v.record = verdict[c].record /\ v.by = verdict[c].by
    BY <2>1 DEF Verdict
  <2> HIDE DEF v
  <2>3. pc'[c] # "idle" /\ req'[c] = None /\ dec'[c] = None /\ verdict'[c] = v
    BY <1>4 DEF InsertRecord, AfterStore, Goto, IInv, TypeOK, v
  <2>4. VerdictScoped(c)'
    <3>1. /\ verdict[c].contest \in Entries
          /\ contests[verdict[c].contest].record = verdict[c].record
      BY <1>4 DEF IInv, LocalsInv, ReadsStayTrue
    <3>2. verdict[c].record \in Stored(memories)
      BY <3>1, ContestedRecord, NoneIsNothingElse DEF Stored
    <3> QED
      BY <1>4, <2>2, <2>3, <3>2, WhatStays DEF ScopedRead, VerdictScoped
  <2> QED
    BY <2>3, <2>4 DEF ScopedRead, DecisionAsShown, RequestScoped
<1> QED
  BY <1>2, <1>3, <1>4 DEF Store

LEMMA StepScoped ==
  ASSUME IInv, ScopedReads, [Next]_vars
  PROVE  ScopedReads'
<1>0. ScopedReads <=> \A c \in Call : ScopedRead(c)
  BY DEF ScopedReads, ScopedRead
<1>1. CASE UNCHANGED vars \/ Quiesce
  BY <1>1 DEF Quiesce, vars, ScopedReads, DecisionAsShown, RequestScoped, VerdictScoped
<1>2. ASSUME NEW c \in Call, CallStep(c), NEW d \in Call \ {c}
      PROVE  ScopedRead(d)'
  BY <1>0, <1>2, OneCallSteps, ScopedIfKept DEF OthersKeep, IInv
<1>3. ASSUME NEW c \in Call, CallStep(c)
      PROVE  ScopedRead(c)'
  <2>1. ScopedRead(c)
    BY <1>0
  <2>2. CASE ReadLineage(c) \/ CheckFree(c) \/ FindOpenContest(c)
    <3>1. CASE Refuse(c)
      BY <3>1, ScopedIfGone DEF Refuse, IInv
    <3>2. CASE /\ UNCHANGED <<req, dec, verdict>>
               /\ Goto(c, "get") \/ Goto(c, "resolve") \/ Goto(c, "store")
      BY <2>1, <3>2, ScopedIfKept DEF Goto, IInv, TypeOK
    <3> QED
      BY <2>2, <3>1, <3>2 DEF ReadLineage, CheckFree, FindOpenContest, locals
  <2>3. CASE Resolve(c) \/ Crash(c)
    BY <2>3, ScopedIfGone DEF Resolve, Crash, IInv
  <2> QED
    BY <1>3, <2>1, <2>2, <2>3, BeginScoped, BeginResolveScoped, ReadOldScoped,
       ReadExistingScoped, ReadSlotScoped, StoreScoped DEF CallStep
<1>4. ASSUME NEW c \in Call, CallStep(c)
      PROVE  ScopedReads'
  BY <1>2, <1>3, <1>4 DEF ScopedReads, ScopedRead
<1> QED
  BY <1>1, <1>4 DEF Next

LEMMA ReadsAreScoped == Spec => []ScopedReads
<1>1. Init => ScopedReads
  BY DEF Init, ScopedReads, DecisionAsShown, RequestScoped, VerdictScoped
<1>2. IInv /\ ScopedReads /\ [Next]_vars => ScopedReads'
  BY StepScoped
<1> QED
  BY <1>1, <1>2, LedgerInvariant, PTL DEF Spec

(* What the gate decided on a slot that others have written to since still *)
(* stands when the record is stored: a contest would be opened again, and  *)
(* an admission replaces all it was shown.                                 *)
THEOREM DecisionsStand == Spec => []DecisionsOutliveTheRead
<1>1. ASSUME ScopedReads, NEW c \in Call, dec[c] # None
      PROVE  IF dec[c].disposition = "contested" THEN StillContested(c)
                                                 ELSE ReplacesAllItSaw(c)
  <2> DEFINE ids == dec[c].incumbents
             shown == SlotOccupants(memories, ids)
  <2>1. /\ ids \subseteq Admitted(memories) \ {req[c].id}
        /\ dec[c] = Decide(req[c], shown, Triggers)
    BY <1>1 DEF ScopedReads, DecisionAsShown
  <2>2. dec[c].disposition = "contested" <=> Contested(req[c], shown, Triggers)
    BY <2>1 DEF Contested
  <2>3. CASE dec[c].disposition = "contested"
    <3> SUFFICES ASSUME ids \subseteq Occupants(memories, req[c].claim, req[c].part)
                 PROVE  Contested(req[c], SlotNow(c), Triggers)
      BY <2>3 DEF StillContested
    <3>1. shown \subseteq SlotNow(c)
      BY <2>1 DEF SlotNow, SlotOccupants
    <3> QED
      BY <2>2, <2>3, <3>1, ContestsAreMonotone
  <2>4. CASE dec[c].disposition # "contested"
    <3> SUFFICES ASSUME "slot-collision" \in Triggers, Differs(req[c], shown)
                 PROVE  ids = {req[c].supersedes}
      BY <2>4 DEF ReplacesAllItSaw
    <3>1. Ids(shown) = ids
      BY ShownIds DEF Ids
    <3>2. req[c].claim # None
      <4>1. req[c].claim = None => ids = {}
        BY <2>1 DEF Decide, Admit
      <4>2. ids # {}
        BY DEF Differs, SlotOccupants
      <4> QED
        BY <4>1, <4>2
    <3> HIDE DEF ids, shown
    <3> QED
      BY <2>2, <2>4, <3>1, <3>2, AdmissionReplacesTheOccupant
  <2> QED
    BY <2>3, <2>4
<1>2. ScopedReads => DecisionsOutliveTheRead
  BY <1>1 DEF DecisionsOutliveTheRead
<1> QED
  BY <1>2, ReadsAreScoped, PTL

(* A record written by a verdict's successor follows one of its partition. *)
SuccessorsFollow ==
  \A i \in Stored(memories) : memories[i].via # None =>
    /\ memories[i].supersedes \in Stored(memories)
    /\ memories[i].part = memories[memories[i].supersedes].part

ScopeInv == ScopeConfinement /\ SuccessorsFollow

LEMMA StoringScoped ==
  ASSUME NEW c \in Call, IInv, ScopedReads, ScopeInv, [Next]_vars, Storing(c)
  PROVE  ScopeInv'
<1> DEFINE n == NewRecord(c)
           i == req[c].id
<1>1. /\ Stored(memories') = Stored(memories) \cup {i} /\ memories'[i] = n
      /\ Stored(memories) \subseteq Rid \ {i} /\ i \in Rid
      /\ \A r \in receipts' : r \in receipts \/ r = WriteReceipt(c)
  <2>1. /\ Stored(memories') = Stored(memories) \cup {i} /\ memories'[i] = n
        /\ Stored(memories) \subseteq Rid \ {i} /\ i \in Rid
    BY StoredTables, StoreLocals DEF Storing
  <2>2. \A r \in receipts' : r \in receipts \/ r = WriteReceipt(c)
    <3>1. receipts' = receipts \/ receipts' = receipts \cup {WriteReceipt(c)}
      BY StoredTables
    <3> QED
      BY <3>1
  <2> QED
    BY <2>1, <2>2
<1>2. /\ n.part = req[c].part /\ n.author = req[c].agent
      /\ n.supersedes = req[c].supersedes
      /\ n.via # None => verdict[c] # None
  BY DEF NewRecord
<1>3. /\ req[c] # None /\ req[c].part # None
      /\ dec[c] # None
  BY DEF Storing, IInv, LocalsInv, LocalsOK
<1>4. /\ req[c].part \in Access[req[c].agent]
      /\ verdict[c] # None => /\ req[c].supersedes \in Stored(memories)
                              /\ memories[req[c].supersedes].part = req[c].part
      /\ dec[c].incumbents \subseteq Stored(memories)
      /\ \A j \in dec[c].incumbents : memories[j].part = req[c].part
  BY <1>3 DEF ScopedReads, RequestScoped, DecisionAsShown, Admitted
<1>5. \A j \in Stored(memories) :
        /\ memories'[j].part = memories[j].part /\ memories'[j].author = memories[j].author
        /\ memories'[j].via = memories[j].via
        /\ memories'[j].supersedes = memories[j].supersedes
  BY WhatStays
<1> HIDE DEF n, i
<1>6. \A j \in Stored(memories') : memories'[j].part \in Access[memories'[j].author]
  BY <1>1, <1>2, <1>4, <1>5 DEF ScopeInv, ScopeConfinement
<1>7. \A r \in receipts' : memories'[r.record].part \in Access[r.agent]
  <2>1. WriteReceipt(c).record = i /\ WriteReceipt(c).agent = req[c].agent
    BY DEF WriteReceipt, i
  <2>2. \A r \in receipts : r.record \in Stored(memories)
    BY DEF IInv, TypeOK, Receipt, TablesInv, ReceiptsNeverOverstate, Stored
  <2> QED
    BY <1>1, <1>2, <1>4, <1>5, <2>1, <2>2 DEF ScopeInv, ScopeConfinement
<1>8. ASSUME NEW e \in Entries', NEW j \in contests'[e].incumbents
      PROVE  memories'[j].part = contests'[e].part
  <2>1. CASE e \in Entries
    <3>1. contests'[e].incumbents = contests[e].incumbents
          /\ contests'[e].part = contests[e].part
      BY <2>1, LedgerRows DEF Storing, SameButCount
    <3>2. j \in Stored(memories)
      BY <1>8, <2>1, <3>1 DEF IInv, TablesInv, IncumbentsStand, Admitted
    <3> QED
      BY <1>5, <1>8, <2>1, <3>1, <3>2 DEF ScopeInv, ScopeConfinement, Stored
  <2>2. CASE e \notin Entries
    <3>1. /\ e = c /\ contests'[c] = NewEntry(c)
      BY <1>8, <2>2, LedgerRows DEF Storing
    <3>2. contests'[e].incumbents = dec[c].incumbents /\ contests'[e].part = req[c].part
      BY <3>1 DEF NewEntry
    <3> QED
      BY <1>4, <1>5, <1>8, <3>2
  <2> QED
    BY <2>1, <2>2
<1>9. SuccessorsFollow'
  BY <1>1, <1>2, <1>4, <1>5 DEF ScopeInv, SuccessorsFollow
<1>10. ScopeConfinement'
  BY <1>6, <1>7, <1>8, <1>9 DEF ScopeConfinement, SuccessorsFollow
<1> QED
  BY <1>9, <1>10 DEF ScopeInv

LEMMA DecidingScope ==
  ASSUME NEW c \in Call, IInv, ScopedReads, ScopeInv, [Next]_vars, Deciding(c)
  PROVE  ScopeInv'
<1>1. /\ Stored(memories') = Stored(memories) /\ Entries' = Entries
      /\ \A r \in receipts' : r \in receipts \/ r = ResolveReceipt(c)
  BY DecidedTables DEF Deciding
<1>2. \A j \in Stored(memories) :
        /\ memories'[j].part = memories[j].part /\ memories'[j].author = memories[j].author
        /\ memories'[j].via = memories[j].via
        /\ memories'[j].supersedes = memories[j].supersedes
  BY WhatStays
<1>3. \A e \in Entries : /\ contests'[e].incumbents = contests[e].incumbents
                         /\ contests'[e].part = contests[e].part
  <2>1. /\ contests'[verdict[c].contest].incumbents = contests[verdict[c].contest].incumbents
        /\ contests'[verdict[c].contest].part = contests[verdict[c].contest].part
        /\ \A f \in Call \ {verdict[c].contest} : contests'[f] = contests[f]
    BY DecidedTables
  <2> QED
    BY <2>1 DEF Entries
<1>4. \A r \in receipts' : memories'[r.record].part \in Access[r.agent]
  <2>1. ResolveReceipt(c).record = verdict[c].record /\ ResolveReceipt(c).agent = verdict[c].by
    BY DEF ResolveReceipt
  <2>2. \A r \in receipts : r.record \in Stored(memories)
    BY DEF IInv, TypeOK, Receipt, TablesInv, ReceiptsNeverOverstate, Stored
  <2>3. verdict[c] # None /\ verdict[c].record \in Stored(memories)
    <3>1. verdict[c] # None
      BY DEF Deciding, IInv, LocalsInv, LocalsOK
    <3>2. /\ verdict[c].contest \in Entries
          /\ contests[verdict[c].contest].record = verdict[c].record
      BY <3>1 DEF IInv, LocalsInv, ReadsStayTrue
    <3> QED
      BY <3>1, <3>2, ContestedRecord, NoneIsNothingElse DEF Stored
  <2>4. memories[verdict[c].record].part \in Access[verdict[c].by]
    BY <2>3 DEF ScopedReads, VerdictScoped
  <2> QED
    BY <1>1, <1>2, <2>1, <2>2, <2>3, <2>4 DEF ScopeInv, ScopeConfinement
<1>5. \A e \in Entries : contests[e].incumbents \subseteq Stored(memories)
  BY DEF IInv, TablesInv, IncumbentsStand, Admitted
<1>6. SuccessorsFollow'
  BY <1>1, <1>2 DEF ScopeInv, SuccessorsFollow
<1>7. ScopeConfinement'
  BY <1>1, <1>2, <1>3, <1>4, <1>5, <1>6
     DEF ScopeInv, ScopeConfinement, SuccessorsFollow, Stored
<1> QED
  BY <1>6, <1>7 DEF ScopeInv

(* Nothing crosses a scope: every writer and every judge could see the     *)
(* record, a contest stands only against records of its own partition, and *)
(* the successor a verdict writes stays with the record it replaces.       *)
THEOREM ScopesConfine == Spec => []ScopeConfinement
<1>1. Init => ScopeInv
  BY DEF Init, ScopeInv, ScopeConfinement, SuccessorsFollow, Stored, Entries
<1>2. ASSUME IInv, ScopedReads, ScopeInv, [Next]_vars
      PROVE  ScopeInv'
  <2>1. CASE UNCHANGED tables
    BY <1>2, <2>1 DEF tables, ScopeInv, ScopeConfinement, SuccessorsFollow, Stored, Entries
  <2> QED
    BY <1>2, <2>1, StoringScoped, DecidingScope, WritingSteps
<1>3. ScopeInv => ScopeConfinement
  BY DEF ScopeInv
<1> QED
  BY <1>1, <1>2, <1>3, LedgerInvariant, ReadsAreScoped, PTL DEF Spec

-----------------------------------------------------------------------------
(* The count of an entry.                                                  *)

(* A call is past its storing transaction once its write is receipted, and *)
(* never comes back to it.                                                 *)
LEMMA PastTheStore ==
  ASSUME NEW c \in Call, TypeOK, CallStep(c)
  PROVE  /\ pc[c] \in {"resolve", "done"} => pc'[c] = "done"
         /\ Storing(c) => pc'[c] \in {"resolve", "done"}
<1>1. ASSUME NEW status, NEW record, NEW contest, Finish(c, status, record, contest)
      PROVE  pc'[c] = "done"
  BY <1>1 DEF Finish, Goto, TypeOK
<1>2. CASE Resolve(c)
  BY <1>1, <1>2 DEF Resolve, Storing
<1>3. CASE Crash(c)
  BY <1>1, <1>3 DEF Crash
<1>4. CASE Store(c)
  <2>1. pc[c] = "store"
    BY <1>4 DEF Store
  <2>2. CASE KeepRetained(c)
    BY <2>1, <2>2 DEF KeepRetained, Storing
  <2>3. CASE InsertRecord(c)
    BY <1>1, <2>1, <2>3 DEF InsertRecord, AfterStore, Goto, TypeOK
  <2> QED
    BY <1>4, <2>2, <2>3 DEF Store
<1>5. CASE BeginRemember(c) \/ BeginSupersede(c) \/ BeginResolve(c) \/ ReadOld(c)
  BY <1>5 DEF BeginRemember, BeginSupersede, BeginResolve, ReadOld, Storing
<1>6. CASE ReadLineage(c) \/ ReadExisting(c) \/ ReadSlot(c) \/ FindOpenContest(c)
           \/ CheckFree(c)
  BY <1>6 DEF ReadLineage, ReadExisting, ReadSlot, FindOpenContest, CheckFree, Storing
<1> QED
  BY <1>2, <1>3, <1>4, <1>5, <1>6 DEF CallStep

LEMMA WritesStayCountedOnce ==
  ASSUME NEW c \in Call, IInv, WritesCountedOnce, CallStep(c)
  PROVE  WritesCountedOnce'
<1>1. \A d \in Call : pc[d] \in {"resolve", "done"} => pc'[d] \in {"resolve", "done"}
  <2>1. \A d \in Call \ {c} : pc'[d] = pc[d]
    BY OneCallSteps DEF OthersKeep, IInv
  <2> QED
    BY <2>1, PastTheStore DEF IInv
<1>2. \A r \in receipts : r.call \in Call
  BY DEF IInv, TypeOK, Receipt
<1>3. ASSUME NEW r \in receipts', r \notin receipts, r.resolution = None
      PROVE  r.call = c /\ pc'[c] \in {"resolve", "done"}
  <2>1. ~ UNCHANGED tables
    BY <1>3 DEF tables
  <2>2. CASE Storing(c)
    <3>1. r = WriteReceipt(c)
      BY <1>3, <2>2, StoredTables
    <3> QED
      BY <2>2, <3>1, PastTheStore DEF WriteReceipt, IInv
  <2>3. CASE Deciding(c)
    <3>1. r = ResolveReceipt(c)
      BY <1>3, <2>3 DEF Deciding
    <3>2. r.resolution = verdict[c].resolution
      BY <3>1 DEF ResolveReceipt
    <3>3. verdict[c].resolution \in Resolution
      BY <2>3, DecidingLocals DEF Deciding, Verdict
    <3> QED
      BY <1>3, <3>2, <3>3, NoneIsNothingElse
  <2> QED
    BY <2>1, <2>2, <2>3, CallWrites
<1> QED
  BY <1>1, <1>2, <1>3 DEF WritesCountedOnce

(* The receipts are finitely many, and name only entries that are there.   *)
ReceiptsAreFiled ==
  /\ IsFiniteSet(receipts)
  /\ \A r \in receipts : r.contest # None => r.contest \in Entries

CountInv == WritesCountedOnce /\ ReceiptsAreFiled /\ OccurrenceCountExact

LEMMA FiniteWrites ==
  ASSUME IsFiniteSet(receipts), NEW e
  PROVE  IsFiniteSet(WritesUnder(e)) /\ Cardinality(WritesUnder(e)) \in Nat
<1>1. WritesUnder(e) \subseteq receipts
  BY DEF WritesUnder
<1> QED
  BY <1>1, FS_Subset, FS_CardinalityType

LEMMA StoringFiled ==
  ASSUME NEW c \in Call, IInv, CountInv, Storing(c)
  PROVE  ReceiptsAreFiled'
<1>1. IsFiniteSet(receipts')
  BY StoredTables, FS_AddElement DEF CountInv, ReceiptsAreFiled
<1>2. Entries \subseteq Entries'
  BY LedgerRows DEF Storing
<1>3. LedgerContest(c) # None => LedgerContest(c) \in Entries'
  BY LedgerRows, StoreLocals DEF Storing, LedgerContest
<1>4. \A r \in receipts' : r \in receipts \/ r.contest = LedgerContest(c)
  <2>1. receipts' = receipts \/ receipts' = receipts \cup {WriteReceipt(c)}
    BY StoredTables
  <2>2. WriteReceipt(c).contest = LedgerContest(c)
    BY DEF WriteReceipt
  <2> QED
    BY <2>1, <2>2
<1> QED
  BY <1>1, <1>2, <1>3, <1>4 DEF CountInv, ReceiptsAreFiled

(* The write of c counts under the entry it is listed under, once.         *)
LEMMA StoringWrites ==
  ASSUME NEW c \in Call, IInv, CountInv, Storing(c), NEW e \in Call
  PROVE  IF dec[c].disposition = "contested" /\ LedgerContest(c) = e
         THEN Cardinality(WritesUnder(e)') = Cardinality(WritesUnder(e)) + 1
         ELSE WritesUnder(e)' = WritesUnder(e)
<1> DEFINE w == WriteReceipt(c)
<1>1. /\ w.call = c /\ w.resolution = None /\ w.contest = LedgerContest(c)
  BY DEF WriteReceipt
<1>2. w \notin receipts
  BY <1>1 DEF CountInv, WritesCountedOnce, Storing
<1>3. /\ req[c].claim # None => receipts' = receipts \cup {w}
      /\ req[c].claim = None => receipts' = receipts
  BY StoredTables
<1>4. /\ dec[c].disposition = "contested" => req[c].claim # None
      /\ dec[c].disposition # "contested" => LedgerContest(c) = None
  BY StoreLocals, NoneIsNothingElse DEF Storing, LedgerContest
<1> HIDE DEF w
<1>5. CASE dec[c].disposition = "contested" /\ LedgerContest(c) = e
  <2>1. WritesUnder(e)' = WritesUnder(e) \cup {w} /\ w \notin WritesUnder(e)
    BY <1>1, <1>2, <1>3, <1>4, <1>5 DEF WritesUnder
  <2> QED
    BY <1>5, <2>1, FiniteWrites, FS_AddElement DEF CountInv, ReceiptsAreFiled
<1>6. CASE ~ (dec[c].disposition = "contested" /\ LedgerContest(c) = e)
  <2>1. LedgerContest(c) # e
    BY <1>4, <1>6, NoneIsNothingElse
  <2>2. \A r \in receipts' : r.contest = e => r \in receipts
    BY <1>1, <1>3, <2>1
  <2>3. receipts \subseteq receipts'
    BY <1>3
  <2> QED
    BY <1>6, <2>2, <2>3 DEF WritesUnder
<1> QED
  BY <1>5, <1>6

LEMMA OnlyItsEntry ==
  ASSUME NEW c \in Call, IInv, Storing(c), NEW e \in Call,
         ~ (dec[c].disposition = "contested" /\ LedgerContest(c) = e)
  PROVE  contests'[e] = contests[e]
<1>1. /\ contests \in [Call -> Entry \cup {None}]
      /\ dec[c].disposition # "admitted" => dec[c].disposition = "contested"
  BY StoreLocals DEF Storing, IInv, TypeOK
<1>2. CASE dec[c].disposition = "admitted"
  BY <1>2 DEF Storing, WriteLedgerRows
<1>3. CASE dec[c].disposition # "admitted" /\ into[c] = None
  <2>1. e # c /\ contests' = [contests EXCEPT ![c] = NewEntry(c)]
    BY <1>1, <1>3 DEF Storing, WriteLedgerRows, LedgerContest
  <2> QED
    BY <1>1, <2>1
<1>4. CASE dec[c].disposition # "admitted" /\ into[c] # None
  <2>1. /\ e # into[c]
        /\ \/ contests' = contests
           \/ contests' = [contests EXCEPT ![into[c]] = CountedUp(contests[into[c]])]
    BY <1>1, <1>4 DEF Storing, WriteLedgerRows, LedgerContest
  <2> QED
    BY <1>1, <2>1
<1> QED
  BY <1>2, <1>3, <1>4

LEMMA StoringCounts ==
  ASSUME NEW c \in Call, IInv, CountInv, Storing(c)
  PROVE  OccurrenceCountExact'
<1> SUFFICES ASSUME NEW e \in Entries'
             PROVE  /\ contests'[e].count <= Cardinality(WritesUnder(e)')
                    /\ contests'[e].state = "open" =>
                         contests'[e].count = Cardinality(WritesUnder(e)')
  BY DEF OccurrenceCountExact, Open
<1>1. /\ e \in Call /\ contests[c] = None /\ into[c] \in Entries \cup {None}
      /\ IsFiniteSet(receipts)
  BY StoreLocals DEF Storing, CountInv, ReceiptsAreFiled, Entries
<1> DEFINE n == Cardinality(WritesUnder(e))
           here == dec[c].disposition = "contested" /\ LedgerContest(c) = e
<1>2. n \in Nat
  BY <1>1, FiniteWrites
<1>3. CASE e \notin Entries
  <2>1. e = c /\ dec[c].disposition = "contested" /\ contests'[c] = NewEntry(c)
    BY <1>3, LedgerRows DEF Storing
  <2>2. into[c] = None
    <3>1. CASE into[c] \in Entries
      <4>1. into[c] # c /\ into[c] # None
        BY <1>1, <3>1, NoneIsNothingElse DEF Entries
      <4>2. contests'[c] = contests[c]
        BY <4>1, OnlyItsEntry DEF LedgerContest
      <4> QED
        BY <1>1, <2>1, <4>2 DEF Entries
    <3> QED
      BY <1>1, <3>1
  <2>3. WritesUnder(e) = {}
    BY <1>3, <1>1, NoneIsNothingElse DEF CountInv, ReceiptsAreFiled, WritesUnder
  <2>4. LedgerContest(c) = e
    BY <2>1, <2>2 DEF LedgerContest
  <2>5. Cardinality(WritesUnder(e)') = 1
    BY <1>1, <2>1, <2>3, <2>4, StoringWrites, FS_EmptySet
  <2>6. contests'[e].count = 1
    BY <2>1 DEF NewEntry
  <2> QED
    BY <2>5, <2>6
<1>4. CASE e \in Entries
  <2>1. /\ contests[e] \in Entry /\ contests[e].count <= n
        /\ contests[e].state = "open" => contests[e].count = n
    BY <1>4 DEF CountInv, OccurrenceCountExact, Open, Entries, IInv, TypeOK
  <2>2. contests[e].count \in Nat
    BY <2>1 DEF Entry
  <2>3. CASE ~ here
    <3>1. contests'[e] = contests[e]
      BY <1>1, <2>3, OnlyItsEntry
    <3>2. WritesUnder(e)' = WritesUnder(e)
      BY <1>1, <2>3, StoringWrites
    <3> QED
      BY <2>1, <3>1, <3>2
  <2>4. CASE here
    <3>1. into[c] = e
      BY <1>1, <1>4, <2>4 DEF LedgerContest, Entries
    <3>2. Cardinality(WritesUnder(e)') = n + 1
      BY <1>1, <2>4, StoringWrites
    <3>3. CASE contests[e].state = "open"
      <4>1. contests'[e] = CountedUp(contests[e])
        BY <1>1, <2>4, <3>1, <3>3, NoneIsNothingElse DEF Storing, WriteLedgerRows, IInv, TypeOK
      <4>2. contests'[e].count = contests[e].count + 1
        BY <2>1, <4>1 DEF CountedUp, Entry
      <4> HIDE DEF n
      <4> QED
        BY <1>2, <2>1, <2>2, <3>2, <3>3, <4>2
    <3>4. CASE contests[e].state # "open"
      <4>1. contests'[e] = contests[e]
        BY <1>1, <2>4, <3>1, <3>4, NoneIsNothingElse DEF Storing, WriteLedgerRows
      <4> HIDE DEF n
      <4> QED
        BY <1>2, <2>1, <2>2, <3>2, <3>4, <4>1
    <3> QED
      BY <3>3, <3>4
  <2> QED
    BY <2>3, <2>4
<1> QED
  BY <1>3, <1>4

LEMMA DecidingCounts ==
  ASSUME NEW c \in Call, IInv, CountInv, Deciding(c)
  PROVE  ReceiptsAreFiled' /\ OccurrenceCountExact'
<1> DEFINE v == verdict[c]
           e == v.contest
           w == ResolveReceipt(c)
<1>1. /\ v \in Verdict /\ e \in Entries /\ contests[e].state = "open"
      /\ pc[c] = "resolve" /\ contests[e] \in Entry
  BY DecidingLocals DEF Deciding, Entries, IInv, TypeOK
<1>2. /\ receipts' = receipts \cup {w} /\ w.contest = e /\ w.resolution # None
  <2>1. v.resolution \in Resolution
    BY <1>1 DEF Verdict
  <2>2. w.contest = e /\ w.resolution = v.resolution
    BY DEF ResolveReceipt
  <2> QED
    BY <2>1, <2>2, NoneIsNothingElse DEF Deciding
<1>3. /\ Entries' = Entries /\ \A f \in Call \ {e} : contests'[f] = contests[f]
      /\ contests'[e].state = "resolved"
  BY DecidedTables
<1>4. contests'[e].count = contests[e].count
  <2>1. contests'[e] = Closed(contests[e], v)
    BY <1>1 DEF Deciding, IInv, TypeOK, Entries
  <2> QED
    BY <1>1, <2>1 DEF Closed, Entry
<1> HIDE DEF v, e, w
<1>5. ReceiptsAreFiled'
  BY <1>1, <1>2, <1>3, FS_AddElement DEF CountInv, ReceiptsAreFiled
<1>6. \A f : WritesUnder(f)' = WritesUnder(f)
  BY <1>2 DEF WritesUnder
<1>7. ASSUME NEW f \in Entries
      PROVE  /\ contests'[f].count <= Cardinality(WritesUnder(f)')
             /\ contests'[f].state = "open" =>
                  contests'[f].count = Cardinality(WritesUnder(f)')
  BY <1>3, <1>4, <1>6 DEF CountInv, OccurrenceCountExact, Open, Entries
<1>8. OccurrenceCountExact'
  BY <1>3, <1>7 DEF OccurrenceCountExact, Open
<1> QED
  BY <1>5, <1>8

(* An open entry's occurrence_count is the number of writes held aside     *)
(* under it, however many raced to open it or coalesce into it.            *)
THEOREM CountsAreExact == Spec => []OccurrenceCountExact
<1>1. Init => CountInv
  BY FS_EmptySet DEF Init, CountInv, WritesCountedOnce, ReceiptsAreFiled,
                     OccurrenceCountExact, Entries
<1>2. ASSUME IInv, CountInv, [Next]_vars
      PROVE  CountInv'
  <2>1. CASE UNCHANGED vars \/ Quiesce
    BY <1>2, <2>1 DEF Quiesce, vars, CountInv, WritesCountedOnce, ReceiptsAreFiled,
                      OccurrenceCountExact, WritesUnder, Open, Entries
  <2>2. ASSUME NEW c \in Call, CallStep(c)
        PROVE  CountInv'
    <3>1. WritesCountedOnce'
      BY <1>2, <2>2, WritesStayCountedOnce DEF CountInv
    <3>2. CASE UNCHANGED tables
      BY <1>2, <3>1, <3>2 DEF tables, CountInv, ReceiptsAreFiled, OccurrenceCountExact,
                              WritesUnder, Open, Entries
    <3> QED
      BY <1>2, <2>2, <3>1, <3>2, CallWrites, StoringFiled, StoringCounts, DecidingCounts
         DEF CountInv
  <2> QED
    BY <1>2, <2>1, <2>2 DEF Next
<1>3. CountInv => OccurrenceCountExact
  BY DEF CountInv
<1> QED
  BY <1>1, <1>2, <1>3, LedgerInvariant, PTL DEF Spec

-----------------------------------------------------------------------------
(* The ledger implements the life of a write.                              *)

(* What a call was shown is still filed in its slot, and the entry it      *)
(* found to join is one of its agent's in its partition.                   *)
CaseRead(c) ==
  /\ dec[c] # None => \A i \in dec[c].incumbents : memories[i].claim = req[c].claim
  /\ into[c] # None => /\ contests[into[c]].part = req[c].part
                       /\ contests[into[c]].author = req[c].agent

CasesOfAuthors ==
  \A e \in Entries : memories[contests[e].record].author = contests[e].author

CaseInv == (\A c \in Call : CaseRead(c)) /\ CasesOfAuthors

(* An entry names the same record, partition and author for good.          *)
LEMMA EntriesStay ==
  ASSUME IInv, [Next]_vars, NEW e \in Entries
  PROVE  /\ e \in Entries'
         /\ contests'[e].record = contests[e].record
         /\ contests'[e].part = contests[e].part
         /\ contests'[e].author = contests[e].author
<1>1. CASE UNCHANGED tables
  BY <1>1 DEF tables, Entries
<1>2. ASSUME NEW c \in Call, Storing(c)
      PROVE  /\ e \in Entries' /\ contests'[e].record = contests[e].record
             /\ contests'[e].part = contests[e].part
             /\ contests'[e].author = contests[e].author
  BY <1>2, LedgerRows DEF Storing, SameButCount
<1>3. ASSUME NEW c \in Call, Deciding(c)
      PROVE  /\ e \in Entries' /\ contests'[e].record = contests[e].record
             /\ contests'[e].part = contests[e].part
             /\ contests'[e].author = contests[e].author
  <2>1. /\ verdict[c].contest \in Call /\ contests[verdict[c].contest] \in Entry
        /\ contests[verdict[c].contest].record = verdict[c].record
        /\ contests \in [Call -> Entry \cup {None}] /\ e \in Call
    BY <1>3, DecidingLocals DEF Deciding, IInv, TypeOK, Entries
  <2>2. Entries' = Entries
    BY <1>3, DecidedTables
  <2>3. CASE e = verdict[c].contest
    <3>1. contests'[e] = Closed(contests[e], verdict[c])
      BY <1>3, <2>1, <2>3 DEF Deciding
    <3>2. Closed(contests[e], verdict[c]).author = contests[e].author
      BY <2>1, <2>3 DEF Closed, Entry
    <3> QED
      BY <1>3, <2>1, <2>2, <2>3, <3>1, <3>2, DecidedTables
  <2>4. CASE e # verdict[c].contest
    BY <1>3, <2>1, <2>2, <2>4, DecidedTables
  <2> QED
    BY <2>3, <2>4
<1> QED
  BY <1>1, <1>2, <1>3, WritingSteps

(* An admitted record is never filed elsewhere.                            *)
LEMMA AdmittedStayFiled ==
  ASSUME IInv, [Next]_vars, NEW j \in Admitted(memories)
  PROVE  memories'[j].claim = memories[j].claim
<1>1. j \in Stored(memories) /\ memories[j].disposition = "admitted"
  BY DEF Admitted
<1> QED
  BY <1>1, RecordsKept DEF IsDecided

LEMMA CaseReadIfKept ==
  ASSUME IInv, [Next]_vars, NEW d \in Call, DecisionAsShown(d), CaseRead(d),
         req'[d] = req[d], dec'[d] = dec[d], into'[d] = into[d]
  PROVE  CaseRead(d)'
<1>1. dec[d] # None => \A i \in dec[d].incumbents : memories'[i].claim = req[d].claim
  BY AdmittedStayFiled DEF DecisionAsShown, CaseRead
<1>2. into[d] # None => into[d] \in Entries
  BY DEF IInv, LocalsInv, ReadsStayTrue
<1> QED
  BY <1>1, <1>2, EntriesStay DEF CaseRead

(* Two steps look at the slot or at the open entries; after any other, the *)
(* call remembers nothing of either.                                       *)
LEMMA MostStepsReadNothing ==
  ASSUME NEW c \in Call, IInv, CallStep(c),
         ~ ReadExisting(c), ~ ReadSlot(c), ~ FindOpenContest(c)
  PROVE  dec'[c] = None /\ into'[c] = None
<1>1. ASSUME NEW status, NEW record, NEW contest, Finish(c, status, record, contest)
      PROVE  dec'[c] = None /\ into'[c] = None
  BY <1>1 DEF Finish, IInv, TypeOK
<1>2. CASE Refuse(c) \/ Crash(c)
  BY <1>1, <1>2 DEF Refuse, Crash
<1>3. pc[c] \notin {"coalesce", "store"} => dec[c] = None /\ into[c] = None
  BY DEF IInv, LocalsInv, LocalsOK
<1>4. CASE BeginRemember(c) \/ BeginSupersede(c)
  BY <1>3, <1>4 DEF BeginRemember, BeginSupersede
<1>5. CASE BeginResolve(c)
  BY <1>2, <1>3, <1>5 DEF BeginResolve
<1>6. CASE ReadOld(c) \/ ReadLineage(c) \/ CheckFree(c)
  BY <1>2, <1>3, <1>6 DEF ReadOld, ReadLineage, CheckFree, locals
<1>7. CASE Store(c)
  BY <1>1, <1>2, <1>7 DEF Store, InsertRecord, KeepRetained, AfterStore, IInv, TypeOK
<1>8. CASE Resolve(c)
  BY <1>1, <1>8 DEF Resolve
<1> QED
  BY <1>2, <1>4, <1>5, <1>6, <1>7, <1>8 DEF CallStep

LEMMA ReadSlotCase ==
  ASSUME NEW c \in Call, IInv, ReadSlot(c)
  PROVE  CaseRead(c)'
<1> DEFINE held == Occupants(memories, req[c].claim, req[c].part) \ {req[c].id}
           d    == Decide(req[c], SlotOccupants(memories, held), Triggers)
<1>1. held \subseteq Admitted(memories) /\ \A i \in held : memories[i].claim = req[c].claim
  BY DEF Occupants, Filed
<1>2. /\ dec'[c] = d /\ into'[c] = None /\ UNCHANGED <<tables, req>>
      /\ req[c].claim # None
  BY DEF ReadSlot, IInv, TypeOK, LocalsInv, LocalsOK
<1> HIDE DEF held
<1>3. d.incumbents = held
  <2>1. d.incumbents = Ids(SlotOccupants(memories, held))
    BY <1>2, DecisionShape
  <2> QED
    BY <2>1, ShownIds DEF Ids
<1> QED
  BY <1>1, <1>2, <1>3 DEF CaseRead, tables

LEMMA ReadExistingCase ==
  ASSUME NEW c \in Call, IInv, ReadExisting(c)
  PROVE  CaseRead(c)'
<1>1. dec[c] = None /\ into[c] = None
  BY DEF ReadExisting, IInv, LocalsInv, LocalsOK
<1>2. into'[c] = None /\ (dec'[c] = None \/ dec'[c] = Admit({}))
  BY <1>1 DEF ReadExisting, Refuse, Finish, IInv, TypeOK
<1>3. Admit({}).incumbents = {}
  BY DEF Admit
<1> QED
  BY <1>2, <1>3 DEF CaseRead

LEMMA FindOpenContestCase ==
  ASSUME NEW c \in Call, IInv, CaseRead(c), FindOpenContest(c)
  PROVE  CaseRead(c)'
<1>1. UNCHANGED <<tables, req, dec>> /\ into[c] = None
  BY DEF FindOpenContest, IInv, LocalsInv, LocalsOK
<1>2. \/ into'[c] = None
      \/ into'[c] \in OpenFor(req[c].claim, req[c].part, req[c].agent)
  BY <1>1 DEF FindOpenContest, IInv, TypeOK
<1> QED
  BY <1>1, <1>2 DEF CaseRead, OpenFor, tables

LEMMA CaseReadsStay ==
  ASSUME IInv, ScopedReads, CaseInv, [Next]_vars, NEW d \in Call
  PROVE  CaseRead(d)'
<1>1. CaseRead(d) /\ DecisionAsShown(d)
  BY DEF CaseInv, ScopedReads
<1>2. CASE UNCHANGED vars
  BY <1>1, <1>2, CaseReadIfKept DEF vars
<1>3. CASE Quiesce
  BY <1>1, <1>3, CaseReadIfKept DEF Quiesce, vars
<1>4. ASSUME NEW c \in Call, CallStep(c), d # c
      PROVE  CaseRead(d)'
  BY <1>1, <1>4, OneCallSteps, CaseReadIfKept DEF OthersKeep, IInv
<1>5. CASE CallStep(d)
  <2>1. CASE dec'[d] = None /\ into'[d] = None
    BY <2>1 DEF CaseRead
  <2> QED
    BY <1>1, <1>5, <2>1, MostStepsReadNothing, ReadSlotCase, ReadExistingCase,
       FindOpenContestCase
<1> QED
  BY <1>2, <1>3, <1>4, <1>5 DEF Next

LEMMA AuthorsStay ==
  ASSUME IInv, CaseInv, [Next]_vars
  PROVE  CasesOfAuthors'
<1> SUFFICES ASSUME NEW e \in Entries'
             PROVE  memories'[contests'[e].record].author = contests'[e].author
  BY DEF CasesOfAuthors
<1>1. CASE e \in Entries
  <2>1. contests[e].record \in Stored(memories)
    BY <1>1, ContestedRecord, NoneIsNothingElse DEF Stored
  <2> QED
    BY <1>1, <2>1, EntriesStay, WhatStays DEF CaseInv, CasesOfAuthors
<1>2. CASE e \notin Entries
  <2>1. PICK c \in Call : Storing(c)
    <3>1. ~ UNCHANGED tables
      BY <1>2 DEF tables, Entries
    <3>2. ASSUME NEW c \in Call, Deciding(c) PROVE FALSE
      BY <1>2, <3>2, DecidedTables
    <3> QED
      BY <3>1, <3>2, WritingSteps
  <2>2. e = c /\ contests'[e] = NewEntry(c)
    BY <1>2, <2>1, LedgerRows DEF Storing
  <2>3. memories'[req[c].id] = NewRecord(c)
    BY <2>1, StoredTables
  <2> QED
    BY <2>2, <2>3 DEF NewEntry, NewRecord
<1> QED
  BY <1>1, <1>2

LEMMA CasesAreKept == Spec => []CaseInv
<1>1. Init => CaseInv
  BY NoneIsNothingElse DEF Init, CaseInv, CaseRead, CasesOfAuthors, Entries
<1>2. IInv /\ ScopedReads /\ CaseInv /\ [Next]_vars => CaseInv'
  BY CaseReadsStay, AuthorsStay DEF CaseInv
<1> QED
  BY <1>1, <1>2, LedgerInvariant, ReadsAreScoped, PTL DEF Spec

(* The gate and the slots of LedgerLife are those of ClaimSlots.           *)
LEMMA SameLife ==
  /\ Life!Record = Record /\ Life!Rid = Rid
  /\ \A m, k, p : Life!Filed(m, k, p) = Filed(m, k, p)
  /\ \A m, ids : Life!SlotOccupants(m, ids) = SlotOccupants(m, ids)
  /\ \A w, s, enabled : Life!Decide(w, s, enabled) = Decide(w, s, enabled)
<1>1. Life!Record = Record /\ Life!Rid = Rid
  BY DEF Life!Record, Record, Life!Rid, Rid, Life!Disposition, Disposition
<1>2. ASSUME NEW m, NEW k, NEW p
      PROVE  Life!Filed(m, k, p) = Filed(m, k, p)
  BY <1>1 DEF Life!Filed, Filed, Life!Admitted, Admitted, Life!Stored, Stored
<1>3. ASSUME NEW m, NEW ids
      PROVE  Life!SlotOccupants(m, ids) = SlotOccupants(m, ids)
  BY DEF Life!SlotOccupants, SlotOccupants
<1>4. ASSUME NEW w, NEW s, NEW enabled
      PROVE  Life!Decide(w, s, enabled) = Decide(w, s, enabled)
  BY DEF Life!Decide, Decide, Life!Admit, Admit, Life!Contest, Contest,
         Life!Differs, Differs, Life!Retrograde, Retrograde, Life!Undeclared, Undeclared
<1> QED
  BY <1>1, <1>2, <1>3, <1>4

(* Cases, entry by entry.                                                  *)
LEMMA CaseOf ==
  ASSUME IInv, NEW e \in Entries
  PROVE  /\ contests[e].record \in Rid
         /\ Cases[contests[e].record] =
              IF contests[e].state = "open" THEN "open" ELSE "closed"
<1>1. e \in Entries /\ contests[e].record \in Rid
  BY ContestedRecord
<1>2. \A f \in Entries : contests[f].record = contests[e].record => f = e
  BY <1>1 DEF IInv, TablesInv, LedgerAgrees, OneEntryPerRecord
<1> QED
  BY <1>1, <1>2 DEF Cases, Open

LEMMA NoCase ==
  ASSUME NEW i \in Rid, \A e \in Entries : contests[e].record # i
  PROVE  Cases[i] = "none"
BY DEF Cases

(* Counting an entry up, or nothing, changes no case.                      *)
LEMMA CasesKept ==
  ASSUME Entries' = Entries,
         \A e \in Entries : /\ contests'[e].record = contests[e].record
                            /\ contests'[e].state = contests[e].state
  PROVE  Cases' = Cases
<1>1. Open' = Open
  BY DEF Open
<1>2. \A i \in Rid : /\ (\A e \in Entries' : contests'[e].record # i)
                          <=> \A e \in Entries : contests[e].record # i
                     /\ (\E e \in Open' : contests'[e].record = i)
                          <=> \E e \in Open : contests[e].record = i
  BY <1>1 DEF Open
<1> QED
  BY <1>2 DEF Cases

(* An entry of its own is a case opened.                                   *)
LEMMA CaseOpened ==
  ASSUME IInv, IInv', NEW c \in Call, NEW i \in Rid, c \notin Entries,
         Entries' = Entries \cup {c}, \A e \in Entries : contests'[e] = contests[e],
         contests'[c].record = i, contests'[c].state = "open"
  PROVE  Cases' = [Cases EXCEPT ![i] = "open"]
<1>1. \A e \in Entries : contests[e].record # i
  BY DEF IInv, TablesInv, LedgerAgrees, OneEntryPerRecord
<1>2. c \in Open' /\ Open' = Open \cup {c}
  BY DEF Open
<1>3. Cases'[i] = "open"
  BY <1>2 DEF Cases, Open
<1>4. ASSUME NEW j \in Rid \ {i}
      PROVE  Cases'[j] = Cases[j]
  <2>1. /\ (\A e \in Entries' : contests'[e].record # j)
             <=> \A e \in Entries : contests[e].record # j
        /\ (\E e \in Open' : contests'[e].record = j)
             <=> \E e \in Open : contests[e].record = j
    BY <1>2 DEF Open
  <2> QED
    BY <2>1 DEF Cases
<1>5. DOMAIN Cases = Rid /\ DOMAIN Cases' = Rid
  BY DEF Cases
<1>6. Cases = [j \in Rid |-> Cases[j]] /\ Cases' = [j \in Rid |-> Cases'[j]]
  BY DEF Cases
<1> HIDE DEF Cases
<1> QED
  BY <1>3, <1>4, <1>6

LEMMA CaseClosed ==
  ASSUME IInv, NEW c \in Call, Deciding(c)
  PROVE  /\ Cases[verdict[c].record] = "open"
         /\ Cases' = [Cases EXCEPT ![verdict[c].record] = "closed"]
<1> DEFINE i == verdict[c].record
           f == verdict[c].contest
<1>1. /\ i \in Rid /\ f \in Entries /\ contests[f].record = i /\ contests[f].state = "open"
  BY DecidingLocals DEF Deciding
<1>2. /\ contests'[f].record = i /\ contests'[f].state = "resolved"
      /\ Entries' = Entries /\ \A e \in Entries \ {f} : contests'[e] = contests[e]
  BY DecidedTables DEF Entries
<1>3. \A e \in Entries : contests[e].record = i => e = f
  BY <1>1 DEF IInv, TablesInv, LedgerAgrees, OneEntryPerRecord
<1> HIDE DEF i, f
<1>4. Cases[i] = "open"
  BY <1>1, CaseOf
<1>5. Cases'[i] = "closed"
  BY <1>1, <1>2, <1>3 DEF Cases, Open
<1>6. ASSUME NEW j \in Rid \ {i}
      PROVE  Cases'[j] = Cases[j]
  <2>1. /\ (\A e \in Entries' : contests'[e].record # j)
             <=> \A e \in Entries : contests[e].record # j
        /\ (\E e \in Open' : contests'[e].record = j)
             <=> \E e \in Open : contests[e].record = j
    BY <1>1, <1>2 DEF Open
  <2> QED
    BY <2>1 DEF Cases
<1>7. Cases = [j \in Rid |-> Cases[j]] /\ Cases' = [j \in Rid |-> Cases'[j]]
  BY DEF Cases
<1> HIDE DEF Cases
<1> QED
  BY <1>4, <1>5, <1>6, <1>7 DEF i

(* A write that is held aside opens its case or joins one of its author's. *)
LEMMA StoringFindsACase ==
  ASSUME NEW c \in Call, IInv, IInv', CaseInv, [Next]_vars, Storing(c),
         dec[c].disposition = "contested"
  PROVE  Life!OpensItsCase(req[c].id) \/ Life!JoinsACase(NewRecord(c))
<1>1. /\ into[c] \in Entries \cup {None} /\ contests[c] = None /\ req[c].id \in Rid
      /\ contests \in [Call -> Entry \cup {None}]
  BY StoreLocals DEF Storing, IInv, TypeOK
<1>2. /\ Entries \subseteq Entries' /\ Entries' \subseteq Entries \cup {c}
      /\ \A e \in Entries : SameButCount(contests[e], contests'[e])
      /\ c \in Entries' => contests'[c] = NewEntry(c)
  BY LedgerRows DEF Storing
<1>3. CASE into[c] = None
  <2>1. NewEntry(c) \in Entry /\ NewEntry(c) # None
    BY NewEntryType, NoneIsNothingElse DEF Storing
  <2>2. contests' = [contests EXCEPT ![c] = NewEntry(c)]
    BY <1>3 DEF Storing, WriteLedgerRows
  <2>3. /\ Entries' = Entries \cup {c} /\ contests'[c] = NewEntry(c) /\ c \notin Entries
        /\ \A e \in Entries : contests'[e] = contests[e]
    BY <1>1, <2>1, <2>2 DEF Entries
  <2>4. contests'[c].record = req[c].id /\ contests'[c].state = "open"
    BY <2>3 DEF NewEntry
  <2>5. Cases' = [Cases EXCEPT ![req[c].id] = "open"]
    BY <1>1, <2>3, <2>4, CaseOpened
  <2> QED
    BY <2>5 DEF Life!OpensItsCase
<1>4. CASE into[c] # None
  <2> DEFINE j == contests[into[c]].record
  <2>1. into[c] \in Entries /\ into[c] # c
    BY <1>1, <1>4 DEF Entries
  <2>2. c \notin Entries'
    <3>1. contests' = contests \/ contests' = [contests EXCEPT ![into[c]] =
                                                 CountedUp(contests[into[c]])]
      BY <1>4 DEF Storing, WriteLedgerRows
    <3> QED
      BY <1>1, <2>1, <3>1 DEF Entries
  <2>3. Cases' = Cases
    BY <1>2, <2>2, CasesKept DEF SameButCount
  <2>4. Cases[j] # "none" /\ j \in Rid
    BY <2>1, CaseOf
  <2>5. memories[j].author = req[c].agent /\ memories[j].part = req[c].part
    BY <1>4, <2>1 DEF CaseInv, CaseRead, CasesOfAuthors, IInv, TablesInv, LedgerAgrees,
                      EntriesFollowRecords
  <2>6. NewRecord(c).author = req[c].agent /\ NewRecord(c).part = req[c].part
    BY DEF NewRecord
  <2> HIDE DEF j
  <2> QED
    BY <2>3, <2>4, <2>5, <2>6, SameLife DEF Life!JoinsACase
<1> QED
  BY <1>3, <1>4

(* decide() looks at five fields of a write.                               *)
LEMMA GateLooksAtFive ==
  ASSUME NEW w, NEW u, NEW s, NEW enabled, w.content = u.content, w.claim = u.claim,
         w.supersedes = u.supersedes, w.asserted = u.asserted, w.derived = u.derived
  PROVE  Decide(w, s, enabled) = Decide(u, s, enabled)
BY DEF Decide, Differs, Retrograde, Undeclared

(* What the gate was shown is filed in the slot when the write lands.      *)
LEMMA JudgedOnWhatIsFiled ==
  ASSUME NEW c \in Call, IInv, ScopedReads, CaseInv, Storing(c)
  PROVE  \E shown \in SUBSET Filed(memories, req[c].claim, req[c].part) :
           Life!JudgedOn(NewRecord(c), shown)
<1> DEFINE shown == dec[c].incumbents
           r == NewRecord(c)
           w == [content |-> r.content, claim |-> r.claim,
                 supersedes |-> r.supersedes, asserted |-> r.asserted,
                 derived |-> req[c].derived]
           slot == SlotOccupants(memories, shown)
<1>1. dec[c] # None /\ req[c].derived \in BOOLEAN
  BY StoreLocals DEF Storing, IInv, LocalsInv, LocalsOK, Request
<1>2. /\ shown \subseteq Admitted(memories)
      /\ \A i \in shown : memories[i].part = req[c].part
      /\ dec[c] = Decide(req[c], slot, Triggers)
  BY <1>1 DEF ScopedReads, DecisionAsShown
<1>3. shown \in SUBSET Filed(memories, req[c].claim, req[c].part)
  BY <1>1, <1>2 DEF CaseInv, CaseRead, Filed
<1>4. /\ r.content = req[c].content /\ r.claim = req[c].claim
      /\ r.supersedes = req[c].supersedes /\ r.asserted = req[c].asserted
      /\ r.disposition = dec[c].disposition
  BY DEF NewRecord
<1> HIDE DEF r, slot
<1>5. Decide(w, slot, Triggers) = Decide(req[c], slot, Triggers)
  BY <1>4, GateLooksAtFive
<1>6. r.disposition = Decide(w, slot, Triggers).disposition
  BY <1>2, <1>4, <1>5
<1>7. /\ Life!SlotOccupants(memories, shown) = slot
      /\ Life!Decide(w, slot, Triggers) = Decide(w, slot, Triggers)
  BY SameLife DEF slot
<1> HIDE DEF shown
<1>8. Life!JudgedOn(r, shown)
  BY <1>1, <1>6, <1>7 DEF Life!JudgedOn
<1> QED
  BY <1>3, <1>8 DEF r

LEMMA StoringLives ==
  ASSUME NEW c \in Call, IInv, IInv', ScopedReads, CaseInv, [Next]_vars, Storing(c)
  PROVE  req[c].id \in Rid /\ Life!Write(req[c].id)
<1> DEFINE i == req[c].id
           r == NewRecord(c)
<1>1. /\ i \in Rid /\ req[c] # None /\ req[c].part # None
      /\ dec[c].disposition \in {"admitted", "contested"}
  BY StoreLocals, NoneIsNothingElse DEF Storing, Decision, Disposition
<1>2. /\ r \in Record /\ r.claim = req[c].claim /\ r.part = req[c].part
      /\ r.disposition = dec[c].disposition /\ r.author = req[c].agent
  BY NewRecordType DEF Storing, NewRecord
<1>3. /\ memories[i] = None /\ memories'[i] = r
      /\ memories' = [memories EXCEPT ![i] = r]
  BY StoredTables DEF Storing
<1>4. r.part \in Access[r.author]
  BY <1>1, <1>2 DEF ScopedReads, RequestScoped
<1>5. \E shown \in SUBSET Life!Filed(memories, r.claim, r.part) : Life!JudgedOn(r, shown)
  BY <1>2, JudgedOnWhatIsFiled, SameLife
<1>6. \/ r.disposition = "admitted" /\ Cases' = Cases
      \/ /\ r.disposition = "contested"
         /\ Life!OpensItsCase(i) \/ Life!JoinsACase(r)
  <2>1. CASE dec[c].disposition = "admitted"
    <3>1. contests' = contests
      BY <2>1 DEF Storing, WriteLedgerRows
    <3> QED
      BY <1>2, <2>1, <3>1, CasesKept DEF Entries
  <2>2. CASE dec[c].disposition = "contested"
    BY <1>2, <2>2, StoringFindsACase
  <2> QED
    BY <1>1, <2>1, <2>2
<1> HIDE DEF i, r
<1>7. r \in Life!Record
  BY <1>2, SameLife
<1>8. Life!Write(i)
  BY <1>3, <1>4, <1>5, <1>6, <1>7, Zenon DEF Life!Write
<1> QED
  BY <1>1, <1>8 DEF i

LEMMA DecidingLives ==
  ASSUME NEW c \in Call, IInv, Deciding(c)
  PROVE  verdict[c].record \in Rid /\ Life!Judgement(verdict[c].record)
<1> DEFINE i == verdict[c].record
<1>1. /\ verdict[c] \in Verdict /\ i \in Rid /\ memories[i] \in Record
  BY DecidingLocals DEF Deciding
<1>2. /\ memories[i].disposition = "contested"
      /\ memories'[i] = Refiled(memories[i], verdict[c])
      /\ memories' = [memories EXCEPT ![i] = Refiled(memories[i], verdict[c])]
  BY DecidedTables DEF Deciding
<1>3. memories'[i] \in Record
  BY <1>1, <1>2, RefiledRecord
<1>4. SameButDecided(memories[i], memories'[i])
  BY <1>1, <1>2, RefiledIsDecided
<1>5. Cases[i] = "open" /\ Cases' = [Cases EXCEPT ![i] = "closed"]
  BY CaseClosed
<1> HIDE DEF i
<1>6. memories' = [memories EXCEPT ![i] = [memories[i] EXCEPT
                     !.disposition = memories'[i].disposition, !.claim = memories'[i].claim]]
  BY <1>2, <1>4 DEF SameButDecided
<1>7. Life!Judgement(i)
  BY <1>2, <1>3, <1>5, <1>6, SameLife DEF Life!Judgement
<1> QED
  BY <1>1, <1>7 DEF i

(* However the calls interleave and wherever they die, the memories table  *)
(* changes only by a write judged on what its slot still holds and, if it  *)
(* is held aside, under a case of its author; or by the one verdict that   *)
(* closes a record's own case.                                             *)
THEOREM LedgerImplementsTheLife == Spec => WritesLiveByTheLedger
<1>1. Init => Life!LifeInit
  <2> SUFFICES ASSUME Init PROVE Life!LifeInit
    OBVIOUS
  <2>1. Entries = {}
    BY DEF Init, Entries
  <2>2. Cases = [i \in Rid |-> "none"]
    BY <2>1 DEF Cases
  <2> QED
    BY <2>2, SameLife DEF Init, Life!LifeInit
<1>2. IInv /\ IInv' /\ ScopedReads /\ CaseInv /\ [Next]_vars
        => [Life!LifeNext]_<<memories, Cases>>
  <2> SUFFICES ASSUME IInv, IInv', ScopedReads, CaseInv, [Next]_vars
               PROVE  Life!LifeNext \/ UNCHANGED <<memories, Cases>>
    OBVIOUS
  <2>1. CASE UNCHANGED tables
    <3>1. Cases' = Cases
      BY <2>1, CasesKept DEF tables, Entries
    <3> QED
      BY <2>1, <3>1 DEF tables
  <2>2. ASSUME NEW c \in Call, Storing(c)
        PROVE  Life!LifeNext
    BY <2>2, StoringLives, SameLife DEF Life!LifeNext
  <2>3. ASSUME NEW c \in Call, Deciding(c)
        PROVE  Life!LifeNext
    BY <2>3, DecidingLives, SameLife DEF Life!LifeNext
  <2> QED
    BY <2>1, <2>2, <2>3, WritingSteps
<1> QED
  BY <1>1, <1>2, LedgerInvariant, ReadsAreScoped, CasesAreKept, PTL
     DEF Spec, WritesLiveByTheLedger, Life!LifeSpec

-----------------------------------------------------------------------------
(* One call at a time.                                                     *)

LEMMA InFlightIsAFew ==
  ASSUME Alone
  PROVE  InFlight = {} \/ \E c \in Call : InFlight = {c}
BY DEF Alone, InFlight

LEMMA NobodyWhenOneBegins ==
  ASSUME MaxInFlight = 1, Alone, Cardinality(InFlight) < MaxInFlight
  PROVE  InFlight = {}
<1>1. ASSUME NEW c \in Call, InFlight = {c}
      PROVE  FALSE
  <2>1. Cardinality({c}) = 1
    BY FS_Singleton
  <2> QED
    BY <1>1, <2>1
<1> QED
  BY <1>1, InFlightIsAFew

(* Whoever takes a step is the only one in flight.                         *)
LEMMA SoleCall ==
  ASSUME MaxInFlight = 1, Alone, NEW c \in Call, CallStep(c)
  PROVE  InFlight \subseteq {c}
<1>1. CASE pc[c] = "idle" /\ Cardinality(InFlight) < MaxInFlight
  BY <1>1, NobodyWhenOneBegins
<1>2. CASE c \in InFlight
  BY <1>2 DEF Alone
<1>3. (pc[c] = "idle" /\ Cardinality(InFlight) < MaxInFlight) \/ c \in InFlight
  <2>1. CASE BeginRemember(c) \/ BeginSupersede(c) \/ BeginResolve(c)
    BY <2>1 DEF BeginRemember, BeginSupersede, BeginResolve
  <2>2. CASE ReadOld(c) \/ ReadLineage(c) \/ ReadExisting(c) \/ ReadSlot(c)
    BY <2>2 DEF ReadOld, ReadLineage, ReadExisting, ReadSlot, InFlight
  <2>3. CASE FindOpenContest(c) \/ Store(c) \/ CheckFree(c) \/ Resolve(c) \/ Crash(c)
    BY <2>3 DEF FindOpenContest, Store, CheckFree, Resolve, Crash, InFlight
  <2> QED
    BY <2>1, <2>2, <2>3 DEF CallStep
<1> QED
  BY <1>1, <1>2, <1>3

LEMMA StaysAlone ==
  ASSUME NEW c \in Call, InFlight \subseteq {c}, OthersKeep(c)
  PROVE  Alone'
BY DEF Alone, InFlight, OthersKeep

-----------------------------------------------------------------------------
(* What a call read is fresh.                                              *)

FreshCall(c) == ReadsAreFresh(c) /\ VerdictStands(c)

LEMMA FreshIfGone ==
  ASSUME NEW c \in Call, NEW status, NEW record, NEW contest, TypeOK,
         Finish(c, status, record, contest)
  PROVE  FreshCall(c)'
<1>1. pc'[c] = "done" /\ dec'[c] = None /\ verdict'[c] = None
  BY DEF TypeOK, Finish, Goto
<1> QED
  BY <1>1 DEF FreshCall, ReadsAreFresh, VerdictStands

(* The partition of the record a verdict is on never changes.              *)
LEMMA VerdictKept ==
  ASSUME IInv, [Next]_vars, NEW d \in Call, VerdictStands(d),
         verdict'[d] = verdict[d],
         pc'[d] = pc[d] \/ verdict[d] = None \/ verdict[d].resolution # "split"
           \/ pc'[d] \in {"free", "resolve"}
  PROVE  VerdictStands(d)'
<1> SUFFICES ASSUME verdict[d] # None
             PROVE  memories'[verdict[d].record].part = memories[verdict[d].record].part
  BY DEF VerdictStands
<1>1. /\ verdict[d].contest \in Entries
      /\ contests[verdict[d].contest].record = verdict[d].record
  BY DEF IInv, LocalsInv, ReadsStayTrue
<1>2. verdict[d].record \in Stored(memories)
  BY <1>1, ContestedRecord, NoneIsNothingElse DEF Stored
<1> QED
  BY <1>2, WhatStays

(* A call that stands at no write of its own has nothing that could go     *)
(* stale.                                                                  *)
LEMMA FreshIfQuiet ==
  ASSUME IInv, [Next]_vars, NEW d \in Call, FreshCall(d), verdict'[d] = verdict[d],
         dec'[d] = None, pc'[d] \in {"idle", "old", "lineage", "get", "slot", "free", "done"},
         pc'[d] = pc[d] \/ pc[d] \in {"old", "lineage", "get"} \/ verdict[d] = None
  PROVE  FreshCall(d)'
<1>1. VerdictStands(d)'
  BY VerdictKept DEF FreshCall, VerdictStands
<1>2. ReadsAreFresh(d)'
  BY DEF ReadsAreFresh
<1> QED
  BY <1>1, <1>2 DEF FreshCall

LEMMA OthersStayFresh ==
  ASSUME IInv, [Next]_vars, NEW c \in Call, NEW d \in Call \ {c}, FreshCall(d),
         InFlight \subseteq {c}, OthersKeep(c)
  PROVE  FreshCall(d)'
<1>1. pc[d] \in {"idle", "done"}
  BY DEF InFlight
<1>2. dec[d] = None
  BY <1>1 DEF IInv, LocalsInv, LocalsOK
<1> QED
  BY <1>1, <1>2, FreshIfQuiet DEF OthersKeep

LEMMA BeginFresh ==
  ASSUME NEW c \in Call, IInv, [Next]_vars, ScopedReads, FreshCall(c),
         BeginRemember(c) \/ BeginSupersede(c)
  PROVE  FreshCall(c)'
<1>1. /\ pc[c] = "idle" /\ pc'[c] \in {"get", "old"} /\ dec'[c] = dec[c]
      /\ verdict'[c] = verdict[c]
  BY DEF BeginRemember, BeginSupersede, Goto, IInv, TypeOK
<1>2. dec[c] = None /\ verdict[c] = None
  BY <1>1 DEF IInv, LocalsInv, LocalsOK, ScopedReads, RequestScoped
<1> QED
  BY <1>1, <1>2, FreshIfQuiet

LEMMA BeginResolveFresh ==
  ASSUME NEW c \in Call, IInv, FreshCall(c), BeginResolve(c)
  PROVE  FreshCall(c)'
<1>1. CASE Refuse(c)
  BY <1>1, FreshIfGone DEF Refuse, IInv
<1>2. ASSUME NEW e \in Entries, NEW v \in Verdict, Appends(c, v, e) \/ Decides(c, v, e)
      PROVE  FreshCall(c)'
  <2>1. /\ verdict'[c] = v /\ v.part = memories'[v.record].part
        /\ dec'[c] = dec[c]
    BY <1>2 DEF Appends, Decides, Opens, IInv, TypeOK, tables
  <2>2. dec[c] = None
    BY DEF BeginResolve, IInv, LocalsInv, LocalsOK
  <2>3. \/ pc'[c] = "old" /\ v.resolution # "split"
        \/ pc'[c] = "resolve" /\ v.resolution # "split"
        \/ pc'[c] = "free" /\ v.newKey # None
    BY <1>2 DEF Appends, Decides, Goto, IInv, TypeOK
  <2> QED
    BY <2>1, <2>2, <2>3 DEF FreshCall, ReadsAreFresh, VerdictStands
<1> QED
  BY <1>1, <1>2, BeginResolveShape

LEMMA ReadFresh ==
  ASSUME NEW c \in Call, IInv, [Next]_vars, FreshCall(c), ReadOld(c) \/ ReadLineage(c)
  PROVE  FreshCall(c)'
<1>1. CASE Refuse(c)
  BY <1>1, FreshIfGone DEF Refuse, IInv
<1>2. CASE /\ pc[c] \in {"old", "lineage"} /\ UNCHANGED <<dec, verdict>>
           /\ Goto(c, "lineage") \/ Goto(c, "get")
  <2>1. pc'[c] \in {"lineage", "get"}
    BY <1>2 DEF Goto, IInv, TypeOK
  <2>2. dec[c] = None
    BY <1>2 DEF IInv, LocalsInv, LocalsOK
  <2> QED
    BY <1>2, <2>1, <2>2, FreshIfQuiet
<1> QED
  BY <1>1, <1>2 DEF ReadOld, ReadLineage, locals

LEMMA ReadExistingFresh ==
  ASSUME NEW c \in Call, IInv, [Next]_vars, FreshCall(c), ReadExisting(c)
  PROVE  FreshCall(c)'
<1>1. CASE Refuse(c) \/ Finish(c, "retained", req[c].id, None)
  BY <1>1, FreshIfGone DEF Refuse, IInv
<1>2. CASE /\ req[c].claim = None /\ dec' = [dec EXCEPT ![c] = Admit({})]
           /\ Goto(c, "store")
           /\ UNCHANGED <<tables, req, into, verdict, out>>
  <2>1. Admit({}) = Decide(req[c], SlotNow(c), Triggers)
    BY <1>2 DEF Decide
  <2>2. /\ pc'[c] = "store" /\ dec'[c] = Admit({})
        /\ SlotNow(c)' = SlotNow(c) /\ req'[c] = req[c]
    BY <1>2 DEF Goto, IInv, TypeOK, SlotNow, tables
  <2>3. Admit({}).disposition = "admitted"
    BY DEF Admit
  <2>4. ReadsAreFresh(c)'
    BY <2>1, <2>2, <2>3 DEF ReadsAreFresh
  <2>5. VerdictStands(c)'
    BY <1>2, VerdictKept DEF FreshCall, VerdictStands, ReadExisting
  <2> QED
    BY <2>4, <2>5 DEF FreshCall
<1>3. CASE /\ pc[c] = "get" /\ Goto(c, "slot")
           /\ UNCHANGED <<tables, req, dec, into, verdict, out>>
  BY <1>3, FreshIfQuiet DEF Goto, IInv, TypeOK, LocalsInv, LocalsOK
<1> QED
  BY <1>1, <1>2, <1>3 DEF ReadExisting

LEMMA ReadSlotFresh ==
  ASSUME NEW c \in Call, IInv, [Next]_vars, FreshCall(c), ReadSlot(c)
  PROVE  FreshCall(c)'
<1> DEFINE d == Decide(req[c], SlotNow(c), Triggers)
<1>1. /\ pc[c] = "slot" /\ dec' = [dec EXCEPT ![c] = d]
      /\ Goto(c, IF d.disposition = "contested" THEN "coalesce" ELSE "store")
      /\ UNCHANGED <<tables, req, into, verdict, out>>
  BY DEF ReadSlot, SlotNow
<1>2. /\ dec'[c] = d /\ SlotNow(c)' = SlotNow(c) /\ req'[c] = req[c]
      /\ IF d.disposition = "contested" THEN pc'[c] = "coalesce" ELSE pc'[c] = "store"
  BY <1>1 DEF Goto, IInv, TypeOK, SlotNow, tables
<1> HIDE DEF d
<1>3. ReadsAreFresh(c)'
  <2>1. dec'[c] = Decide(req'[c], SlotNow(c)', Triggers)
    BY <1>2 DEF d
  <2>2. pc'[c] = "store" => dec'[c].disposition # "contested"
    BY <1>2
  <2>3. pc'[c] # "resolve"
    BY <1>2
  <2> QED
    BY <2>1, <2>2, <2>3 DEF ReadsAreFresh
<1>4. VerdictStands(c)'
  BY <1>1, VerdictKept DEF FreshCall, VerdictStands
<1> QED
  BY <1>3, <1>4 DEF FreshCall

LEMMA FindOpenContestFresh ==
  ASSUME NEW c \in Call, IInv, [Next]_vars, FreshCall(c), FindOpenContest(c)
  PROVE  FreshCall(c)'
<1>1. /\ pc[c] = "coalesce" /\ Goto(c, "store")
      /\ UNCHANGED <<tables, req, dec, verdict, out>>
      /\ \/ \E e \in MyOpenEntries(c) : into' = [into EXCEPT ![c] = e]
         \/ MyOpenEntries(c) = {} /\ UNCHANGED into
  BY DEF FindOpenContest, MyOpenEntries
<1>2. into[c] = None /\ pc'[c] = "store"
  BY <1>1 DEF IInv, TypeOK, LocalsInv, LocalsOK, Goto
<1>3. MyOpenEntries(c)' = MyOpenEntries(c) /\ SlotNow(c)' = SlotNow(c)
  BY <1>1 DEF MyOpenEntries, OpenFor, Open, Entries, SlotNow, tables
<1>4. IF into'[c] = None THEN MyOpenEntries(c) = {} ELSE into'[c] \in MyOpenEntries(c)
  <2>1. ASSUME NEW e \in MyOpenEntries(c), into' = [into EXCEPT ![c] = e]
        PROVE  into'[c] = e /\ e # None
    <3>1. e \in Call
      BY DEF MyOpenEntries, OpenFor, Open, Entries
    <3> QED
      BY <2>1, <3>1, NoneIsNothingElse DEF IInv, TypeOK, Rid
  <2> QED
    BY <1>1, <1>2, <2>1
<1>5. ReadsAreFresh(c)'
  BY <1>1, <1>2, <1>3, <1>4 DEF FreshCall, ReadsAreFresh
<1>6. VerdictStands(c)'
  BY <1>1, VerdictKept DEF FreshCall, VerdictStands
<1> QED
  BY <1>5, <1>6 DEF FreshCall

LEMMA StoreFresh ==
  ASSUME NEW c \in Call, IInv, [Next]_vars, FreshCall(c), Store(c)
  PROVE  FreshCall(c)'
<1>1. ASSUME NEW status, NEW record, NEW contest, Finish(c, status, record, contest)
      PROVE  FreshCall(c)'
  BY <1>1, FreshIfGone DEF IInv
<1>2. CASE KeepRetained(c)
  BY <1>1, <1>2 DEF KeepRetained, Refuse
<1>3. CASE InsertRecord(c) /\ verdict[c] = None
  BY <1>1, <1>3 DEF InsertRecord, AfterStore
<1>4. CASE InsertRecord(c) /\ verdict[c] # None
  <2> DEFINE v == [verdict[c] EXCEPT !.successor = req[c].id]
  <2>1. verdict[c] \in Verdict
    BY <1>4 DEF IInv, TypeOK
  <2>2. /\ v.record = verdict[c].record /\ v.part = verdict[c].part
        /\ v.resolution = verdict[c].resolution
    BY <2>1 DEF Verdict
  <2> HIDE DEF v
  <2>3. pc[c] = "store" /\ pc'[c] = "resolve" /\ dec'[c] = None /\ verdict'[c] = v
    BY <1>4 DEF Store, InsertRecord, AfterStore, Goto, IInv, TypeOK, v
  <2>4. v.resolution # "split" /\ v.part = memories[v.record].part
    BY <1>4, <2>2, <2>3 DEF FreshCall, VerdictStands
  <2>5. memories'[v.record].part = memories[v.record].part
    <3>1. /\ verdict[c].contest \in Entries
          /\ contests[verdict[c].contest].record = verdict[c].record
      BY <1>4 DEF IInv, LocalsInv, ReadsStayTrue
    <3>2. verdict[c].record \in Stored(memories)
      BY <3>1, ContestedRecord, NoneIsNothingElse DEF Stored
    <3> QED
      BY <2>2, <3>2, WhatStays
  <2> QED
    BY <2>3, <2>4, <2>5 DEF FreshCall, ReadsAreFresh, VerdictStands
<1> QED
  BY <1>2, <1>3, <1>4 DEF Store

LEMMA CheckFreeFresh ==
  ASSUME NEW c \in Call, IInv, [Next]_vars, FreshCall(c), CheckFree(c)
  PROVE  FreshCall(c)'
<1>1. CASE Refuse(c)
  BY <1>1, FreshIfGone DEF Refuse, IInv
<1>2. CASE /\ pc[c] = "free" /\ Goto(c, "resolve") /\ UNCHANGED <<tables, locals, out>>
           /\ Occupants(memories, verdict[c].newKey, verdict[c].part) = {}
  <2>1. pc'[c] = "resolve" /\ dec[c] = None /\ UNCHANGED <<memories, verdict, dec>>
    BY <1>2 DEF Goto, IInv, TypeOK, LocalsInv, LocalsOK, tables, locals
  <2>2. VerdictStands(c)'
    BY <2>1, VerdictKept DEF FreshCall
  <2>3. ReadsAreFresh(c)'
    BY <1>2, <2>1 DEF ReadsAreFresh
  <2> QED
    BY <2>2, <2>3 DEF FreshCall
<1> QED
  BY <1>1, <1>2 DEF CheckFree

LEMMA StepFresh ==
  ASSUME MaxInFlight = 1, IInv, ScopedReads, FreshReads, [Next]_vars
  PROVE  FreshReads'
<1>0. FreshReads <=> Alone /\ \A c \in Call : FreshCall(c)
  BY DEF FreshReads, FreshCall
<1>1. CASE UNCHANGED vars \/ Quiesce
  BY <1>1 DEF Quiesce, vars, FreshReads, Alone, InFlight, ReadsAreFresh, SlotNow,
              MyOpenEntries, OpenFor, Open, Entries, VerdictStands
<1>2. ASSUME NEW c \in Call, CallStep(c)
      PROVE  FreshReads'
  <2>1. InFlight \subseteq {c} /\ OthersKeep(c) /\ FreshCall(c)
    BY <1>0, <1>2, SoleCall, OneCallSteps DEF IInv
  <2>2. Alone'
    BY <2>1, StaysAlone
  <2>3. \A d \in Call \ {c} : FreshCall(d)'
    BY <1>0, <2>1, OthersStayFresh
  <2>4. FreshCall(c)'
    <3>1. CASE Resolve(c) \/ Crash(c)
      BY <3>1, FreshIfGone DEF Resolve, Crash, IInv
    <3> QED
      BY <1>2, <2>1, <3>1, BeginFresh, BeginResolveFresh, ReadFresh, ReadExistingFresh,
         ReadSlotFresh, FindOpenContestFresh, StoreFresh, CheckFreeFresh DEF CallStep
  <2> QED
    BY <2>2, <2>3, <2>4 DEF FreshReads, FreshCall
<1> QED
  BY <1>1, <1>2 DEF Next

(* With one call in flight, what a call read is what it would read again.  *)
LEMMA ReadsStayFresh ==
  ASSUME MaxInFlight = 1
  PROVE  Spec => []FreshReads
<1>1. Init => FreshReads
  BY DEF Init, FreshReads, Alone, InFlight, ReadsAreFresh, VerdictStands
<1>2. IInv /\ ScopedReads /\ FreshReads /\ [Next]_vars => FreshReads'
  BY StepFresh
<1> QED
  BY <1>1, <1>2, LedgerInvariant, ReadsAreScoped, PTL DEF Spec
-----------------------------------------------------------------------------
(* The ledger implements the atomic gate.                                  *)

(* The gate of AtomicGate is the gate of ClaimSlots.                       *)
LEMMA SameRecords == Gate!Record = Record /\ Gate!Rid = Rid
BY DEF Gate!Record, Record, Gate!Rid, Rid, Gate!Disposition, Disposition

LEMMA SameGate ==
  /\ \A m, k, p : Gate!Occupants(m, k, p) = Occupants(m, k, p)
  /\ \A m, ids : Gate!SlotOccupants(m, ids) = SlotOccupants(m, ids)
  /\ \A w, s, enabled : Gate!Decide(w, s, enabled) = Decide(w, s, enabled)
<1>2. ASSUME NEW m PROVE Gate!Admitted(m) = Admitted(m)
  BY SameRecords DEF Gate!Admitted, Admitted, Gate!Stored, Stored
<1>3. ASSUME NEW m, NEW k, NEW p
      PROVE  Gate!Occupants(m, k, p) = Occupants(m, k, p)
  BY <1>2 DEF Gate!Occupants, Occupants, Gate!Filed, Filed
<1>4. ASSUME NEW m, NEW ids
      PROVE  Gate!SlotOccupants(m, ids) = SlotOccupants(m, ids)
  BY DEF Gate!SlotOccupants, SlotOccupants
<1>5. ASSUME NEW w, NEW s, NEW enabled
      PROVE  Gate!Decide(w, s, enabled) = Decide(w, s, enabled)
  BY DEF Gate!Decide, Decide, Gate!Admit, Admit, Gate!Contest, Contest,
         Gate!Differs, Differs, Gate!Retrograde, Retrograde, Gate!Undeclared, Undeclared
<1> QED
  BY <1>3, <1>4, <1>5

(* What a write is judged against when it lands is all of the slot: its    *)
(* own id is not there yet.                                                *)
LEMMA SlotWhenStoring ==
  ASSUME NEW c \in Call, Storing(c)
  PROVE  SlotNow(c) =
           SlotOccupants(memories, Occupants(memories, req[c].claim, req[c].part))
BY DEF Storing, SlotNow, Occupants, Filed, Admitted, Stored

LEMMA StoringIsAWrite ==
  ASSUME NEW c \in Call, IInv, ScopedReads, FreshReads, Storing(c)
  PROVE  Gate!Write(req[c].id)
<1> DEFINE i == req[c].id
           r == NewRecord(c)
           w == [content |-> r.content, claim |-> r.claim,
                 supersedes |-> r.supersedes, asserted |-> r.asserted,
                 derived |-> req[c].derived]
           slot == SlotOccupants(memories, Occupants(memories, r.claim, r.part))
<1>1. /\ req[c] \in Request /\ i \in Rid /\ req[c] # None /\ req[c].part # None
      /\ req[c].derived \in BOOLEAN
  <2>1. req[c] \in Request /\ i \in Rid /\ req[c].part \in Part
    BY StoreLocals DEF Storing
  <2> QED
    BY <2>1, NoneIsNothingElse DEF Request
<1>2. /\ r \in Record /\ memories[i] = None
      /\ memories' = [memories EXCEPT ![i] = r]
  BY NewRecordType DEF Storing
<1>3. memories'[i] = r
  BY StoredTables
<1>4. r.part \in Access[r.author]
  BY <1>1 DEF ScopedReads, RequestScoped, NewRecord
<1>5. r.disposition = Decide(w, slot, Triggers).disposition
  <2>1. dec[c] # None
    BY DEF Storing, IInv, LocalsInv, LocalsOK
  <2>2. dec[c] = Decide(req[c], SlotNow(c), Triggers)
    BY <2>1 DEF FreshReads, ReadsAreFresh
  <2>3. /\ r.content = req[c].content /\ r.claim = req[c].claim
        /\ r.supersedes = req[c].supersedes /\ r.asserted = req[c].asserted
        /\ r.part = req[c].part /\ r.disposition = dec[c].disposition
    BY DEF NewRecord
  <2>4. slot = SlotNow(c)
    BY <2>3, SlotWhenStoring
  <2> HIDE DEF r, slot
  <2>5. Decide(w, slot, Triggers) = Decide(req[c], slot, Triggers)
    BY <2>3, GateLooksAtFive
  <2> QED
    BY <2>2, <2>3, <2>4, <2>5
<1> HIDE DEF i, r
<1>6. \E cites \in BOOLEAN :
        r.disposition = Gate!Decide([content |-> r.content, claim |-> r.claim,
                                     supersedes |-> r.supersedes, asserted |-> r.asserted,
                                     derived |-> cites],
                          Gate!SlotOccupants(memories, Gate!Occupants(memories, r.claim, r.part)),
                          Triggers).disposition
  <2>1. Gate!SlotOccupants(memories, Gate!Occupants(memories, r.claim, r.part)) = slot
    BY SameGate
  <2>2. Gate!Decide(w, slot, Triggers) = Decide(w, slot, Triggers)
    BY SameGate
  <2> HIDE DEF slot
  <2> QED
    BY <1>1, <1>5, <2>1, <2>2
<1>7. /\ memories[i] = None /\ memories'[i] \in Gate!Record
      /\ memories'[i].part \in Access[memories'[i].author]
      /\ memories' = [memories EXCEPT ![i] = memories'[i]]
  <2>1. memories'[i] \in Gate!Record
    BY <1>2, <1>3, SameRecords
  <2>2. memories' = [memories EXCEPT ![i] = memories'[i]]
    BY <1>2, <1>3, Zenon
  <2> QED
    BY <1>2, <1>3, <1>4, <2>1, <2>2, Zenon
<1>8. Gate!Write(i)
  BY <1>3, <1>6, <1>7, Zenon DEF Gate!Write
<1> QED
  BY <1>8 DEF i

LEMMA DecidingIsAVerdict ==
  ASSUME NEW c \in Call, IInv, Deciding(c)
  PROVE  /\ verdict[c].record \in Rid
         /\ Gate!Decided(verdict[c].record)
<1> DEFINE i == verdict[c].record
<1>1. /\ verdict[c] \in Verdict /\ i \in Rid /\ memories[i] \in Record
  BY DecidingLocals DEF Deciding
<1>2. /\ memories[i].disposition = "contested"
      /\ memories'[i] = Refiled(memories[i], verdict[c])
      /\ memories' = [memories EXCEPT ![i] = Refiled(memories[i], verdict[c])]
  BY DecidedTables DEF Deciding
<1>3. memories'[i] \in Record /\ memories[i] # None
  BY <1>1, <1>2, RefiledRecord, NoneIsNothingElse
<1>4. SameButDecided(memories[i], memories'[i])
  BY <1>1, <1>2, RefiledIsDecided
<1> HIDE DEF i
<1>5. memories' = [memories EXCEPT ![i] = [memories[i] EXCEPT
                     !.disposition = memories'[i].disposition, !.claim = memories'[i].claim]]
  BY <1>2, <1>4 DEF SameButDecided
<1>6. Gate!Decided(i)
  BY <1>2, <1>3, <1>5, SameRecords DEF Gate!Decided
<1> QED
  BY <1>1, <1>6 DEF i

(* Where no two calls overlap, gate and store are as one step: every write *)
(* is judged against the slot as it stands when the write lands.           *)
THEOREM GateIsAtomicWhenSerial ==
  ASSUME MaxInFlight = 1
  PROVE  Spec => GateIsAtomic
<1>1. Init => Gate!GateInit
  BY SameRecords DEF Init, Gate!GateInit
<1>2. IInv /\ ScopedReads /\ FreshReads /\ [Next]_vars => [Gate!GateNext]_memories
  <2> SUFFICES ASSUME IInv, ScopedReads, FreshReads, [Next]_vars
               PROVE  Gate!GateNext \/ UNCHANGED memories
    OBVIOUS
  <2>1. CASE UNCHANGED tables
    BY <2>1 DEF tables
  <2>2. ASSUME NEW c \in Call, Storing(c)
        PROVE  Gate!GateNext
    <3>1. req[c].id \in Rid
      BY <2>2, StoreLocals DEF Storing
    <3> QED
      BY <2>2, <3>1, StoringIsAWrite, SameRecords DEF Gate!GateNext
  <2>3. ASSUME NEW c \in Call, Deciding(c)
        PROVE  Gate!GateNext
    BY <2>3, DecidingIsAVerdict, SameRecords DEF Gate!GateNext
  <2> QED
    BY <2>1, <2>2, <2>3, WritingSteps
<1> QED
  BY <1>1, <1>2, LedgerInvariant, ReadsAreScoped, ReadsStayFresh, PTL
     DEF Spec, GateIsAtomic, Gate!GateSpec
-----------------------------------------------------------------------------
(* One open entry for each slot and agent.                                 *)

LEMMA StoringKeepsOneOpen ==
  ASSUME NEW c \in Call, IInv, FreshReads, OneOpenEntryPerSlotAndAgent, Storing(c)
  PROVE  OneOpenEntryPerSlotAndAgent'
<1> DEFINE Slot(e) == <<contests[e].claim, contests[e].part, contests[e].author>>
           Mine == <<req[c].claim, req[c].part, req[c].agent>>
<1>1. /\ pc[c] = "store" /\ WriteLedgerRows(c) /\ c \notin Entries
  BY StoreLocals DEF Storing, Entries
<1>2. \A e \in Open' : e \in Open \/ e = c
  <2>1. ASSUME NEW e \in Open', e # c
        PROVE  e \in Open
    <3>1. e \in Entries /\ contests'[e].state = "open"
      BY <1>1, <2>1, LedgerRows DEF Open
    <3>2. contests[e].state = contests'[e].state
      BY <1>1, <3>1, LedgerRows DEF SameButCount
    <3> QED
      BY <3>1, <3>2 DEF Open
  <2> QED
    BY <2>1
<1>3. \A e \in Open : Slot(e)' = Slot(e)
  BY <1>1, LedgerRows DEF Open, SameButCount
<1>4. ASSUME c \in Open'
      PROVE  Slot(c)' = Mine /\ \A e \in Open : Slot(e) # Mine
  <2>1. c \in Entries' /\ dec[c].disposition = "contested" /\ contests'[c] = NewEntry(c)
    BY <1>1, <1>4, LedgerRows DEF Open
  <2>2. into[c] = None
    <3>1. CASE into[c] # None
      <4>1. into[c] \in Entries /\ into[c] # c
        BY <1>1, <3>1 DEF IInv, LocalsInv, ReadsStayTrue
      <4>2. contests'[c] = contests[c]
        BY <1>1, <2>1, <3>1, <4>1 DEF WriteLedgerRows, IInv, TypeOK
      <4> QED
        BY <1>1, <2>1, <4>2 DEF Entries
    <3> QED
      BY <3>1
  <2>3. MyOpenEntries(c) = {}
    BY <1>1, <2>1, <2>2 DEF FreshReads, ReadsAreFresh
  <2>4. Slot(c)' = Mine
    BY <2>1 DEF NewEntry
  <2> QED
    BY <2>3, <2>4 DEF MyOpenEntries, OpenFor
<1> HIDE DEF Mine
<1>5. ASSUME NEW e \in Open', NEW f \in Open', Slot(e)' = Slot(f)'
      PROVE  e = f
  <2>1. CASE e \in Open /\ f \in Open
    <3>1. Slot(e) = Slot(f)
      BY <1>3, <1>5, <2>1
    <3> QED
      BY <2>1, <3>1 DEF OneOpenEntryPerSlotAndAgent
  <2>2. CASE e = c \/ f = c
    BY <1>2, <1>3, <1>4, <1>5, <2>2
  <2> QED
    BY <1>2, <2>1, <2>2
<1> QED
  BY <1>5 DEF OneOpenEntryPerSlotAndAgent

LEMMA DecidingKeepsOneOpen ==
  ASSUME NEW c \in Call, IInv, OneOpenEntryPerSlotAndAgent, Deciding(c)
  PROVE  OneOpenEntryPerSlotAndAgent'
<1>1. \A e \in Open' : e \in Open /\ contests'[e] = contests[e]
  BY DecidedTables DEF Open, Entries
<1> QED
  BY <1>1 DEF OneOpenEntryPerSlotAndAgent

(* The inbox grows with pairs of slot and agent, not with writes, where no *)
(* two calls overlap.                                                      *)
THEOREM OneOpenEntryWhenSerial ==
  ASSUME MaxInFlight = 1
  PROVE  Spec => []OneOpenEntryPerSlotAndAgent
<1>1. Init => OneOpenEntryPerSlotAndAgent
  BY DEF Init, OneOpenEntryPerSlotAndAgent, Open, Entries
<1>2. ASSUME IInv, FreshReads, OneOpenEntryPerSlotAndAgent, [Next]_vars
      PROVE  OneOpenEntryPerSlotAndAgent'
  <2>1. CASE UNCHANGED tables
    BY <1>2, <2>1 DEF tables, OneOpenEntryPerSlotAndAgent, Open, Entries
  <2> QED
    BY <1>2, <2>1, WritingSteps, StoringKeepsOneOpen, DecidingKeepsOneOpen
<1>3. IInv /\ FreshReads /\ OneOpenEntryPerSlotAndAgent /\ [Next]_vars
        => OneOpenEntryPerSlotAndAgent'
  BY <1>2
<1> QED
  BY <1>1, <1>3, LedgerInvariant, ReadsStayFresh, PTL DEF Spec

-----------------------------------------------------------------------------
(* A slot holds one answer.                                                *)

(* Where nothing but one record changes, that was not admitted, a slot     *)
(* gets no other occupant.                                                 *)
LEMMA NoOtherOccupant ==
  ASSUME NEW m, NEW n, NEW i, NEW k, NEW p, i \notin Admitted(m),
         \A j \in Rid \ {i} : n[j] = m[j]
  PROVE  Occupants(n, k, p) \subseteq Occupants(m, k, p) \cup {i}
<1> SUFFICES ASSUME NEW x \in Occupants(n, k, p), x # i
             PROVE  x \in Occupants(m, k, p)
  OBVIOUS
<1>1. \A j : j # i => (j \in Filed(m, k, p) <=> j \in Filed(n, k, p))
  BY DEF Filed, Admitted, Stored
<1>2. \A j \in Filed(m, k, p) : j # i /\ j \in Rid /\ n[j] = m[j]
  BY DEF Filed, Admitted, Stored
<1> QED
  BY <1>1, <1>2 DEF Occupants

Judged(i, j) == \E r \in receipts : r.record \in {i, j} /\ r.resolution = "admit"

LEMMA StoringKeepsOneAnswer ==
  ASSUME NEW c \in Call, IInv, FreshReads, "slot-collision" \in Triggers, Storing(c),
         NEW k \in Key, NEW p \in Part, NEW j \in Occupants(memories', k, p),
         req[c].id \in Occupants(memories', k, p), j # req[c].id,
         memories'[j].content # memories'[req[c].id].content
  PROVE  FALSE
<1> DEFINE i == req[c].id
<1>1. /\ memories'[i] = NewRecord(c) /\ i \in Rid /\ i \notin Stored(memories)
      /\ \A x \in Rid \ {i} : memories'[x] = memories[x]
      /\ memories \in [Rid -> Record \cup {None}]
  <2>1. memories' = [memories EXCEPT ![i] = NewRecord(c)] /\ i \in Rid
    BY StoreLocals DEF Storing
  <2> QED
    BY <2>1 DEF IInv, TypeOK, Storing, Stored
<1>2. j \in Occupants(memories, k, p) /\ j \in Rid
  BY <1>1, NoOtherOccupant DEF Admitted, Occupants, Filed, Stored
<1>3. /\ req[c].claim = k /\ req[c].part = p /\ dec[c].disposition = "admitted"
      /\ memories'[i].supersedes = req[c].supersedes
      /\ memories'[i].content = req[c].content /\ i \in Filed(memories', k, p)
  BY <1>1 DEF Occupants, Filed, Admitted, NewRecord
<1>4. dec[c] = Decide(req[c], SlotNow(c), Triggers)
  <2>1. dec[c] # None
    BY DEF Storing, IInv, LocalsInv, LocalsOK
  <2> QED
    BY <2>1 DEF FreshReads, ReadsAreFresh
<1>5. j \in Occupants(memories, req[c].claim, req[c].part) \ {i}
  BY <1>2, <1>3
<1>6. Differs(req[c], SlotNow(c)) /\ j \in Ids(SlotNow(c))
  <2> DEFINE o == [id |-> j, content |-> memories[j].content,
                   asserted |-> memories[j].asserted]
  <2>1. o \in SlotNow(c)
    BY <1>5 DEF SlotNow, SlotOccupants
  <2>2. memories[j].content # req[c].content
    BY <1>1, <1>2, <1>3
  <2> QED
    BY <2>1, <2>2 DEF Differs, Ids
<1>7. ~ Contested(req[c], SlotNow(c), Triggers)
  BY <1>3, <1>4 DEF Contested
<1>8. Ids(SlotNow(c)) = {req[c].supersedes}
  <2>1. req[c].claim # None
    BY <1>3, NoneIsNothingElse
  <2> QED
    BY <1>6, <1>7, <2>1, AdmissionReplacesTheOccupant
<1>9. memories'[i].supersedes = j
  BY <1>3, <1>6, <1>8
<1> QED
  BY <1>3, <1>9 DEF Occupants

LEMMA DecidingKeepsOneAnswer ==
  ASSUME NEW c \in Call, IInv, FreshReads, Deciding(c),
         NEW k \in Key, NEW p \in Part, NEW j \in Occupants(memories', k, p),
         verdict[c].record \in Occupants(memories', k, p), j # verdict[c].record
  PROVE  ResolveReceipt(c).resolution = "admit"
<1> DEFINE v == verdict[c]
           i == v.record
<1>1. /\ v \in Verdict /\ v # None /\ i \in Rid /\ pc[c] = "resolve"
  BY DecidingLocals, NoneIsNothingElse DEF Deciding
<1>2. /\ memories[i].disposition = "contested"
      /\ memories'[i].part = memories[i].part
      /\ memories'[i].claim = IF v.newKey # None THEN v.newKey ELSE memories[i].claim
      /\ memories'[i].disposition = IF Admits(v.resolution) THEN "admitted" ELSE "contested"
      /\ \A x \in Rid \ {i} : memories'[x] = memories[x]
  BY DecidedTables
<1>3. memories'[i].disposition = "admitted" /\ memories'[i].claim = k /\ memories'[i].part = p
  BY DEF Occupants, Filed, Admitted
<1>4. j \in Occupants(memories, k, p)
  <2>1. i \notin Admitted(memories)
    BY <1>2 DEF Admitted
  <2> QED
    BY <1>2, <2>1, NoOtherOccupant
<1>5. v.resolution \in {"admit", "split"}
  BY <1>2, <1>3 DEF Admits
<1>6. CASE v.resolution = "split"
  <2>1. VerdictStands(c) /\ ReadsAreFresh(c)
    BY DEF FreshReads
  <2>2. v.newKey # None /\ v.part = memories[i].part
    BY <1>1, <1>6, <2>1 DEF VerdictStands
  <2>3. Occupants(memories, v.newKey, v.part) = {}
    BY <1>1, <1>6, <2>1 DEF ReadsAreFresh
  <2>4. v.newKey = k /\ v.part = p
    BY <1>2, <1>3, <2>2
  <2> QED
    BY <1>4, <2>3, <2>4
<1>7. CASE v.resolution = "admit"
  BY <1>7 DEF ResolveReceipt
<1> QED
  BY <1>5, <1>6, <1>7

(* With slot collision in force and no two calls overlapping, two          *)
(* occupants of a slot say the same unless an operator admitted one.       *)
THEOREM OneAnswerWhenSerial ==
  ASSUME MaxInFlight = 1, "slot-collision" \in Triggers
  PROVE  Spec => []SlotHoldsOneAnswer
<1>1. Init => SlotHoldsOneAnswer
  BY DEF Init, SlotHoldsOneAnswer, Occupants, Filed, Admitted, Stored
<1>2. ASSUME IInv, FreshReads, SlotHoldsOneAnswer, [Next]_vars
      PROVE  SlotHoldsOneAnswer'
  <2>1. CASE UNCHANGED tables
    BY <1>2, <2>1 DEF tables, SlotHoldsOneAnswer
  <2>2. ASSUME NEW c \in Call, Storing(c), NEW k \in Key, NEW p \in Part,
               NEW i \in Occupants(memories', k, p), NEW j \in Occupants(memories', k, p),
               memories'[i].content # memories'[j].content
        PROVE  Judged(i, j)'
    <3> DEFINE x == req[c].id
    <3>1. i # x /\ j # x
      BY <1>2, <2>2, StoringKeepsOneAnswer
    <3>2. x \notin Stored(memories) /\ \A y \in Rid \ {x} : memories'[y] = memories[y]
      BY <1>2, <2>2, StoreLocals DEF Storing, Stored, IInv, TypeOK
    <3> HIDE DEF x
    <3>3. x \notin Admitted(memories)
      BY <3>2 DEF Admitted
    <3>4. i \in Occupants(memories, k, p) /\ j \in Occupants(memories, k, p)
      BY <3>1, <3>2, <3>3, NoOtherOccupant
    <3>5. memories'[i] = memories[i] /\ memories'[j] = memories[j]
      BY <3>1, <3>2, <3>4 DEF Occupants, Filed, Admitted, Stored
    <3>6. Judged(i, j)
      BY <1>2, <2>2, <3>4, <3>5 DEF SlotHoldsOneAnswer, Judged
    <3>7. receipts \subseteq receipts'
      BY <1>2, <2>2, StoredTables
    <3> QED
      BY <3>6, <3>7 DEF Judged
  <2>3. ASSUME NEW c \in Call, Deciding(c), NEW k \in Key, NEW p \in Part,
               NEW i \in Occupants(memories', k, p), NEW j \in Occupants(memories', k, p),
               memories'[i].content # memories'[j].content
        PROVE  Judged(i, j)'
    <3> DEFINE x == verdict[c].record
    <3>1. /\ memories[x].disposition = "contested"
          /\ \A y \in Rid \ {x} : memories'[y] = memories[y]
          /\ receipts' = receipts \cup {ResolveReceipt(c)}
          /\ ResolveReceipt(c).record = x
      BY <1>2, <2>3, DecidedTables, ResolveReceiptType DEF Deciding
    <3>2. CASE i = x \/ j = x
      <4>1. i # j
        BY <2>3
      <4>2. ResolveReceipt(c).resolution = "admit"
        BY <1>2, <2>3, <3>2, <4>1, DecidingKeepsOneAnswer
      <4> QED
        BY <3>1, <3>2, <4>2 DEF Judged
    <3>3. CASE i # x /\ j # x
      <4>1. x \notin Admitted(memories)
        BY <3>1 DEF Admitted
      <4> HIDE DEF x
      <4>2. i \in Occupants(memories, k, p) /\ j \in Occupants(memories, k, p)
        BY <3>1, <3>3, <4>1, NoOtherOccupant
      <4>3. memories'[i] = memories[i] /\ memories'[j] = memories[j]
        BY <3>1, <3>3, <4>2 DEF Occupants, Filed, Admitted, Stored
      <4>4. Judged(i, j)
        BY <1>2, <2>3, <4>2, <4>3 DEF SlotHoldsOneAnswer, Judged
      <4> QED
        BY <3>1, <4>4 DEF Judged
    <3> QED
      BY <3>2, <3>3
  <2>4. ASSUME NEW c \in Call, Storing(c) \/ Deciding(c)
        PROVE  SlotHoldsOneAnswer'
    BY <2>2, <2>3, <2>4 DEF SlotHoldsOneAnswer, Judged
  <2> QED
    BY <1>2, <2>1, <2>4, WritingSteps
<1>3. IInv /\ FreshReads /\ SlotHoldsOneAnswer /\ [Next]_vars => SlotHoldsOneAnswer'
  BY <1>2
<1> QED
  BY <1>1, <1>3, LedgerInvariant, ReadsStayFresh, PTL DEF Spec
=============================================================================
