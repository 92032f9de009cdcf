----------------------------- MODULE ClaimSlots -----------------------------
(***************************************************************************)
(* The vocabulary of the contest ledger: stored memories, the claim slots  *)
(* they hold, and the gate that routes a write to its slot or to the       *)
(* ledger (aoms/contest.py, aoms/contracts/models.py and the slot query of *)
(* aoms/repositories/sqlite.py).  Constant-level only: the state machines  *)
(* that use these operators are ContestLedger and AtomicGate.              *)
(*                                                                         *)
(* Data is abstracted to what the gate compares: content by its digest,    *)
(* a caller's timestamp by an integer, derived_from by whether it is       *)
(* empty.  A scope together with its bound agent or workspace is one       *)
(* member of Part, so <<claim key, part>> is a slot.                       *)
(***************************************************************************)
EXTENDS Integers

CONSTANTS
  Id,        \* record ids chosen by callers (a retry names the same id again)
  Call,      \* application calls; a call stands for every uuid4 it mints
  Agent,     \* agent ids of the scope contexts that make calls
  Content,   \* contents, told apart by digest
  Key,       \* claim keys
  Part,      \* scope partitions: user_global, one per workspace, one per agent
  Access,    \* Access[a]: the partitions agent a's scope context can see
  Time,      \* caller-declared asserted_at timestamps
  Triggers,  \* the triggers the ruleset has in force
  None       \* Python's None / SQL's NULL

AllTriggers == {"derived-from-memory", "retrograde-displacement", "slot-collision"}

Disposition == {"admitted", "contested"}

Rid == Id \cup Call

Record == [content     : Content,
           claim       : Key \cup {None},
           part        : Part,
           supersedes  : Rid \cup {None},
           author      : Agent,
           asserted    : Time \cup {None},
           via         : Call \cup {None},  \* the contest its provenance cites
           disposition : Disposition]

Decision == [disposition : Disposition,
             trigger     : AllTriggers \cup {None},
             incumbents  : SUBSET Rid]

ASSUME SlotsAssumption ==
  /\ Access \in [Agent -> SUBSET Part]
  /\ Time \subseteq Int
  /\ Triggers \subseteq AllTriggers
  /\ Id \cap Call = {}
  /\ None \notin Rid \cup Agent \cup Content \cup Key \cup Part \cup Time
  /\ None \notin AllTriggers
  /\ None \notin Record

-----------------------------------------------------------------------------
(* Slots.  m maps every record id to its record, or to None when absent.   *)

Stored(m) == {i \in Rid : m[i] # None}

Admitted(m) == {i \in Stored(m) : m[i].disposition = "admitted"}

(* Seeded fault: the slot query forgets `contested = 0`.                   *)
FiledWithContested(m, k, p) ==
  {i \in Stored(m) : m[i].claim = k /\ m[i].part = p}

(* Seeded fault: the slot query forgets the scope columns.                 *)
FiledAnyPart(m, k, p) == {i \in Admitted(m) : m[i].claim = k}

(* The admitted records of one slot.                                       *)
Filed(m, k, p) == {i \in Admitted(m) : m[i].claim = k /\ m[i].part = p}

(* Seeded fault: the NOT IN subquery forgets `contested = 0`.              *)
OccupantsAnySuccessor(m, k, p) ==
  {i \in Filed(m, k, p) :
     ~ \E j \in Stored(m) : /\ m[j].claim = k
                            /\ m[j].part = p
                            /\ m[j].supersedes = i}

(* Who holds the slot now: filed there and not named by `supersedes` of a  *)
(* record filed there.  A link to oneself counts, as it does in the query. *)
Occupants(m, k, p) ==
  {i \in Filed(m, k, p) : ~ \E j \in Filed(m, k, p) : m[j].supersedes = i}

(* What the gate is shown of each occupant.                                *)
SlotOccupants(m, ids) ==
  {[id |-> i, content |-> m[i].content, asserted |-> m[i].asserted] : i \in ids}

-----------------------------------------------------------------------------
(* The gate.                                                               *)

Admit(ids) ==
  [disposition |-> "admitted", trigger |-> None, incumbents |-> ids]

Contest(ids, t) ==
  [disposition |-> "contested", trigger |-> t, incumbents |-> ids]

Differs(w, slot) == \E o \in slot : o.content # w.content

Retrograde(w, slot) ==
  /\ w.asserted # None
  /\ \E o \in slot : o.asserted # None /\ w.asserted < o.asserted

(* Seeded fault: naming one of several occupants is taken for naming all.  *)
UndeclaredAll(w, slot) ==
  slot # {} /\ \A o \in slot : o.id # w.supersedes

Undeclared(w, slot) == \E o \in slot : o.id # w.supersedes

(* decide(): corroboration first, then the triggers in their fixed order.  *)
(* An empty slot differs from nothing, so it is admitted by the same test. *)
Decide(w, slot, enabled) ==
  LET ids == {o.id : o \in slot} IN
  IF w.claim = None THEN Admit({})
  ELSE IF ~ Differs(w, slot) THEN Admit(ids)
  ELSE IF "derived-from-memory" \in enabled /\ w.derived
       THEN Contest(ids, "derived-from-memory")
  ELSE IF "retrograde-displacement" \in enabled /\ Retrograde(w, slot)
       THEN Contest(ids, "retrograde-displacement")
  ELSE IF "slot-collision" \in enabled /\ Undeclared(w, slot)
       THEN Contest(ids, "slot-collision")
  ELSE Admit(ids)

Contested(w, slot, enabled) == Decide(w, slot, enabled).disposition = "contested"
=============================================================================
