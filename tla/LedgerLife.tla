----------------------------- MODULE LedgerLife ------------------------------
(***************************************************************************)
(* What the contest ledger promises however its calls interleave.  A write *)
(* is judged against records that are filed in its slot when it lands,     *)
(* though others may have joined them since the gate looked; one that is   *)
(* held aside opens a case of its own or joins one its author already has  *)
(* in that partition; and the only other thing that happens to a record is *)
(* the verdict that closes its own case, once and for all.                 *)
(***************************************************************************)
EXTENDS ClaimSlots

VARIABLES memories, cases

LifeInit ==
  /\ memories = [i \in Rid |-> None]
  /\ cases = [i \in Rid |-> "none"]

(* The gate's answer on r, of which some of its slot's records were shown. *)
JudgedOn(r, shown) ==
  \E cites \in BOOLEAN :
    LET w == [content |-> r.content, claim |-> r.claim,
              supersedes |-> r.supersedes, asserted |-> r.asserted,
              derived |-> cites]
    IN r.disposition = Decide(w, SlotOccupants(memories, shown), Triggers).disposition

OpensItsCase(i) == cases' = [cases EXCEPT ![i] = "open"]

(* The case joined may have been closed since the call looked for it.      *)
JoinsACase(r) ==
  /\ \E j \in Rid : /\ cases[j] # "none"
                    /\ memories[j].author = r.author
                    /\ memories[j].part = r.part
  /\ UNCHANGED cases

(* One write: r is the record it leaves.                                   *)
Write(i) ==
  LET r == memories'[i] IN
  /\ memories[i] = None
  /\ r \in Record
  /\ r.part \in Access[r.author]
  /\ memories' = [memories EXCEPT ![i] = r]
  /\ \E shown \in SUBSET Filed(memories, r.claim, r.part) : JudgedOn(r, shown)
  /\ \/ r.disposition = "admitted" /\ UNCHANGED cases
     \/ r.disposition = "contested" /\ (OpensItsCase(i) \/ JoinsACase(r))

(* One verdict: admitted or left aside, in its own slot or under a new key.*)
Judgement(i) ==
  LET r == memories'[i] IN
  /\ cases[i] = "open"
  /\ memories[i].disposition = "contested"
  /\ r \in Record
  /\ memories' = [memories EXCEPT ![i] = [@ EXCEPT !.disposition = r.disposition,
                                                   !.claim = r.claim]]
  /\ cases' = [cases EXCEPT ![i] = "closed"]

LifeNext == \E i \in Rid : Write(i) \/ Judgement(i)

LifeSpec == LifeInit /\ [][LifeNext]_<<memories, cases>>
=============================================================================
