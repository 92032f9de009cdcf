----------------------------- MODULE AtomicGate ------------------------------
(***************************************************************************)
(* What the contest gate promises a caller who does not know that the gate *)
(* reads the slot in one transaction and stores in another: every write is *)
(* judged against the slot as it stands when the write lands, and the only *)
(* other thing that happens to a record is a verdict on a contested one.   *)
(***************************************************************************)
EXTENDS ClaimSlots

VARIABLE memories

GateInit == memories = [i \in Rid |-> None]

(* One write, decided and stored at once: r is the record it leaves.       *)
Write(i) ==
  LET r == memories'[i] IN
  /\ memories[i] = None
  /\ r \in Record
  /\ r.part \in Access[r.author]
  /\ memories' = [memories EXCEPT ![i] = r]
  /\ \E cites \in BOOLEAN :
       LET w == [content |-> r.content, claim |-> r.claim,
                 supersedes |-> r.supersedes, asserted |-> r.asserted,
                 derived |-> cites]
           slot == SlotOccupants(memories, Occupants(memories, r.claim, r.part))
       IN r.disposition = Decide(w, slot, Triggers).disposition

(* One verdict: the record may be admitted or left aside, in its own slot  *)
(* or re-filed under another key.                                          *)
Decided(i) ==
  LET r == memories'[i] IN
  /\ memories[i] # None
  /\ memories[i].disposition = "contested"
  /\ r \in Record
  /\ memories' = [memories EXCEPT ![i] = [@ EXCEPT !.disposition = r.disposition,
                                                   !.claim = r.claim]]

GateNext == \E i \in Rid : Write(i) \/ Decided(i)

GateSpec == GateInit /\ [][GateNext]_memories
=============================================================================
