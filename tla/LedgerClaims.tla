---------------------------- MODULE LedgerClaims -----------------------------
(***************************************************************************)
(* The two abstract specifications that the contest ledger implements, and *)
(* what its documentation, messages and tests say of it.  The life of a    *)
(* write holds however the calls interleave; the atomic gate and the rest  *)
(* hold when the calls come one at a time, and README.md says which parts  *)
(* of it interleaved calls can break.                                      *)
(***************************************************************************)
EXTENDS ContestLedger

(* A record's own entry of the ledger: none, open, or closed.              *)
Cases ==
  [i \in Rid |-> IF \A e \in Entries : contests[e].record # i THEN "none"
                 ELSE IF \E e \in Open : contests[e].record = i THEN "open"
                 ELSE "closed"]

Life == INSTANCE LedgerLife WITH memories <- memories, cases <- Cases

(* Whatever interleaves, every change of the memories table is a write     *)
(* that is admitted or held aside on what its slot holds, under a case of  *)
(* its author, or the one verdict that closes a record's own case.         *)
WritesLiveByTheLedger == Life!LifeSpec

-----------------------------------------------------------------------------
Gate == INSTANCE AtomicGate WITH memories <- memories

(* Every write is judged against the slot as it stands when the write is   *)
(* stored, as if the gate and the store were one step.                     *)
GateIsAtomic == Gate!GateSpec

(* "Held aside for review, instead of silently becoming a second current   *)
(* answer" (README): two occupants of a slot say the same, unless an       *)
(* operator admitted one of them.                                          *)
SlotHoldsOneAnswer ==
  \A k \in Key, p \in Part : \A i, j \in Occupants(memories, k, p) :
    memories[i].content # memories[j].content =>
      \E r \in receipts : r.record \in {i, j} /\ r.resolution = "admit"

(* "The inbox grows with distinct (claim slot x writing agent) pairs"      *)
(* (CONTEST-LEDGER.md): at most one open entry for each.                   *)
OneOpenEntryPerSlotAndAgent ==
  \A e, f \in Open :
    /\ contests[e].claim = contests[f].claim
    /\ contests[e].part = contests[f].part
    /\ contests[e].author = contests[f].author
    => e = f

-----------------------------------------------------------------------------
(* Why they hold with one call in flight: what it read of a slot and of    *)
(* the open entries is what it would read when it writes.                  *)
Alone == \A c, d \in InFlight : c = d

MyOpenEntries(c) == OpenFor(req[c].claim, req[c].part, req[c].agent)

ReadsAreFresh(c) ==
  /\ dec[c] # None => dec[c] = Decide(req[c], SlotNow(c), Triggers)
  /\ pc[c] = "store" /\ dec[c].disposition = "contested" =>
       IF into[c] = None THEN MyOpenEntries(c) = {} ELSE into[c] \in MyOpenEntries(c)
  /\ pc[c] = "resolve" /\ verdict[c].resolution = "split" =>
       Occupants(memories, verdict[c].newKey, verdict[c].part) = {}

(* A verdict is on a record of the slot's partition; only a split looks    *)
(* for a free key, and only a split that found one goes on.                *)
VerdictStands(c) ==
  verdict[c] # None =>
    /\ verdict[c].part = memories[verdict[c].record].part
    /\ verdict[c].resolution = "split" => /\ pc[c] \in {"free", "resolve"}
                                          /\ verdict[c].newKey # None

FreshReads == Alone /\ \A c \in Call : ReadsAreFresh(c) /\ VerdictStands(c)
=============================================================================
