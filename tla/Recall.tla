------------------------------- MODULE Recall -------------------------------
(***************************************************************************)
(* One recall over a store that is being written: RecallEngine.recall      *)
(* (aoms/recall.py) with the queries it makes of SQLiteMemoryRepository.   *)
(*                                                                         *)
(* The call awaits the repository and the embedding provider several       *)
(* times, and the candidate query is itself three SELECTs that each see    *)
(* the store as it is then.  So every step below may be separated from the *)
(* next by a write, a verdict of the contest ledger, or an embedding that  *)
(* is completed.  Writes are atomic here: that the gate and the store are  *)
(* two steps is the subject of ContestLedger, and what matters of it is    *)
(* which records can be held aside (CanBeHeldAside).                       *)
(*                                                                         *)
(* Memories are numbered in the order they are stored, which is also the   *)
(* order of their updated_at.  Text is abstracted to how strongly a record *)
(* matches the task of the recall, by BM25 and by cosine, and to its size. *)
(***************************************************************************)
EXTENDS Lineage

CONSTANTS
  Part,     \* scope partitions: user_global, one per workspace, one per agent
  ScopeOf,  \* the scope of a partition
  Overlap,  \* Overlap[p, q]: some context sees both partitions
  Kind,     \* memory kinds
  Key,      \* claim keys
  Content,  \* contents, told apart by digest
  Writes,   \* the records clients store, without a disposition
  Asks,     \* the recalls clients make, with the partitions they can see
  Limit,    \* candidate_limit
  FilteredCap, \* where the count of matches out of scope stops
  Embeds    \* an embedding provider is configured

Scope == {"user_global", "workspace", "agent_private"}

(* What a recalled block costs: its fixed fields, the line that names a    *)
(* predecessor, the contest notice, and the separator between two blocks.  *)
FieldTokens == 2
LineTokens  == 1

Write == [part : Part, kind : Kind, claim : Key \cup {None}, content : Content,
          supersedes : Id \cup {None}, strength : Nat, near : 0..80, size : Nat]

Record == [part : Part, kind : Kind, claim : Key \cup {None}, content : Content,
           supersedes : Id \cup {None}, strength : Nat, near : 0..80, size : Nat,
           disposition : {"admitted", "contested"}]

Ask == [sees : SUBSET Part, kinds : SUBSET Kind, scopes : SUBSET Scope,
        budget : Nat \ {0}]

ASSUME RecallAssumption ==
  /\ ScopeOf \in [Part -> Scope]
  /\ Overlap \in [Part \X Part -> BOOLEAN]
  /\ Writes \subseteq Write
  /\ Asks \subseteq Ask
  /\ Limit \in Nat \ {0}
  /\ FilteredCap \in Nat \ {0}
  /\ Embeds \in BOOLEAN
  /\ None \notin Key \cup Record

VARIABLES
  memories,  \* Id -> record, or None
  vectors,   \* the memories that have a vector row
  contests,  \* Id -> occurrence count of the open entry of a record, or 0
  call       \* the recall in progress

vars == <<memories, vectors, contests, call>>

Stored == {i \in Id : memories[i] # None}

Admitted == {i \in Stored : memories[i].disposition = "admitted"}

supersedes == [i \in Stored |-> memories[i].supersedes]

Steps == {"idle", "count", "embed", "text", "vector", "recent", "notices",
          "withheld", "pack", "done"}

Packed == [id : Id, cost : Nat, truncated : BOOLEAN]

Call == [step       : Steps,
         ask        : Asks \cup {None},
         vector     : BOOLEAN,          \* a query vector was obtained
         strongest  : Nat,              \* of the full-text rows
         hidden     : Nat,              \* matches outside the caller's scopes
         text       : SUBSET Id,        \* candidates by source
         semantic   : SUBSET Id,
         recent     : SUBSET Id,
         noticed    : SUBSET Id,        \* packable records whose slot is contested
         withheld   : SUBSET Id,
         packed     : Seq(Packed),
         rejected   : SUBSET Id]        \* for the token budget

NoCall == [step |-> "idle", ask |-> None, vector |-> FALSE, strongest |-> 0, hidden |-> 0,
           text |-> {}, semantic |-> {}, recent |-> {}, noticed |-> {},
           withheld |-> {}, packed |-> <<>>, rejected |-> {}]

TypeOK ==
  /\ memories \in [Id -> Record \cup {None}]
  /\ vectors \subseteq Stored
  /\ contests \in [Id -> Nat]
  /\ \A i \in Id : contests[i] > 0 => i \in Stored \ Admitted
  /\ call \in Call

Init ==
  /\ memories = [i \in Id |-> None]
  /\ vectors = {}
  /\ contests = [i \in Id |-> 0]
  /\ call = NoCall

-----------------------------------------------------------------------------
(* The store underneath.                                                   *)

Filed(k, p) == {i \in Admitted : memories[i].claim = k /\ memories[i].part = p}

(* Admission is never taken back, so a write that the gate held aside met  *)
(* a record that is still filed in the slot and says something else.       *)
CanBeHeldAside(w) ==
  w.claim # None /\ \E i \in Filed(w.claim, w.part) : memories[i].content # w.content

(* The open entries a write held aside may be counted under.               *)
OpenFor(w) ==
  {i \in Stored : /\ contests[i] > 0
                  /\ memories[i].claim = w.claim
                  /\ memories[i].part = w.part}

(* A write is stored under the next number, admitted or held aside; one    *)
(* held aside opens an entry or, by the same agent, is counted under the   *)
(* open one.                                                               *)
Store(w) ==
  LET i == Cardinality(Stored) + 1 IN
  /\ i \in Id
  /\ \E d \in {"admitted", "contested"} :
       /\ d = "contested" => CanBeHeldAside(w)
       /\ memories' = [memories EXCEPT ![i] =
            [part |-> w.part, kind |-> w.kind, claim |-> w.claim,
             content |-> w.content, supersedes |-> w.supersedes,
             strength |-> w.strength, near |-> w.near, size |-> w.size,
             disposition |-> d]]
       /\ IF d = "admitted" THEN UNCHANGED contests
          ELSE \E e \in OpenFor(w) \cup {i} :
                 contests' = [contests EXCEPT ![e] = @ + 1]
  /\ UNCHANGED <<vectors, call>>

(* A sweep stores the vector of a memory, whatever its disposition.        *)
Embed(i) ==
  /\ Embeds
  /\ i \in Stored \ vectors
  /\ vectors' = vectors \cup {i}
  /\ UNCHANGED <<memories, contests, call>>

(* A verdict closes an entry and admits its record, or leaves it aside.    *)
Resolve(i, admits) ==
  /\ contests[i] > 0
  /\ contests' = [contests EXCEPT ![i] = 0]
  /\ memories' = IF admits THEN [memories EXCEPT ![i].disposition = "admitted"]
                 ELSE memories
  /\ UNCHANGED <<vectors, call>>

-----------------------------------------------------------------------------
(* The queries of a recall.                                                *)

Asked(wanted, all) == IF wanted = {} THEN all ELSE wanted

(* _filters: what search, recall and counts may read.                      *)
Visible(ask) ==
  {i \in Admitted : /\ memories[i].part \in ask.sees
                    /\ memories[i].kind \in Asked(ask.kinds, Kind)
                    /\ ScopeOf[memories[i].part] \in Asked(ask.scopes, Scope)}

(* The first n of S.                                                       *)
Top(S, n, Before(_, _)) ==
  {i \in S : Cardinality({j \in S : Before(j, i)}) < n}

(* S in order: the n-th has n - 1 others before it.                        *)
Ranked(S, Before(_, _)) ==
  [n \in 1..Cardinality(S) |->
     CHOOSE i \in S : Cardinality({j \in S : Before(j, i)}) = n - 1]

Stronger(i, j) ==
  \/ memories[i].strength > memories[j].strength
  \/ memories[i].strength = memories[j].strength /\ i > j

Nearer(i, j) ==
  \/ memories[i].near > memories[j].near
  \/ memories[i].near = memories[j].near /\ i < j

Newer(i, j) == i > j

Matching(ask) == {i \in Visible(ask) : memories[i].strength > 0}

(* _scope_filtered_fts_count: the matches only the caller's scopes hide,   *)
(* counted up to a cap.                                                    *)
ScopeFiltered(ask) ==
  LET hidden == {i \in Admitted : /\ memories[i].strength > 0
                                  /\ memories[i].part \notin ask.sees
                                  /\ memories[i].kind \in Asked(ask.kinds, Kind)
                                  /\ ScopeOf[memories[i].part] \in Asked(ask.scopes, Scope)}
  IN Min({Cardinality(hidden), FilteredCap})

(* What a caller can see of the store.                                     *)
InScope(ask) == {i \in Stored : memories[i].part \in ask.sees}

(* search_by_keyword: one page of the ranked matches, how many there are,  *)
(* and how many only the caller's scopes hide.  A search wants every word  *)
(* of its query and a recall any: this is a search for one word, and one   *)
(* that does not ask for what is held aside.  Its three SELECTs are taken  *)
(* as one.                                                                 *)
Search(ask, offset, limit) ==
  LET ranked == Ranked(Matching(ask), Stronger)
      last == Min({offset + limit, Len(ranked)})
  IN [items |-> SubSeq(ranked, offset + 1, last), total |-> Len(ranked),
      hidden |-> ScopeFiltered(ask)]

(* The same search at a boundary in time: anchors and results pass the     *)
(* filters of the request, the links between them only the caller's scopes.*)
SearchAsOf(ask, at) ==
  AsOf(InScope(ask), Visible(ask), supersedes, Matching(ask), at)

(* The nearest vectors of one namespace; the caller's access is tested     *)
(* after the limit, and its disposition not at all.                        *)
Nearest(ask, k, sc) ==
  LET namespace == {i \in vectors : /\ memories[i].kind = k
                                    /\ ScopeOf[memories[i].part] = sc}
  IN {i \in Top(namespace, Limit, Nearer) : memories[i].part \in ask.sees}

VectorHits(ask) ==
  Top(UNION {Nearest(ask, k, sc) : k \in Asked(ask.kinds, Kind),
                                   sc \in Asked(ask.scopes, Scope)},
      Limit, Nearer)

(* The two newest of every kind asked for.                                 *)
RecentOfKinds(ask) ==
  UNION {Top({i \in Visible(ask) : memories[i].kind = k}, 2, Newer) :
           k \in Asked(ask.kinds, Kind)}

(* The records a claim of i's slot is open against.                        *)
Noticed(i) ==
  /\ memories[i].claim # None
  /\ \E e \in Stored : /\ contests[e] > 0
                       /\ memories[e].claim = memories[i].claim
                       /\ memories[e].part = memories[i].part

(* contested_candidate_ids: what text would have found but for the gate,   *)
(* all of it where the code lists the newest 50.                           *)
HeldAside(ask) ==
  {i \in Stored \ Admitted :
     /\ memories[i].strength > 0
     /\ memories[i].part \in ask.sees
     /\ memories[i].kind \in Asked(ask.kinds, Kind)
     /\ ScopeOf[memories[i].part] \in Asked(ask.scopes, Scope)}

-----------------------------------------------------------------------------
(* Ranking.  Scores are in eightieths, the weights in hundredths, and one  *)
(* memory is one half-life younger than the one before it.                 *)

Candidates == call.text \cup call.semantic \cup call.recent

links == [i \in Candidates |-> memories[i].supersedes]

Specificity == [user_global |-> 32, workspace |-> 56, agent_private |-> 80]

TextScore(i) ==
  IF i \in call.text THEN (80 * memories[i].strength) \div call.strongest ELSE 0

(* A full score halved n times.                                            *)
Halved[n \in Nat] == IF n = 0 THEN 80 ELSE Halved[n - 1] \div 2

RecencyScore(i) == Halved[Cardinality(Stored) - i]

(* The weight of a scorer that has nothing to say of a candidate is shared *)
(* among the others.                                                       *)
Weight(i) == IF i \in call.semantic THEN 100 ELSE 65

Score(i) ==
    40 * TextScore(i)
  + (IF i \in call.semantic THEN 35 * memories[i].near ELSE 0)
  + 15 * RecencyScore(i)
  + 10 * Specificity[ScopeOf[memories[i].part]]

RanksBefore(i, j) ==
  LET a == Score(i) * Weight(j)
      b == Score(j) * Weight(i)
  IN \/ a > b
     \/ a = b /\ TextScore(i) > TextScore(j)
     \/ a = b /\ TextScore(i) = TextScore(j) /\ i > j

-----------------------------------------------------------------------------
(* Packing.                                                                *)

Line(shown) == IF shown THEN LineTokens ELSE 0

EmptyBlock(i) ==
    FieldTokens
  + Line(Predecessor(Candidates, links, i) # None)
  + Line(i \in call.noticed)

Block(i) == EmptyBlock(i) + memories[i].size

NothingPacked == [packed |-> <<>>, tokens |-> 0, rejected |-> {}]

With(acc, i, cost, truncated) ==
  [acc EXCEPT !.packed = Append(@, [id |-> i, cost |-> cost,
                                    truncated |-> truncated]),
              !.tokens = @ + cost]

(* Seeded fault: whatever does not fit is truncated, not only the first.   *)
PackNextTruncating(acc, i, budget) ==
  LET cost == Block(i) + Line(acc.packed # <<>>) IN
  IF acc.tokens + cost <= budget THEN With(acc, i, cost, FALSE)
  ELSE IF EmptyBlock(i) <= budget
       THEN With(acc, i, budget, TRUE)
  ELSE [acc EXCEPT !.rejected = @ \cup {i}]

(* A block is packed when the context stays within the budget with it; the *)
(* best ranked is cut down to the budget when nothing is packed yet and    *)
(* its fixed fields fit; what fits neither way is skipped.                 *)
PackNext(acc, i, budget) ==
  LET cost == Block(i) + Line(acc.packed # <<>>) IN
  IF acc.tokens + cost <= budget THEN With(acc, i, cost, FALSE)
  ELSE IF acc.packed = <<>> /\ EmptyBlock(i) <= budget
       THEN With(acc, i, budget, TRUE)
  ELSE [acc EXCEPT !.rejected = @ \cup {i}]

PackAll ==
  FoldLeft(LAMBDA acc, i : PackNext(acc, i, call.ask.budget), NothingPacked,
           Ranked(Packable(Candidates, links), RanksBefore))

-----------------------------------------------------------------------------
(* The steps of a recall.                                                  *)

(* Counting what is visible; the provider is not asked for an empty store. *)
Begin(ask) ==
  /\ call.step = "idle"
  /\ call' = [NoCall EXCEPT
       !.ask = ask,
       !.step = IF Visible(ask) # {} /\ Embeds THEN "embed" ELSE "text"]
  /\ UNCHANGED <<memories, vectors, contests>>

(* The provider answers, or it fails and the recall goes on without.       *)
EmbedQuery(answers) ==
  /\ call.step = "embed"
  /\ call' = [call EXCEPT !.step = "text", !.vector = answers]
  /\ UNCHANGED <<memories, vectors, contests>>

RetrieveText ==
  /\ call.step = "text"
  /\ LET hits == Top(Matching(call.ask), Limit, Stronger) IN
     call' = [call EXCEPT
       !.step = IF call.vector THEN "vector" ELSE "recent",
       !.text = hits,
       !.strongest = IF hits = {} THEN 0
                     ELSE Max({memories[i].strength : i \in hits}),
       !.hidden = ScopeFiltered(call.ask)]
  /\ UNCHANGED <<memories, vectors, contests>>

RetrieveVector ==
  /\ call.step = "vector"
  /\ call' = [call EXCEPT !.step = "recent", !.semantic = VectorHits(call.ask)]
  /\ UNCHANGED <<memories, vectors, contests>>

RetrieveRecent ==
  /\ call.step = "recent"
  /\ call' = [call EXCEPT !.step = "notices", !.recent = RecentOfKinds(call.ask)]
  /\ UNCHANGED <<memories, vectors, contests>>

ReadNotices ==
  /\ call.step = "notices"
  /\ call' = [call EXCEPT
       !.step = "withheld",
       !.noticed = {i \in Packable(Candidates, links) : Noticed(i)}]
  /\ UNCHANGED <<memories, vectors, contests>>

ReadWithheld ==
  /\ call.step = "withheld"
  /\ call' = [call EXCEPT !.step = "pack", !.withheld = HeldAside(call.ask)]
  /\ UNCHANGED <<memories, vectors, contests>>

(* Ranking, chain resolution and packing read nothing of the store any     *)
(* more; the receipt is saved and the caller gets its context.             *)
Pack ==
  /\ call.step = "pack"
  /\ LET p == PackAll IN
     call' = [call EXCEPT !.step = "done", !.packed = p.packed,
                          !.rejected = p.rejected]
  /\ UNCHANGED <<memories, vectors, contests>>

Return ==
  /\ call.step = "done"
  /\ call' = NoCall
  /\ UNCHANGED <<memories, vectors, contests>>

RecallStep ==
  \/ \E ask \in Asks : Begin(ask)
  \/ \E answers \in BOOLEAN : EmbedQuery(answers)
  \/ RetrieveText
  \/ RetrieveVector
  \/ RetrieveRecent
  \/ ReadNotices
  \/ ReadWithheld
  \/ Pack
  \/ Return

Next ==
  \/ \E w \in Writes : Store(w)
  \/ \E i \in Id : Embed(i)
  \/ \E i \in Id, admits \in BOOLEAN : Resolve(i, admits)
  \/ RecallStep

Spec == Init /\ [][Next]_vars

-----------------------------------------------------------------------------
(* What a recall promises.                                                 *)

PackedIds == {p.id : p \in ToSet(call.packed)}

Tokens == FoldLeft(LAMBDA n, p : n + p.cost, 0, call.packed)

(* Suppression never silences a chain: each suppressed candidate has a     *)
(* packable one above it, and no packable candidate is above another,      *)
(* unless the links that connect them form a cycle.                        *)
ChainsSpeakByTheirHeads ==
  LET pack == Packable(Candidates, links) IN
  call.step # "idle" =>
    /\ \A j \in Candidates \ pack : \E i \in pack : Overrides(Candidates, links, i, j)
    /\ \A i, j \in pack :
         Overrides(Candidates, links, i, j) =>
           \E c \in Component(Candidates, links, i) :
             Overrides(Candidates, links, c, c)

(* What became of the candidates, as the receipt is told; of one in none   *)
(* of these sets it says "not_selected".  The receipt keeps the scores of  *)
(* the first receipt_top_n and of rejected_sample_size rejected ones only. *)
CandidateReceipt ==
  [selected     |-> PackedIds,
   superseded   |-> Suppressed(Candidates, links),
   token_budget |-> call.rejected]

(* The receipt accounts for the whole recall: each candidate is selected,  *)
(* superseded or over the budget, and only one of them; the context stays  *)
(* within the budget; a truncated memory is the only one; without a query  *)
(* vector no memory is both given out and listed as withheld; and what is  *)
(* given out is in the caller's scopes and, if it is held aside, came in   *)
(* by its vector, whatever verdicts and writes land between the queries.   *)
ReceiptExplainsTheRecall ==
  call.step = "done" => LET became == CandidateReceipt IN
    /\ PackedIds \cup call.rejected \subseteq Candidates
    /\ \A i \in Candidates :
         Cardinality({r \in DOMAIN became : i \in became[r]}) = 1
    /\ Cardinality(PackedIds) = Len(call.packed)
    /\ Tokens <= call.ask.budget
    /\ \A p \in ToSet(call.packed) : p.truncated => Len(call.packed) = 1
    /\ ~ call.vector => PackedIds \cap call.withheld = {}
    /\ \A i \in PackedIds : /\ memories[i].part \in call.ask.sees
                            /\ i \notin Admitted => i \notin call.text \cup call.recent

(* The diagnosis that doctor prints and the resolution that recall makes   *)
(* agree: of a lineage without a finding exactly one version is packable.  *)
HealthyLineageSpeaksOnce ==
  call.step = "idle" => \A ask \in Asks :
    LET R == InScope(ask) \cap Admitted
        s == [i \in R |-> memories[i].supersedes]
        findings == Diagnosis(R, s, [i \in R |-> memories[i].part], R, Overlap)
    IN \A C \in Components(R, s) :
         Cardinality(C \cap Packable(R, s)) = 1
           \/ \E f \in findings : f[1] \in {"cycle", "heads"} /\ f[2] \subseteq C

(* README: `chain --as-of` and `search --as-of` both reconstruct declared  *)
(* lineage.  For a caller none of whose records is held aside and whose    *)
(* links all name older records they agree on the version of every chain   *)
(* at every boundary, and a search as of now gives the current versions of *)
(* the chains that the pages of a plain search touch.                      *)
AsOfAgreesWithTimeline ==
  call.step = "idle" => \A ask \in Asks :
    LET V == InScope(ask)
        now == Cardinality(Stored)
        versions(i, at) == TimelineAt(V, Admitted, supersedes, i, at)
        found == UNION {ToSet(Search(ask, n, 1).items) : n \in 0..Search(ask, 0, 1).total}
    IN V \subseteq Admitted /\ (\A i \in V : supersedes[i] \in 0..(i - 1) \cup {None})
       => /\ \A i \in V : \A at \in i..now :
               AsOf(V, Admitted, supersedes, {i}, at) = versions(i, at)
          /\ SearchAsOf(ask, now) = (UNION {versions(i, now) : i \in found}) \cap Visible(ask)

(* "A contested record never appears in a recall pack"                     *)
(* (WRITE-CORRECTNESS-DECISION.md).                                        *)
ContestedNeverPacks == PackedIds \subseteq Admitted
=============================================================================
