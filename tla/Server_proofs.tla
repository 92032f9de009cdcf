---------------------------- MODULE Server_proofs ----------------------------
(***************************************************************************)
(* Theorems about Server, for any servers, tokens, grants, clients, bounds *)
(* and rates.  Three invariants are proved one after the other: what the   *)
(* variables hold, what a call in progress knows (CallInv), and what the   *)
(* units of a bucket say of the calls it let pass (RateInv).               *)
(***************************************************************************)
EXTENDS Server, TLAPS

-----------------------------------------------------------------------------
(* An application that is kept under a key is the one of that identity.    *)
AppsAsKeyed ==
  \A p \in Process, g \in Grants :
    Key(Identity(g)) \in DOMAIN apps[p] => apps[p][Key(Identity(g))] = Identity(g)

(* A server that other hosts can reach asks for tokens.                    *)
RemoteAsks ==
  \A p \in Process : server[p] # None /\ server[p].remote => server[p].bearer

(* The server of a call runs, and asked for a token if the call has one.   *)
CallOnServer(k) ==
  /\ server[k.server] # None
  /\ server[k.server].bearer <=> k.token # None

(* The row a call has read may be stale, but its grant is still the one of *)
(* the token: a row is created once and only its flags change.             *)
RowIsOfToken(k) ==
  /\ k.step \in {"arrived", "read"} => k.token # None
  /\ k.token # None /\ k.step # "arrived" =>
       /\ k.row # None
       /\ tokens[k.token] # None
       /\ k.row.grant = tokens[k.token].grant

RowsAreOfTokens == \A c \in Client : call[c] # None => RowIsOfToken(call[c])

(* A token that could not be used when a call arrived cannot be used ever  *)
(* after, and the row that the call has read or will read says so.         *)
LateIsRefused(k) ==
  k.late =>
    /\ k.token # None
    /\ tokens[k.token] # None /\ ~Usable(tokens[k.token])
    /\ k.step = "read" => ~Usable(k.row)
    /\ k.step \notin {"verified", "running"}

(* A call that runs does so as what the row it has read is bound to.       *)
RunsAsBound(k) ==
  k.step = "running" =>
    IF k.token = None THEN k.app = Own
    ELSE k.app = Identity(k.row.grant) /\ Requires[k.tool] \in k.row.grant.scopes

CallOk(k) == CallOnServer(k) /\ LateIsRefused(k) /\ RunsAsBound(k)

CallInv ==
  /\ AppsAsKeyed
  /\ RemoteAsks
  /\ \A c \in Client : call[c] # None => CallOk(call[c])

(* A bucket that let calls pass has been counted since, and from each of   *)
(* them on, the calls let pass and the units left are paid by the burst and*)
(* what was refilled since.                                                *)
BucketPays(b, at) ==
  /\ at # <<>> => b # None
  /\ b # None =>
       /\ b.at <= now
       /\ \A i \in DOMAIN at :
            /\ at[i] <= b.at
            /\ (Len(at) - i + 1) * Whole + b.units <= Capacity * Whole + (b.at - at[i]) * Rate

Bounded(at) ==
  \A i, j \in DOMAIN at :
    i <= j => (j - i + 1) * Whole <= Capacity * Whole + (at[j] - at[i]) * Rate

RateInv ==
  \A p \in Process, t \in Token :
    BucketPays(buckets[p][t], spent[p][t]) /\ Bounded(spent[p][t])

-----------------------------------------------------------------------------
(* What a bucket holds by now is what a bucket may hold, is paid by what it*)
(* held and the refill since, and is never more than the burst.            *)
LEMMA RefillFits ==
  ASSUME NEW b \in Bucket \cup {None}, now \in Nat, b # None => b.at <= now
  PROVE  /\ Refilled(b) \in 0..Capacity * Whole
         /\ b # None => Refilled(b) <= b.units + (now - b.at) * Rate
<1> DEFINE burst == Capacity * Whole
<1>1. burst \in Nat
  BY ServerConstants
<1>2. CASE b = None
  <2>1. Refilled(b) = burst
    BY <1>2 DEF Refilled
  <2> QED
    BY <1>1, <1>2, <2>1
<1>3. CASE b # None
  <2> DEFINE more == (now - b.at) * Rate
  <2>1. b \in Bucket /\ b.units \in 0..burst /\ b.at \in Nat /\ now - b.at \in Nat
    BY <1>1, <1>3 DEF Bucket
  <2>2. more \in Nat
    BY <2>1, ServerConstants
  <2>3. Refilled(b) = Least(burst, b.units + more)
    BY <1>3 DEF Refilled
  <2> HIDE DEF burst, more
  <2>4. /\ Refilled(b) \in 0..burst
        /\ Refilled(b) <= b.units + more
    BY <1>1, <2>1, <2>2, <2>3 DEF Least
  <2> QED
    BY <2>4 DEF burst, more
<1> QED
  BY <1>2, <1>3

(* A table of tables with one value replaced by another of its range.      *)
LEMMA Replaced ==
  ASSUME NEW P, NEW T, NEW V, NEW f \in [P -> [T -> V]], NEW p \in P, NEW t \in T, NEW v \in V
  PROVE  /\ [f EXCEPT ![p][t] = v] \in [P -> [T -> V]]
         /\ [f EXCEPT ![p][t] = v][p][t] = v
         /\ \A q \in P, u \in T : <<q, u>> # <<p, t>> => [f EXCEPT ![p][t] = v][q][u] = f[q][u]
OBVIOUS

(* What changes when the call of one client moves.                         *)
LEMMA MovedCall ==
  ASSUME call \in [Client -> Call \cup {None}], NEW c \in Client, NEW k \in Call \cup {None},
         call' = [call EXCEPT ![c] = k]
  PROVE  /\ call' \in [Client -> Call \cup {None}]
         /\ call'[c] = k
         /\ \A d \in Client \ {c} : call'[d] = call[d]
OBVIOUS

(* A bucket was never counted in the future, so that it only fills.        *)
CountedBefore ==
  \A p \in Process, t \in Token : buckets[p][t] # None => buckets[p][t].at <= now

TypeInv == TypeOK /\ CountedBefore /\ RowsAreOfTokens

LEMMA TypeInit == Init => TypeInv
<1> SUFFICES ASSUME Init PROVE TypeInv
  OBVIOUS
<1> USE DEF Init
<1>1. <<>> \in [{} -> Identities]
  BY SMT
<1>2. apps \in [Process -> UNION {[K -> Identities] : K \in SUBSET {Key(id) : id \in Identities}}]
  BY <1>1
<1>3. now \in 0..MaxTime /\ calls \in 0..MaxCalls /\ starts \in 0..MaxStarts
  BY ServerConstants
<1>4. spent \in [Process -> [Token -> Seq(Nat)]]
  OBVIOUS
<1>5. TypeOK
  BY <1>2, <1>3, <1>4 DEF TypeOK
<1>6. CountedBefore /\ RowsAreOfTokens
  BY DEF CountedBefore, RowsAreOfTokens
<1> QED
  BY <1>5, <1>6 DEF TypeInv

LEMMA TypeNext == TypeInv /\ [Next]_vars => TypeInv'
<1> SUFFICES ASSUME TypeInv, [Next]_vars
             PROVE  TypeInv'
  OBVIOUS
<1>a. /\ TypeOK /\ CountedBefore /\ RowsAreOfTokens
      /\ now \in Nat
  BY ServerConstants DEF TypeInv, TypeOK
<1>1. CASE UNCHANGED vars
  BY <1>a, <1>1 DEF vars, TypeOK, CountedBefore, RowsAreOfTokens, RowIsOfToken, TypeInv
<1>2. ASSUME NEW t \in Token, Revoke(t)
      PROVE  TypeInv'
  <2>1. tokens[t] \in Row
    BY <1>a, <1>2 DEF TypeOK, Revoke
  <2>2. /\ [tokens[t] EXCEPT !.revoked = TRUE] \in Row
        /\ [tokens[t] EXCEPT !.revoked = TRUE].grant = tokens[t].grant
    BY <2>1 DEF Row
  <2>3. TypeOK' /\ CountedBefore'
    BY <1>a, <1>2, <2>2 DEF TypeOK, CountedBefore, Revoke
  <2>4. RowsAreOfTokens'
    BY <1>a, <1>2, <2>2, NoneIsNoRecord DEF TypeOK, RowsAreOfTokens, RowIsOfToken, Revoke, Call
  <2> QED
    BY <2>3, <2>4 DEF TypeInv
<1>3. ASSUME NEW t \in Token, NEW grant \in Grants, Create(t, grant)
      PROVE  TypeInv'
  <2>1. [grant |-> grant, revoked |-> FALSE, used |-> FALSE] \in Row
    BY DEF Row
  <2>2. TypeOK' /\ CountedBefore'
    BY <1>a, <1>3, <2>1 DEF TypeOK, CountedBefore, Create
  <2>3. RowsAreOfTokens'
    BY <1>a, <1>3, <2>1, NoneIsNoRecord DEF TypeOK, RowsAreOfTokens, RowIsOfToken, Create, Call
  <2> QED
    BY <2>2, <2>3 DEF TypeInv
<1>4. ASSUME NEW p \in Process, Stop(p)
      PROVE  TypeInv'
  <2>1. <<>> \in [{} -> Identities]
    BY SMT
  <2>2. apps' \in [Process -> UNION {[K -> Identities] : K \in SUBSET {Key(id) : id \in Identities}}]
    BY <1>a, <1>4, <2>1 DEF TypeOK, Stop
  <2>3. CountedBefore'
    BY <1>a, <1>4 DEF TypeOK, CountedBefore, Stop
  <2>4. /\ server' \in [Process -> [remote : BOOLEAN, bearer : BOOLEAN] \cup {None}]
        /\ buckets' \in [Process -> [Token -> Bucket \cup {None}]]
        /\ spent' \in [Process -> [Token -> Seq(Nat)]]
    BY <1>a, <1>4 DEF TypeOK, Stop
  <2>5. call' \in [Client -> Call \cup {None}]
    BY <1>a, <1>4 DEF TypeOK, Stop
  <2>6. RowsAreOfTokens'
    BY <1>a, <1>4 DEF TypeOK, RowsAreOfTokens, RowIsOfToken, Stop
  <2> QED
    BY <1>a, <1>4, <2>2, <2>3, <2>4, <2>5, <2>6 DEF TypeOK, TypeInv, Stop
<1>5. ASSUME NEW p \in Process, NEW http \in BOOLEAN, NEW remote \in BOOLEAN,
             NEW tls \in BOOLEAN, Start(p, http, remote, tls)
      PROVE  TypeInv'
  <2>1. Started(http, remote) \in [remote : BOOLEAN, bearer : BOOLEAN]
    BY DEF Started
  <2>2. starts' \in 0..MaxStarts
    BY <1>a, <1>5, ServerConstants DEF TypeOK, Start
  <2> QED
    BY <1>a, <1>5, <2>1, <2>2
       DEF TypeOK, CountedBefore, RowsAreOfTokens, RowIsOfToken, TypeInv, Start
<1>6. CASE Tick
  <2>1. now' \in 0..MaxTime
    BY <1>a, <1>6, ServerConstants DEF TypeOK, Tick
  <2>2. CountedBefore'
    BY <1>a, <1>6 DEF TypeOK, CountedBefore, Tick, Bucket
  <2> QED
    BY <1>a, <1>6, <2>1, <2>2 DEF TypeOK, RowsAreOfTokens, RowIsOfToken, TypeInv, Tick
<1>7. ASSUME NEW c \in Client, Serve(c)
      PROVE  TypeInv'
  <2>1. ASSUME NEW p \in Process, NEW t \in Token \cup {None}, NEW tool \in Tool,
               Arrive(c, p, t, tool)
        PROVE  TypeInv'
    <3>1. call'[c] \in Call /\ calls' \in 0..MaxCalls
      BY <1>a, <2>1, ServerConstants DEF TypeOK, Arrive, Call, Steps
    <3>2. call' \in [Client -> Call \cup {None}]
      BY <1>a, <2>1, <3>1 DEF TypeOK, Arrive
    <3>3. RowsAreOfTokens'
      BY <1>a, <2>1 DEF TypeOK, RowsAreOfTokens, RowIsOfToken, Arrive
    <3> QED
      BY <1>a, <2>1, <3>1, <3>2, <3>3 DEF TypeOK, CountedBefore, TypeInv, Arrive
  <2>2. CASE ReadToken(c)
    <3>1. call[c] \in Call /\ call[c].token \in Token
      BY <1>a, <2>2 DEF TypeOK, ReadToken, RowsAreOfTokens, RowIsOfToken, Call
    <3>2. tokens[call[c].token] \in Row \cup {None}
      BY <1>a, <3>1 DEF TypeOK
    <3> DEFINE k == IF tokens[call[c].token] = None THEN None
                    ELSE [call[c] EXCEPT !.row = tokens[call[c].token], !.step = "read"]
    <3>3. /\ k \in Call \cup {None}
          /\ k # None => /\ k.token = call[c].token /\ k.step = "read"
                         /\ k.row = tokens[call[c].token] /\ k.row # None
      BY <3>1, <3>2 DEF Call, Steps
    <3>4. call' = [call EXCEPT ![c] = k]
      BY <2>2 DEF ReadToken, Refuse
    <3> HIDE DEF k
    <3>5. /\ call' \in [Client -> Call \cup {None}]
          /\ call'[c] = k
          /\ \A d \in Client \ {c} : call'[d] = call[d]
      BY <1>a, <3>3, <3>4, MovedCall DEF TypeOK
    <3>6. RowsAreOfTokens'
      <4> SUFFICES ASSUME NEW d \in Client, call'[d] # None
                   PROVE  RowIsOfToken(call[d])'
        BY DEF RowsAreOfTokens
      <4>1. tokens' = tokens
        BY <2>2 DEF ReadToken
      <4>2. CASE d = c
        BY <3>1, <3>3, <3>5, <4>1, <4>2, ServerConstants DEF RowIsOfToken
      <4>3. CASE d # c
        BY <1>a, <3>5, <4>1, <4>3 DEF RowsAreOfTokens, RowIsOfToken
      <4> QED
        BY <4>2, <4>3
    <3> QED
      BY <1>a, <2>2, <3>5, <3>6 DEF TypeOK, CountedBefore, TypeInv, ReadToken
  <2>3. CASE Verify(c)
    <3>1. call[c] \in Call /\ call[c].token \in Token
      BY <1>a, <2>3 DEF TypeOK, Verify, RowsAreOfTokens, RowIsOfToken, Call
    <3>2. tokens[call[c].token] \in Row
      BY <1>a, <2>3, <3>1 DEF TypeOK, Verify, RowsAreOfTokens, RowIsOfToken
    <3>3. /\ [tokens[call[c].token] EXCEPT !.used = TRUE] \in Row
          /\ [tokens[call[c].token] EXCEPT !.used = TRUE].grant = tokens[call[c].token].grant
      BY <3>2 DEF Row
    <3>5. tokens' \in [Token -> Row \cup {None}]
      BY <1>a, <2>3, <3>1, <3>3 DEF TypeOK, Verify
    <3>6. \A t \in Token : tokens[t] # None =>
             tokens'[t] # None /\ tokens'[t].grant = tokens[t].grant
      BY <1>a, <2>3, <3>1, <3>3, NoneIsNoRecord DEF TypeOK, Verify
    <3> DEFINE k == IF ~Usable(call[c].row) THEN None ELSE [call[c] EXCEPT !.step = "verified"]
    <3>7. /\ k \in Call \cup {None}
          /\ k # None => /\ k.step = "verified" /\ k.token = call[c].token
                         /\ k.row = call[c].row
      BY <3>1 DEF Call, Steps
    <3>8. call' = [call EXCEPT ![c] = k]
      BY <2>3 DEF Verify, Refuse, To
    <3> HIDE DEF k
    <3>9. /\ call' \in [Client -> Call \cup {None}]
          /\ call'[c] = k
          /\ \A d \in Client \ {c} : call'[d] = call[d]
      BY <1>a, <3>7, <3>8, MovedCall DEF TypeOK
    <3>10. RowsAreOfTokens'
      <4> SUFFICES ASSUME NEW d \in Client, call'[d] # None
                   PROVE  RowIsOfToken(call[d])'
        BY DEF RowsAreOfTokens
      <4>1. RowIsOfToken(call[c]) /\ call[c].step = "read"
        BY <1>a, <2>3 DEF RowsAreOfTokens, Verify
      <4>2. CASE d = c
        BY <3>1, <3>6, <3>7, <3>9, <4>1, <4>2 DEF RowIsOfToken
      <4>3. CASE d # c
        <5>1. call'[d] = call[d] /\ call[d] \in Call /\ RowIsOfToken(call[d])
          BY <1>a, <3>9, <4>3 DEF TypeOK, RowsAreOfTokens
        <5> QED
          BY <3>6, <5>1 DEF RowIsOfToken, Call
      <4> QED
        BY <4>2, <4>3
    <3> QED
      BY <1>a, <2>3, <3>5, <3>9, <3>10 DEF TypeOK, CountedBefore, TypeInv, Verify
  <2>4. CASE Admit(c)
    <3> DEFINE p == call[c].server
               t == call[c].token
               id == Identity(call[c].row.grant)
    <3>1. /\ call[c] \in Call /\ p \in Process /\ t \in Token
          /\ call[c].row \in Row /\ call[c].row.grant \in Grants
      BY <1>a, <2>4 DEF TypeOK, Admit, RowsAreOfTokens, RowIsOfToken, Call, Row
    <3>2. id \in Identities
      BY <3>1 DEF Identities
    <3>3. Kept(p, id) \in Identities
      BY <1>a, <3>1, <3>2 DEF TypeOK, Kept
    <3>4. /\ call' \in [Client -> Call \cup {None}]
          /\ call'[c] # None => call'[c].token = t /\ call'[c].row = call[c].row
                                  /\ call'[c].step = "running"
          /\ \A d \in Client \ {c} : call'[d] = call[d]
      <4> DEFINE app == IF id = Own THEN Own ELSE Kept(p, id)
                 k == [call[c] EXCEPT !.app = app, !.step = "running"]
      <4>1. app \in Identities
        BY <3>3 DEF Identities
      <4>2. /\ k \in Call
            /\ k.token = t /\ k.row = call[c].row /\ k.step = "running"
        <5> HIDE DEF app
        <5> QED BY <3>1, <4>1 DEF Call, Steps
      <4>3. call' = [call EXCEPT ![c] = None] \/ call' = [call EXCEPT ![c] = k]
        BY <2>4 DEF Admit, Refuse
      <4>4. CASE call' = [call EXCEPT ![c] = None]
        BY <1>a, <4>4, MovedCall DEF TypeOK
      <4>5. CASE call' = [call EXCEPT ![c] = k]
        <5> HIDE DEF k
        <5>1. /\ call' \in [Client -> Call \cup {None}]
              /\ call'[c] = k
              /\ \A d \in Client \ {c} : call'[d] = call[d]
          BY <1>a, <4>2, <4>5, MovedCall DEF TypeOK
        <5> QED
          BY <4>2, <5>1
      <4> QED
        BY <4>3, <4>4, <4>5
    <3>5. RowsAreOfTokens'
      <4> SUFFICES ASSUME NEW d \in Client, call'[d] # None
                   PROVE  RowIsOfToken(call[d])'
        BY DEF RowsAreOfTokens
      <4>1. tokens' = tokens /\ call[c] # None /\ call[c].step = "verified" /\ t # None
        BY <2>4 DEF Admit
      <4>2. RowIsOfToken(call[c])
        BY <1>a, <4>1 DEF RowsAreOfTokens
      <4>3. CASE d = c
        BY <3>4, <4>1, <4>2, <4>3 DEF RowIsOfToken
      <4>4. CASE d # c
        <5>1. call'[d] = call[d] /\ RowIsOfToken(call[d])
          BY <1>a, <3>4, <4>4 DEF RowsAreOfTokens
        <5> QED
          BY <4>1, <5>1 DEF RowIsOfToken
      <4> QED
        BY <4>3, <4>4
    <3>6. Refilled(buckets[p][t]) \in 0..Capacity * Whole
      BY <1>a, <3>1, RefillFits DEF TypeOK, CountedBefore
    <3>7. buckets' \in [Process -> [Token -> Bucket \cup {None}]] /\ CountedBefore'
      <4> DEFINE left == Refilled(buckets[p][t])
                 kept == [units |-> IF left >= Whole THEN left - Whole ELSE left, at |-> now]
      <4>1. kept \in Bucket /\ kept.at = now
        BY <1>a, <3>6, ServerConstants DEF Bucket
      <4>2. buckets' = buckets \/ buckets' = [buckets EXCEPT ![p][t] = kept]
        BY <2>4 DEF Admit
      <4>3. now' = now
        BY <2>4 DEF Admit
      <4> HIDE DEF kept, p, t
      <4>4. buckets \in [Process -> [Token -> Bucket \cup {None}]]
        BY <1>a DEF TypeOK
      <4>5. CASE buckets' = buckets
        BY <1>a, <4>3, <4>4, <4>5 DEF CountedBefore
      <4>6. CASE buckets' = [buckets EXCEPT ![p][t] = kept]
        <5>1. kept \in Bucket \cup {None}
          BY <4>1
        <5>2. /\ buckets' \in [Process -> [Token -> Bucket \cup {None}]]
              /\ buckets'[p][t] = kept
              /\ \A q \in Process, u \in Token :
                   <<q, u>> # <<p, t>> => buckets'[q][u] = buckets[q][u]
          BY <3>1, <4>4, <4>6, <5>1, Replaced
        <5>3. ASSUME NEW q \in Process, NEW u \in Token, buckets'[q][u] # None
              PROVE  buckets'[q][u].at <= now'
          <6>1. CASE <<q, u>> = <<p, t>>
            BY <1>a, <4>1, <4>3, <5>2, <6>1
          <6>2. CASE <<q, u>> # <<p, t>>
            BY <1>a, <4>3, <5>2, <5>3, <6>2 DEF CountedBefore
          <6> QED
            BY <6>1, <6>2
        <5> QED
          BY <5>2, <5>3 DEF CountedBefore
      <4> QED
        BY <4>2, <4>5, <4>6
    <3>8. spent' \in [Process -> [Token -> Seq(Nat)]]
      <4>1. spent' = spent \/ spent' = [spent EXCEPT ![p][t] = Append(@, now)]
        BY <2>4 DEF Admit
      <4> HIDE DEF p, t
      <4>2. spent \in [Process -> [Token -> Seq(Nat)]]
        BY <1>a DEF TypeOK
      <4>3. Append(spent[p][t], now) \in Seq(Nat)
        BY <1>a, <3>1, <4>2
      <4>4. spent' = spent \/ spent' = [spent EXCEPT ![p][t] = Append(spent[p][t], now)]
        BY <4>1
      <4>5. [spent EXCEPT ![p][t] = Append(spent[p][t], now)] \in [Process -> [Token -> Seq(Nat)]]
        BY <3>1, <4>2, <4>3, Replaced
      <4> QED
        BY <4>2, <4>4, <4>5
    <3>9. apps' \in [Process -> UNION {[K -> Identities] : K \in SUBSET {Key(i) : i \in Identities}}]
      <4> DEFINE more == [k \in DOMAIN apps[p] \cup {Key(id)} |->
                            IF k = Key(id) THEN Kept(p, id) ELSE apps[p][k]]
                 Kinds == UNION {[K -> Identities] : K \in SUBSET {Key(i) : i \in Identities}}
      <4>1. PICK K \in SUBSET {Key(i) : i \in Identities} : apps[p] \in [K -> Identities]
        <5>1. apps[p] \in Kinds
          BY <1>a, <3>1 DEF TypeOK
        <5>2. PICK F \in {[K -> Identities] : K \in SUBSET {Key(i) : i \in Identities}} : apps[p] \in F
          BY <5>1
        <5> QED
          BY <5>2
      <4>2. K \cup {Key(id)} \in SUBSET {Key(i) : i \in Identities}
        BY <3>2
      <4>3. more \in [K \cup {Key(id)} -> Identities]
        BY <3>3, <4>1
      <4>4. more \in Kinds
        BY <4>2, <4>3
      <4>5. apps' = apps \/ apps' = [apps EXCEPT ![p] = more]
        BY <2>4 DEF Admit
      <4> HIDE DEF more, Kinds, p
      <4>6. apps \in [Process -> Kinds]
        BY <1>a DEF TypeOK, Kinds
      <4>7. apps' \in [Process -> Kinds]
        BY <4>4, <4>5, <4>6
      <4> QED
        BY <4>7 DEF Kinds
    <3>10. TypeOK'
      BY <1>a, <2>4, <3>4, <3>7, <3>8, <3>9 DEF TypeOK, Admit
    <3> QED
      BY <3>5, <3>7, <3>10 DEF TypeInv
  <2>5. CASE AdmitOwn(c)
    <3> DEFINE k == [call[c] EXCEPT !.app = Own, !.step = "running"]
    <3>1. /\ k \in Call
          /\ k.token = None /\ k.step = "running"
      BY <1>a, <2>5, ZenonT(40) DEF TypeOK, AdmitOwn, Call, Steps, Identities
    <3>2. call' = [call EXCEPT ![c] = k]
      BY <2>5 DEF AdmitOwn
    <3> HIDE DEF k
    <3>3. /\ call' \in [Client -> Call \cup {None}]
          /\ call'[c] = k
          /\ \A d \in Client \ {c} : call'[d] = call[d]
      BY <1>a, <3>1, <3>2, MovedCall DEF TypeOK
    <3>4. RowsAreOfTokens'
      BY <1>a, <2>5, <3>1, <3>3 DEF AdmitOwn, RowsAreOfTokens, RowIsOfToken
    <3> QED
      BY <1>a, <2>5, <3>3, <3>4 DEF TypeOK, CountedBefore, TypeInv, AdmitOwn
  <2>6. CASE Return(c)
    BY <1>a, <2>6 DEF TypeOK, CountedBefore, RowsAreOfTokens, RowIsOfToken, TypeInv, Return, Refuse
  <2> QED
    BY <1>7, <2>1, <2>2, <2>3, <2>4, <2>5, <2>6 DEF Serve
<1> QED
  BY <1>1, <1>2, <1>3, <1>4, <1>5, <1>6, <1>7 DEF Next, Operator

(* The variables of a server hold what they should in every reachable      *)
(* state: buckets within the burst, applications under keys of identities. *)
THEOREM ServerTypeCorrect == Spec => []TypeOK
<1>1. Spec => []TypeInv
  BY TypeInit, TypeNext, PTL DEF Spec
<1>2. TypeInv => TypeOK
  BY DEF TypeInv
<1> QED
  BY <1>1, <1>2, PTL

-----------------------------------------------------------------------------
(* Time passes and rows of tokens stay: a step may revoke one, or note that*)
(* it was used, and leaves its grant alone.                                *)
LEMMA RowsOnlyAge ==
  ASSUME TypeInv, [Next]_vars
  PROVE  /\ now \in Nat /\ now' \in Nat /\ now <= now'
         /\ \A t \in Token : tokens[t] # None =>
              /\ tokens[t] \in Row
              /\ tokens'[t] # None
              /\ tokens'[t].grant = tokens[t].grant
              /\ tokens[t].revoked => tokens'[t].revoked
<1>1. now \in Nat /\ tokens \in [Token -> Row \cup {None}]
  BY ServerConstants DEF TypeInv, TypeOK
<1>2. CASE Tick
  BY <1>1, <1>2 DEF Tick
<1>3. ASSUME NEW u \in Token, Revoke(u)
      PROVE  /\ now' = now
             /\ \A t \in Token : tokens[t] # None =>
                  /\ tokens'[t] # None
                  /\ tokens'[t].grant = tokens[t].grant
                  /\ tokens[t].revoked => tokens'[t].revoked
  <2>1. tokens[u] \in Row
    BY <1>1, <1>3 DEF Revoke
  <2>2. LET r == [tokens[u] EXCEPT !.revoked = TRUE]
        IN r \in Row /\ r.grant = tokens[u].grant /\ r.revoked
    BY <2>1 DEF Row
  <2> QED
    BY <1>1, <1>3, <2>2, NoneIsNoRecord DEF Revoke
<1>4. ASSUME NEW u \in Token, NEW grant \in Grants, Create(u, grant)
      PROVE  /\ now' = now
             /\ \A t \in Token : tokens[t] # None => tokens'[t] = tokens[t]
  BY <1>1, <1>4 DEF Create
<1>5. ASSUME NEW c \in Client, Verify(c)
      PROVE  /\ now' = now
             /\ \A t \in Token : tokens[t] # None =>
                  /\ tokens'[t] # None
                  /\ tokens'[t].grant = tokens[t].grant
                  /\ tokens[t].revoked => tokens'[t].revoked
  <2>1. now' = now
    BY <1>5 DEF Verify
  <2>2. CASE tokens' = tokens
    BY <2>1, <2>2
  <2>3. CASE tokens' = [tokens EXCEPT ![call[c].token].used = TRUE]
    <3> DEFINE r == [tokens[call[c].token] EXCEPT !.used = TRUE]
    <3>1. tokens[call[c].token] \in Row =>
            r \in Row /\ r.grant = tokens[call[c].token].grant
              /\ r.revoked = tokens[call[c].token].revoked
      BY DEF Row
    <3>2. tokens' = [tokens EXCEPT ![call[c].token] = r]
      BY <2>3
    <3> HIDE DEF r
    <3> QED
      BY <1>1, <2>1, <3>1, <3>2, NoneIsNoRecord
  <2> QED
    BY <1>5, <2>2, <2>3 DEF Verify
<1>6. \/ Tick
      \/ \E u \in Token : Revoke(u) \/ \E grant \in Grants : Create(u, grant)
      \/ \E c \in Client : Verify(c)
      \/ now' = now /\ tokens' = tokens
  <2>1. CASE Operator
    BY <2>1 DEF Operator, Start, Stop
  <2>2. ASSUME NEW c \in Client, Serve(c)
        PROVE  Verify(c) \/ (now' = now /\ tokens' = tokens)
    <3>1. CASE \E p \in Process, u \in Token \cup {None}, tool \in Tool : Arrive(c, p, u, tool)
      BY <3>1 DEF Arrive
    <3>2. CASE ReadToken(c)
      BY <3>2 DEF ReadToken
    <3>3. CASE AdmitOwn(c)
      BY <3>3 DEF AdmitOwn
    <3>4. CASE Return(c)
      BY <3>4 DEF Return
    <3>5. CASE Admit(c)
      BY <3>5 DEF Admit
    <3>6. CASE Verify(c)
      BY <3>6
    <3> QED
      BY <2>2, <3>1, <3>2, <3>3, <3>4, <3>5, <3>6 DEF Serve
  <2>3. CASE UNCHANGED vars
    BY <2>3 DEF vars
  <2>4. CASE \E c \in Client : Serve(c)
    BY <2>2, <2>4
  <2> QED
    BY <2>1, <2>3, <2>4 DEF Next
<1> QED
  BY <1>1, <1>2, <1>3, <1>4, <1>5, <1>6

(* What cannot be used now cannot be used later.                           *)
LEMMA StaysUnusable ==
  ASSUME TypeInv, [Next]_vars
  PROVE  /\ \A r \in Row : ~Usable(r) => ~Usable(r)'
         /\ \A t \in Token : tokens[t] # None /\ ~Usable(tokens[t]) => ~Usable(tokens[t])'
<1>1. ASSUME NEW r \in Row, ~Usable(r), NEW s, s.grant = r.grant, r.revoked => s.revoked
      PROVE  ~(s # None /\ ~s.revoked /\ ~(s.grant.expires # None /\ s.grant.expires <= now'))
  <2>1. r.grant \in Grants
    BY DEF Row
  <2>2. r.grant.expires \in Nat \cup {None}
    BY <2>1, ServerConstants
  <2>3. r.revoked \/ (r.grant.expires # None /\ r.grant.expires <= now)
    BY <1>1, NoneIsNoRecord DEF Usable, Expired
  <2> QED
    BY <1>1, <2>2, <2>3, RowsOnlyAge
<1>2. ASSUME NEW r \in Row, ~Usable(r)
      PROVE  ~Usable(r)'
  BY <1>1, <1>2 DEF Usable, Expired
<1>3. ASSUME NEW t \in Token, tokens[t] # None, ~Usable(tokens[t])
      PROVE  ~Usable(tokens[t])'
  BY <1>1, <1>3, RowsOnlyAge DEF Usable, Expired
<1> QED
  BY <1>2, <1>3

(* The server of a call that goes on is the same before and after a step.  *)
LEMMA ServerStays ==
  ASSUME TypeInv, CallInv, [Next]_vars, NEW d \in Client, call[d] # None, call'[d] # None
  PROVE  server'[call[d].server] = server[call[d].server]
<1>1. /\ call[d] \in Call /\ call[d].server \in Process
      /\ server[call[d].server] # None
      /\ server \in [Process -> [remote : BOOLEAN, bearer : BOOLEAN] \cup {None}]
      /\ call \in [Client -> Call \cup {None}]
  BY DEF TypeInv, TypeOK, CallInv, CallOk, CallOnServer, Call
<1>2. ASSUME NEW p \in Process, NEW http \in BOOLEAN, NEW remote \in BOOLEAN,
             NEW tls \in BOOLEAN, Start(p, http, remote, tls)
      PROVE  server'[call[d].server] = server[call[d].server]
  BY <1>1, <1>2 DEF Start
<1>3. ASSUME NEW p \in Process, Stop(p)
      PROVE  server'[call[d].server] = server[call[d].server]
  BY <1>1, <1>3 DEF Stop
<1>4. \/ \E p \in Process : \/ Stop(p)
                            \/ \E http, remote, tls \in BOOLEAN : Start(p, http, remote, tls)
      \/ server' = server
  BY DEF Next, Operator, Serve, Create, Revoke, Tick, Arrive, ReadToken, Verify, Admit, AdmitOwn,
         Return, vars
<1> QED
  BY <1>2, <1>3, <1>4

(* A call that has not moved is as good as before.                         *)
LEMMA OthersStayOk ==
  ASSUME TypeInv, CallInv, [Next]_vars, NEW d \in Client, call[d] # None, call'[d] = call[d]
  PROVE  CallOk(call[d])'
<1> DEFINE k == call[d]
<1>1. /\ k \in Call /\ k.token \in Token \cup {None} /\ k.row \in Row \cup {None}
      /\ CallOnServer(k) /\ LateIsRefused(k) /\ RunsAsBound(k) /\ RowIsOfToken(k)
  BY DEF TypeInv, TypeOK, RowsAreOfTokens, CallInv, CallOk, Call
<1>2. server'[k.server] = server[k.server]
  BY ServerStays
<1>3. CallOnServer(call[d])'
  BY <1>1, <1>2 DEF CallOnServer
<1>4. RunsAsBound(call[d])'
  BY <1>1 DEF RunsAsBound
<1>5. LateIsRefused(call[d])'
  <2> SUFFICES ASSUME k.late PROVE LateIsRefused(call[d])'
    BY DEF LateIsRefused
  <2>1. k.token \in Token /\ tokens[k.token] # None /\ ~Usable(tokens[k.token])
    BY <1>1 DEF LateIsRefused
  <2>2. tokens'[k.token] # None /\ ~Usable(tokens[k.token])'
    BY <2>1, StaysUnusable, RowsOnlyAge
  <2>3. k.step = "read" => ~Usable(k.row)'
    BY <1>1, StaysUnusable DEF LateIsRefused, RowIsOfToken
  <2> QED
    BY <1>1, <2>1, <2>2, <2>3 DEF LateIsRefused, Usable, Expired
<1> QED
  BY <1>3, <1>4, <1>5 DEF CallOk

LEMMA CallInit == Init => CallInv
BY DEF Init, CallInv, AppsAsKeyed, RemoteAsks

LEMMA RemoteStep == ASSUME TypeInv, RemoteAsks, [Next]_vars PROVE RemoteAsks'
<1>1. server \in [Process -> [remote : BOOLEAN, bearer : BOOLEAN] \cup {None}]
  BY DEF TypeInv, TypeOK
<1>2. ASSUME NEW p \in Process, NEW http \in BOOLEAN, NEW remote \in BOOLEAN,
             NEW tls \in BOOLEAN, Start(p, http, remote, tls)
      PROVE  RemoteAsks'
  <2>1. Started(http, remote).remote => Started(http, remote).bearer
    BY <1>2 DEF Start, Started, MayListen
  <2> QED
    BY <1>1, <1>2, <2>1 DEF Start, RemoteAsks
<1>3. ASSUME NEW p \in Process, Stop(p)
      PROVE  RemoteAsks'
  BY <1>1, <1>3 DEF Stop, RemoteAsks
<1>4. \/ \E p \in Process : \/ Stop(p)
                            \/ \E http, remote, tls \in BOOLEAN : Start(p, http, remote, tls)
      \/ server' = server
  BY DEF Next, Operator, Serve, Create, Revoke, Tick, Arrive, ReadToken, Verify, Admit, AdmitOwn,
         Return, vars
<1> QED
  BY <1>2, <1>3, <1>4 DEF RemoteAsks

(* Two grants of one key are grants of one identity.                       *)
LEMMA KeysTellIdentities ==
  ASSUME NEW g \in Grants, NEW h \in Grants, Key(Identity(g)) = Key(Identity(h))
  PROVE  Identity(g) = Identity(h)
BY DEF Key, Identity

LEMMA KeptStep == ASSUME TypeInv, AppsAsKeyed, [Next]_vars PROVE AppsAsKeyed'
<1>1. DOMAIN apps = Process
  BY DEF TypeInv, TypeOK
<1>2. ASSUME NEW p \in Process, Stop(p)
      PROVE  AppsAsKeyed'
  BY <1>1, <1>2 DEF Stop, AppsAsKeyed
<1>3. ASSUME NEW c \in Client, Admit(c)
      PROVE  AppsAsKeyed'
  <2> DEFINE p == call[c].server
             grant == call[c].row.grant
             more == [k \in DOMAIN apps[p] \cup {Key(Identity(grant))} |->
                        IF k = Key(Identity(grant)) THEN Kept(p, Identity(grant)) ELSE apps[p][k]]
  <2>1. p \in Process /\ grant \in Grants
    BY <1>3 DEF Admit, TypeInv, TypeOK, RowsAreOfTokens, RowIsOfToken, Call, Row
  <2>2. apps' = apps \/ apps' = [apps EXCEPT ![p] = more]
    BY <1>3 DEF Admit
  <2>3. Kept(p, Identity(grant)) = Identity(grant)
    BY <2>1 DEF Kept, AppsAsKeyed
  <2>4. ASSUME NEW g \in Grants, Key(Identity(g)) \in DOMAIN more
        PROVE  more[Key(Identity(g))] = Identity(g)
    <3>1. CASE Key(Identity(g)) = Key(Identity(grant))
      BY <2>1, <2>3, <2>4, <3>1, KeysTellIdentities
    <3>2. CASE Key(Identity(g)) # Key(Identity(grant))
      BY <2>1, <2>4, <3>2 DEF AppsAsKeyed
    <3> QED
      BY <3>1, <3>2
  <2> HIDE DEF p, more
  <2> QED
    BY <1>1, <2>1, <2>2, <2>4 DEF AppsAsKeyed
<1>4. \/ \E p \in Process : Stop(p)
      \/ \E c \in Client : Admit(c)
      \/ apps' = apps
  BY DEF Next, Operator, Serve, Create, Revoke, Tick, Start, Arrive, ReadToken, Verify, AdmitOwn,
         Return, vars
<1> QED
  BY <1>2, <1>3, <1>4 DEF AppsAsKeyed

(* A call that is admitted gets the application of its own identity.       *)
LEMMA MovedStaysOk ==
  ASSUME TypeInv, CallInv, NEW c \in Client, Serve(c), call'[c] # None
  PROVE  CallOk(call[c])'
<1>a. /\ TypeOK /\ CountedBefore /\ RowsAreOfTokens
      /\ call \in [Client -> Call \cup {None}]
      /\ call[c] # None => /\ call[c] \in Call /\ RowIsOfToken(call[c])
                           /\ CallOnServer(call[c]) /\ LateIsRefused(call[c])
                           /\ RunsAsBound(call[c])
  BY DEF TypeInv, TypeOK, RowsAreOfTokens, CallInv, CallOk
<1>b. [Next]_vars
  BY DEF Next
<1>1. ASSUME NEW p \in Process, NEW t \in Token \cup {None}, NEW tool \in Tool,
             Arrive(c, p, t, tool)
      PROVE  CallOk(call[c])'
  <2>1. /\ call'[c].server = p /\ call'[c].token = t
        /\ call'[c].step = IF t = None THEN "verified" ELSE "arrived"
        /\ call'[c].late <=> t # None /\ tokens[t] # None /\ ~Usable(tokens[t])
        /\ server' = server /\ tokens' = tokens /\ now' = now
        /\ server[p] # None /\ (server[p].bearer <=> t # None)
    BY <1>a, <1>1 DEF Arrive
  <2>2. CallOnServer(call[c])'
    BY <2>1 DEF CallOnServer
  <2>3. LateIsRefused(call[c])'
    BY <2>1 DEF LateIsRefused, Usable, Expired
  <2>4. RunsAsBound(call[c])'
    BY <2>1 DEF RunsAsBound
  <2> QED
    BY <2>2, <2>3, <2>4 DEF CallOk
<1>2. CASE ReadToken(c)
  <2>1. /\ call[c] \in Call /\ RowIsOfToken(call[c]) /\ CallOnServer(call[c])
        /\ LateIsRefused(call[c]) /\ call[c].step = "arrived"
        /\ call'[c] = [call[c] EXCEPT !.row = tokens[call[c].token], !.step = "read"]
        /\ server' = server /\ tokens' = tokens /\ now' = now
    BY <1>a, <1>2 DEF ReadToken, Refuse
  <2>2. /\ call'[c].server = call[c].server /\ call'[c].token = call[c].token
        /\ call'[c].late = call[c].late /\ call'[c].step = "read"
        /\ call'[c].row = tokens[call[c].token]
    BY <2>1 DEF Call
  <2>3. CallOnServer(call[c])'
    BY <2>1, <2>2 DEF CallOnServer
  <2>4. LateIsRefused(call[c])'
    BY <2>1, <2>2 DEF LateIsRefused, Usable, Expired
  <2>5. RunsAsBound(call[c])'
    BY <2>2 DEF RunsAsBound
  <2> QED
    BY <2>3, <2>4, <2>5 DEF CallOk
<1>3. CASE Verify(c)
  <2>1. /\ call[c] \in Call /\ CallOnServer(call[c])
        /\ LateIsRefused(call[c]) /\ call[c].step = "read"
        /\ Usable(call[c].row)
        /\ call'[c] = [call[c] EXCEPT !.step = "verified"]
        /\ server' = server
    BY <1>a, <1>3 DEF Verify, Refuse, To
  <2>2. /\ call'[c].server = call[c].server /\ call'[c].token = call[c].token
        /\ call'[c].late = call[c].late /\ call'[c].step = "verified"
        /\ call'[c].late \in BOOLEAN
    BY <2>1 DEF Call
  <2>3. ~call[c].late
    BY <2>1 DEF LateIsRefused
  <2>4. CallOnServer(call[c])' /\ LateIsRefused(call[c])' /\ RunsAsBound(call[c])'
    BY <2>1, <2>2, <2>3 DEF CallOnServer, LateIsRefused, RunsAsBound
  <2> QED
    BY <2>4 DEF CallOk
<1>4. CASE Admit(c)
  <2> DEFINE id == Identity(call[c].row.grant)
  <2>1. /\ call[c] \in Call /\ CallOnServer(call[c]) /\ RowIsOfToken(call[c])
        /\ LateIsRefused(call[c]) /\ call[c].step = "verified" /\ call[c].token # None
        /\ server' = server
    BY <1>a, <1>4 DEF Admit
  <2>2. /\ call[c].server \in Process /\ call[c].row.grant \in Grants
    BY <2>1 DEF Call, Row, RowIsOfToken
  <2>3. Kept(call[c].server, id) = id
    BY <2>2 DEF Kept, CallInv, AppsAsKeyed
  <2>4. /\ Requires[call[c].tool] \in call[c].row.grant.scopes
        /\ call'[c] = [call[c] EXCEPT
             !.app = IF id = Own THEN Own ELSE Kept(call[c].server, id), !.step = "running"]
    BY <1>a, <1>4 DEF Admit, Refuse
  <2>5. call'[c] = [call[c] EXCEPT !.app = id, !.step = "running"]
    BY <2>3, <2>4
  <2> HIDE DEF id
  <2>6. /\ call'[c].server = call[c].server /\ call'[c].token = call[c].token
        /\ call'[c].late = call[c].late /\ call'[c].step = "running"
        /\ call'[c].row = call[c].row /\ call'[c].app = id /\ call'[c].tool = call[c].tool
        /\ call'[c].late \in BOOLEAN
    BY <2>1, <2>5 DEF Call
  <2>7. ~call[c].late
    BY <2>1 DEF LateIsRefused
  <2>8. CallOnServer(call[c])' /\ LateIsRefused(call[c])'
    BY <2>1, <2>6, <2>7 DEF CallOnServer, LateIsRefused
  <2>9. RunsAsBound(call[c])'
    BY <2>1, <2>4, <2>6 DEF RunsAsBound, id
  <2> QED
    BY <2>8, <2>9 DEF CallOk
<1>5. CASE AdmitOwn(c)
  <2>1. /\ call[c] \in Call /\ CallOnServer(call[c])
        /\ LateIsRefused(call[c]) /\ call[c].step = "verified" /\ call[c].token = None
        /\ call'[c] = [call[c] EXCEPT !.app = Own, !.step = "running"]
        /\ server' = server
    BY <1>a, <1>5 DEF AdmitOwn
  <2>2. /\ call'[c].server = call[c].server /\ call'[c].token = None
        /\ call'[c].late = call[c].late /\ call'[c].step = "running"
        /\ call'[c].app = Own
        /\ call'[c].late \in BOOLEAN
    BY <2>1 DEF Call
  <2>3. ~call[c].late
    BY <2>1 DEF LateIsRefused
  <2>4. CallOnServer(call[c])' /\ LateIsRefused(call[c])' /\ RunsAsBound(call[c])'
    BY <2>1, <2>2, <2>3 DEF CallOnServer, LateIsRefused, RunsAsBound
  <2> QED
    BY <2>4 DEF CallOk
<1>6. ~Return(c)
  BY <1>a DEF Return, Refuse
<1> QED
  BY <1>1, <1>2, <1>3, <1>4, <1>5, <1>6 DEF Serve

LEMMA CallNext == ASSUME TypeInv, CallInv, [Next]_vars PROVE CallInv'
<1>1. AppsAsKeyed' /\ RemoteAsks'
  BY KeptStep, RemoteStep DEF CallInv
<1>2. ASSUME NEW d \in Client, call'[d] # None
      PROVE  CallOk(call[d])'
  <2>1. ASSUME NEW c \in Client, Serve(c)
        PROVE  c = d \/ call'[d] = call[d]
    BY <2>1 DEF Serve, Arrive, ReadToken, Verify, Admit, AdmitOwn, Return, Refuse, To,
                TypeInv, TypeOK
  <2>2. ASSUME NEW p \in Process, Stop(p)
        PROVE  call'[d] = call[d]
    BY <1>2, <2>2 DEF Stop
  <2>3. Serve(d) \/ call'[d] = call[d]
    BY <2>1, <2>2 DEF Next, Operator, Create, Revoke, Start, Tick, vars
  <2> QED
    BY <1>2, <2>3, MovedStaysOk, OthersStayOk
<1> QED
  BY <1>1, <1>2 DEF CallInv

LEMMA ServerInvariant == Spec => [](TypeInv /\ CallInv)
<1>1. Init => TypeInv /\ CallInv
  BY TypeInit, CallInit
<1>2. TypeInv /\ CallInv /\ [Next]_vars => (TypeInv /\ CallInv)'
  BY TypeNext, CallNext
<1> QED
  BY <1>1, <1>2, PTL DEF Spec

(* A token that was revoked or had run out when a call arrived lets no call*)
(* pass, however _authenticate_sync and token revoke follow each other.    *)
THEOREM OnlyUsableTokensPass == Spec => []UsableWhenItArrived
<1>1. CallInv => UsableWhenItArrived
  BY DEF CallInv, CallOk, LateIsRefused, UsableWhenItArrived, Passed
<1> QED
  BY <1>1, ServerInvariant, PTL

(* application_for_request serves a call as the agent and workspace of its *)
(* token, within its scopes, whatever the server has served before.        *)
THEOREM CallsAreServedAsBound == Spec => []ServedAsBound
<1>1. TypeInv /\ CallInv => ServedAsBound
  <2> SUFFICES ASSUME TypeInv, CallInv, NEW c \in Client, call[c] # None, call[c].step = "running"
               PROVE  IF call[c].token = None
                      THEN call[c].app = Own /\ ~server[call[c].server].remote
                      ELSE LET grant == tokens[call[c].token].grant IN
                           call[c].app = Identity(grant)
                             /\ Requires[call[c].tool] \in grant.scopes
    BY DEF ServedAsBound, Running
  <2>1. /\ call[c].server \in Process
        /\ CallOnServer(call[c]) /\ RowIsOfToken(call[c]) /\ RunsAsBound(call[c])
    BY DEF TypeInv, TypeOK, RowsAreOfTokens, CallInv, CallOk, Call
  <2>2. CASE call[c].token = None
    <3>1. call[c].app = Own
      BY <2>1, <2>2 DEF RunsAsBound
    <3>2. server[call[c].server] # None /\ ~server[call[c].server].bearer
      BY <2>1, <2>2 DEF CallOnServer
    <3>3. ~server[call[c].server].remote
      BY <2>1, <3>2 DEF CallInv, RemoteAsks
    <3> QED
      BY <2>2, <3>1, <3>3
  <2>3. CASE call[c].token # None
    BY <2>1, <2>3 DEF RowIsOfToken, RunsAsBound
  <2> QED
    BY <2>2, <2>3
<1> QED
  BY <1>1, ServerInvariant, PTL

-----------------------------------------------------------------------------
(* What a bucket pays for stays paid while it is refilled ...              *)
LEMMA RefillPays ==
  ASSUME NEW n \in Nat, NEW units \in Nat, NEW left \in Nat,
         NEW first \in Nat, NEW at \in Nat, NEW then \in Nat,
         n * Whole + units <= Capacity * Whole + (at - first) * Rate,
         left <= units + (then - at) * Rate
  PROVE  n * Whole + left <= Capacity * Whole + (then - first) * Rate
<1>1. (then - first) * Rate = (then - at) * Rate + (at - first) * Rate
  BY ServerConstants
<1> DEFINE x == n * Whole
           y == Capacity * Whole
           z == (at - first) * Rate
           w == (then - at) * Rate
<1>2. x \in Int /\ y \in Int /\ z \in Int /\ w \in Int
  BY ServerConstants
<1>3. x + units <= y + z /\ left <= units + w
  OBVIOUS
<1> HIDE DEF x, y, z, w
<1>4. x + left <= y + (w + z)
  BY <1>2, <1>3
<1> QED
  BY <1>1, <1>4 DEF x, y, z, w

(* ... and when one more call takes its units out of it.                   *)
LEMMA CallPays ==
  ASSUME NEW n \in Nat, NEW left \in Nat, left >= Whole, NEW bound \in Int,
         n * Whole + left <= bound
  PROVE  (n + 1) * Whole + (left - Whole) <= bound
<1>1. (n + 1) * Whole = n * Whole + Whole
  BY ServerConstants
<1> DEFINE x == n * Whole
<1>2. x \in Int /\ Whole \in Int
  BY ServerConstants
<1>3. x + left <= bound
  OBVIOUS
<1> HIDE DEF x
<1>4. x + Whole + (left - Whole) <= bound
  BY <1>2, <1>3
<1> QED
  BY <1>1, <1>4 DEF x

(* A bucket that is counted at now, and from which a call may be taken.    *)
LEMMA BucketStep ==
  ASSUME NEW b \in Bucket \cup {None}, NEW at \in Seq(Nat), now \in Nat,
         BucketPays(b, at), Bounded(at),
         NEW left, left = Refilled(b), NEW passes \in BOOLEAN, passes => left >= Whole,
         NEW c \in Bucket, c.at = now, c.units = IF passes THEN left - Whole ELSE left,
         NEW log, log = IF passes THEN Append(at, now) ELSE at
  PROVE  /\ log # <<>> => c # None
         /\ \A i \in DOMAIN log :
              /\ log[i] <= c.at
              /\ (Len(log) - i + 1) * Whole + c.units
                   <= Capacity * Whole + (c.at - log[i]) * Rate
         /\ Bounded(log)
<1> DEFINE n == Len(at)
           burst == Capacity * Whole
           Bound(i) == burst + (now - at[i]) * Rate
<1>1. /\ n \in Nat /\ DOMAIN at = 1..n
      /\ \A i \in 1..n : at[i] \in Nat
      /\ burst \in Nat /\ Whole \in Nat
  BY ServerConstants
<1>2. b # None => b.at \in Nat /\ b.at <= now /\ b.units \in Nat
  <2> SUFFICES ASSUME b # None PROVE b.at \in Nat /\ b.at <= now /\ b.units \in Nat
    OBVIOUS
  <2>1. b \in Bucket
    OBVIOUS
  <2>2. b.at \in Nat /\ b.units \in 0..burst
    BY <2>1 DEF Bucket
  <2> QED
    BY <1>1, <2>2 DEF BucketPays
<1>3. left \in 0..burst /\ (b # None => left <= b.units + (now - b.at) * Rate)
  BY <1>2, RefillFits
<1>4. ASSUME NEW i \in 1..n
      PROVE  /\ at[i] <= now
             /\ (n - i + 1) * Whole + left <= Bound(i)
  <2>1. b # None
    BY <1>1, <1>4 DEF BucketPays
  <2>2. /\ at[i] <= b.at
        /\ (n - i + 1) * Whole + b.units <= burst + (b.at - at[i]) * Rate
    BY <1>1, <2>1 DEF BucketPays
  <2> DEFINE m == n - i + 1
             first == at[i]
  <2>3. /\ m \in Nat /\ first \in Nat /\ left \in Nat
        /\ b.units \in Nat /\ b.at \in Nat
        /\ m * Whole + b.units <= Capacity * Whole + (b.at - first) * Rate
        /\ left <= b.units + (now - b.at) * Rate
    BY <1>1, <1>2, <1>3, <2>1, <2>2
  <2> HIDE DEF m, first
  <2>4. m * Whole + left <= Capacity * Whole + (now - first) * Rate
    BY <2>3, RefillPays
  <2>5. (n - i + 1) * Whole + left <= burst + (now - at[i]) * Rate
    BY <2>4 DEF m, first
  <2> QED
    BY <1>1, <1>2, <2>1, <2>2, <2>5
<1>5. ASSUME NEW i \in 1..n PROVE Bound(i) \in Int
  BY <1>1, <1>5, ServerConstants
<1>6. c # None
  BY NoneIsNoRecord
<1>7. CASE ~passes
  BY <1>1, <1>4, <1>6, <1>7
<1>8. CASE passes
  <2>1. /\ DOMAIN log = 1..(n + 1) /\ Len(log) = n + 1
        /\ \A i \in 1..n : log[i] = at[i]
        /\ log[n + 1] = now
    BY <1>1, <1>8
  <2>2. ASSUME NEW i \in 1..n
        PROVE  (n + 1 - i + 1) * Whole + (left - Whole) <= Bound(i)
    <3>1. n - i + 1 \in Nat /\ left \in Nat /\ (n - i + 1) + 1 = n + 1 - i + 1
      BY <1>1, <1>3
    <3> HIDE DEF Bound
    <3>2. ((n - i + 1) + 1) * Whole + (left - Whole) <= Bound(i)
      BY <1>4, <1>5, <1>8, <3>1, CallPays
    <3> QED
      BY <3>1, <3>2
  <2>3. Whole + (left - Whole) <= burst + (now - now) * Rate
    BY <1>1, <1>3, ServerConstants
  <2>4. \A i \in DOMAIN log :
          /\ log[i] <= c.at
          /\ (Len(log) - i + 1) * Whole + c.units <= burst + (c.at - log[i]) * Rate
    <3> SUFFICES ASSUME NEW i \in 1..(n + 1)
                 PROVE  /\ log[i] <= now
                        /\ (n + 1 - i + 1) * Whole + (left - Whole)
                             <= burst + (now - log[i]) * Rate
      BY <1>8, <2>1
    <3>1. CASE i = n + 1
      <4>1. n + 1 - i + 1 = 1 /\ 1 * Whole = Whole
        BY <1>1, <3>1
      <4> QED
        BY <2>1, <2>3, <3>1, <4>1
    <3>2. CASE i # n + 1
      <4>1. i \in 1..n
        BY <1>1, <3>2
      <4> QED
        BY <1>4, <2>1, <2>2, <4>1
    <3> QED
      BY <3>1, <3>2
  <2>5. Bounded(log)
    <3> SUFFICES ASSUME NEW i \in 1..(n + 1), NEW j \in 1..(n + 1), i <= j
                 PROVE  (j - i + 1) * Whole <= burst + (log[j] - log[i]) * Rate
      BY <2>1, SMTT(20) DEF Bounded
    <3>1. CASE j = n + 1
      <4> DEFINE x == (n + 1 - i + 1) * Whole
                 y == burst + (now - log[i]) * Rate
      <4>1. x + (left - Whole) <= y
        BY <1>8, <2>1, <2>4
      <4>2. x \in Int /\ y \in Int /\ left - Whole \in Nat
        <5>1. log[i] \in Nat
          BY <1>1, <2>1
        <5> QED
          BY <1>1, <1>3, <1>8, <5>1, ServerConstants, SMTT(20)
      <4> HIDE DEF x, y
      <4>3. x <= y
        BY <4>1, <4>2
      <4> QED
        BY <2>1, <3>1, <4>3 DEF x, y
    <3>2. CASE j # n + 1
      <4>1. i \in 1..n /\ j \in 1..n
        BY <1>1, <3>2
      <4> QED
        BY <1>1, <2>1, <4>1 DEF Bounded
    <3> QED
      BY <3>1, <3>2
  <2> QED
    BY <1>6, <2>4, <2>5
<1> QED
  BY <1>7, <1>8

LEMMA RateInit == Init => RateInv
BY DEF Init, RateInv, BucketPays, Bounded

LEMMA RateNext == ASSUME TypeInv, RateInv, [Next]_vars PROVE RateInv'
<1>1. /\ now \in Nat /\ now' \in Nat /\ now <= now'
      /\ buckets \in [Process -> [Token -> Bucket \cup {None}]]
      /\ spent \in [Process -> [Token -> Seq(Nat)]]
  BY RowsOnlyAge DEF TypeInv, TypeOK
<1>2. ASSUME NEW p \in Process, NEW t \in Token,
             buckets'[p][t] = buckets[p][t], spent'[p][t] = spent[p][t]
      PROVE  BucketPays(buckets[p][t], spent[p][t])' /\ Bounded(spent[p][t])'
  <2>1. BucketPays(buckets[p][t], spent[p][t]) /\ Bounded(spent[p][t])
    BY DEF RateInv
  <2>2. buckets[p][t] # None => buckets[p][t].at \in Nat
    BY <1>1 DEF Bucket
  <2>3. buckets[p][t] # None => buckets[p][t].at <= now'
    BY <1>1, <2>1, <2>2 DEF BucketPays
  <2> QED
    BY <1>2, <2>1, <2>3 DEF BucketPays, Bounded
<1>3. ASSUME NEW q \in Process, Stop(q)
      PROVE  RateInv'
  <2> SUFFICES ASSUME NEW p \in Process, NEW t \in Token
               PROVE  BucketPays(buckets[p][t], spent[p][t])' /\ Bounded(spent[p][t])'
    BY DEF RateInv
  <2>1. CASE p = q
    BY <1>1, <1>3, <2>1 DEF Stop, BucketPays, Bounded
  <2>2. CASE p # q
    BY <1>1, <1>2, <1>3, <2>2 DEF Stop
  <2> QED
    BY <2>1, <2>2
<1>4. ASSUME NEW c \in Client, Admit(c)
      PROVE  RateInv'
  <2> DEFINE q == call[c].server
             u == call[c].token
             left == Refilled(buckets[q][u])
             passes == left >= Whole
             kept == [units |-> IF passes THEN left - Whole ELSE left, at |-> now]
             log == IF passes THEN Append(spent[q][u], now) ELSE spent[q][u]
  <2>1. q \in Process /\ u \in Token
    BY <1>4 DEF Admit, TypeInv, TypeOK, Call
  <2>2. now' = now
    BY <1>4 DEF Admit
  <2>3. CASE buckets' = buckets /\ spent' = spent
    BY <1>2, <2>3 DEF RateInv
  <2>4. CASE /\ buckets' = [buckets EXCEPT ![q][u] = kept]
             /\ IF passes THEN spent' = [spent EXCEPT ![q][u] = Append(@, now)]
                          ELSE spent' = spent
    <3>1. left \in 0..Capacity * Whole
      BY <1>1, <2>1, RefillFits DEF TypeInv, CountedBefore
    <3>2. kept \in Bucket /\ kept.at = now /\ kept.units = IF passes THEN left - Whole ELSE left
      BY <1>1, <3>1, ServerConstants DEF Bucket
    <3>3. /\ buckets[q][u] \in Bucket \cup {None} /\ spent[q][u] \in Seq(Nat)
          /\ BucketPays(buckets[q][u], spent[q][u]) /\ Bounded(spent[q][u])
      BY <1>1, <2>1 DEF RateInv
    <3>4. /\ log # <<>> => kept # None
          /\ \A i \in DOMAIN log :
               /\ log[i] <= kept.at
               /\ (Len(log) - i + 1) * Whole + kept.units
                    <= Capacity * Whole + (kept.at - log[i]) * Rate
          /\ Bounded(log)
      <4> DEFINE go == passes
      <4>1. go \in BOOLEAN /\ (go => left >= Whole)
        OBVIOUS
      <4> HIDE DEF kept, q, u
      <4> QED
        BY <1>1, <3>2, <3>3, <4>1, BucketStep, ZenonT(40)
    <3> HIDE DEF kept, passes, left, q, u
    <3>5. spent' = [spent EXCEPT ![q][u] = log]
      BY <1>1, <2>1, <2>4
    <3> HIDE DEF log
    <3>6. buckets'[q][u] = kept /\ spent'[q][u] = log
      BY <1>1, <2>1, <2>4, <3>5
    <3>7. ASSUME NEW p \in Process, NEW t \in Token
          PROVE  BucketPays(buckets[p][t], spent[p][t])' /\ Bounded(spent[p][t])'
      <4>1. CASE p = q /\ t = u
        <5>1. now <= now
          BY <1>1
        <5> QED
          BY <2>2, <3>2, <3>4, <3>6, <4>1, <5>1 DEF BucketPays, Bounded
      <4>2. CASE ~(p = q /\ t = u)
        <5>1. buckets'[p][t] = buckets[p][t] /\ spent'[p][t] = spent[p][t]
          BY <1>1, <2>1, <2>4, <3>5, <4>2
        <5> QED
          BY <1>2, <5>1
      <4> QED
        BY <4>1, <4>2
    <3> QED
      BY <3>7 DEF RateInv
  <2> QED
    BY <1>4, <2>3, <2>4 DEF Admit
<1>5. \/ \E p \in Process : Stop(p)
      \/ \E c \in Client : Admit(c)
      \/ buckets' = buckets /\ spent' = spent
  BY DEF Next, Operator, Serve, Create, Revoke, Tick, Start, Arrive, ReadToken, Verify, AdmitOwn,
         Return, vars
<1>6. CASE buckets' = buckets /\ spent' = spent
  BY <1>2, <1>6 DEF RateInv
<1> QED
  BY <1>3, <1>4, <1>5, <1>6

(* TokenBucketLimiter: between any two calls of a token that one server let*)
(* pass there were not more than the burst and the refill in between.      *)
THEOREM RateIsBounded == Spec => []RateBounded
<1>1. Init => TypeInv /\ RateInv
  BY TypeInit, RateInit
<1>2. TypeInv /\ RateInv /\ [Next]_vars => (TypeInv /\ RateInv)'
  BY TypeNext, RateNext
<1>3. RateInv => RateBounded
  BY DEF RateInv, Bounded, RateBounded
<1> QED
  BY <1>1, <1>2, <1>3, PTL DEF Spec
=============================================================================
