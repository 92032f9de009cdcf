------------------------------- MODULE Server -------------------------------
(***************************************************************************)
(* The MCP server in front of the application (adapters/mcp_server.py) and *)
(* the bearer tokens it asks for (auth.py).  Tokens are created and revoked*)
(* by other processes while servers run, checking one takes the time of a  *)
(* slow hash, and a server decides when it starts whether it asks for      *)
(* tokens at all, counts calls in buckets of its own and keeps one         *)
(* application for every identity it has met.                              *)
(***************************************************************************)
EXTENDS Integers, Sequences, FiniteSets

CONSTANTS
  Process,    \* servers
  Own,        \* the identity the environment gives a server
  Token,      \* ids of tokens
  Grants,     \* what a token may be created for: [agent, workspace, scopes, expires]
  Client,     \* clients, each with one call at a time
  Tool,       \* the tools that are called
  Whole,      \* the units of one call in a bucket
  Capacity,   \* rate_limit_burst, in calls
  Rate,       \* rate_limit_per_second, in units for each tick of the clock
  MaxTime,    \* BOUND: ticks of the clock
  MaxCalls,   \* BOUND: calls that arrive
  MaxStarts,  \* BOUND: servers that are started
  None

(* The tools a server offers and the scope that each requires.             *)
Requires == [recall |-> "read", remember |-> "write", search |-> "read"]

ASSUME ServerConstants ==
  /\ \A g \in Grants : g.expires \in Nat \cup {None}
  /\ Whole \in Nat \ {0} /\ Capacity \in Nat \ {0} /\ Rate \in Nat \ {0}
  /\ MaxTime \in Nat /\ MaxCalls \in Nat /\ MaxStarts \in Nat
  /\ None \notin Token /\ Tool \subseteq DOMAIN Requires

Identity(g) == [agent |-> g.agent, workspace |-> g.workspace]

Identities == {Identity(g) : g \in Grants} \cup {Own}

VARIABLES
  now,      \* the clock
  tokens,   \* the rows of auth_tokens: the grant, whether revoked, whether used
  server,   \* a running server: where it listens and whether it asks for tokens
  buckets,  \* the buckets of a server: units left of a token, and when counted
  apps,     \* the applications a server has made, by the identity they were made for
  call,     \* what the call of a client is at
  calls,    \* calls that have arrived
  starts,   \* servers started
  spent     \* history: when a server has let calls of a token pass

vars == <<now, tokens, server, buckets, apps, call, calls, starts, spent>>

Row == [grant : Grants, revoked : BOOLEAN, used : BOOLEAN]

Bucket == [units : 0..Capacity * Whole, at : Nat]

Steps == {"arrived", "read", "verified", "running"}

Call == [server : Process, token : Token \cup {None}, tool : Tool, row : Row \cup {None},
         app : Identities \cup {None}, step : Steps, late : BOOLEAN]

(* The value for nothing at all is none of the records.                    *)
ASSUME NoneIsNoRecord == None \notin Row /\ None \notin Bucket

Init ==
  /\ now = 0
  /\ tokens = [t \in Token |-> None]
  /\ server = [p \in Process |-> None]
  /\ buckets = [p \in Process |-> [t \in Token |-> None]]
  /\ apps = [p \in Process |-> <<>>]
  /\ call = [c \in Client |-> None]
  /\ calls = 0
  /\ starts = 0
  /\ spent = [p \in Process |-> [t \in Token |-> <<>>]]

Expired(row) == row.grant.expires # None /\ row.grant.expires <= now

Usable(row) == row # None /\ ~row.revoked /\ ~Expired(row)

-----------------------------------------------------------------------------
(* cortex-mem token create and revoke, in processes of their own.          *)
Create(t, grant) ==
  /\ tokens[t] = None
  /\ grant.expires # None => grant.expires > now
  /\ tokens' = [tokens EXCEPT ![t] = [grant |-> grant, revoked |-> FALSE, used |-> FALSE]]
  /\ UNCHANGED <<now, server, buckets, apps, call, calls, starts, spent>>

Revoke(t) ==
  /\ tokens[t] # None /\ ~tokens[t].revoked
  /\ tokens' = [tokens EXCEPT ![t].revoked = TRUE]
  /\ UNCHANGED <<now, server, buckets, apps, call, calls, starts, spent>>

UsableCount == Cardinality({t \in Token : Usable(tokens[t])})

(* Seeded fault: certificates are enough to listen on other hosts.         *)
MayListenWithTls(remote, tls) == remote => tls

(* A server listens on other hosts only with TLS and a token to ask for.   *)
MayListen(remote, tls) == remote => UsableCount > 0 /\ tls

(* A server asks for tokens for as long as it runs if there is a usable one*)
(* when it starts; over stdio or without one it never does.                *)
Started(http, remote) ==
  [remote |-> http /\ remote, bearer |-> http /\ UsableCount > 0]

Start(p, http, remote, tls) ==
  /\ starts < MaxStarts
  /\ starts' = starts + 1
  /\ server[p] = None
  /\ http => MayListen(remote, tls)
  /\ server' = [server EXCEPT ![p] = Started(http, remote)]
  /\ UNCHANGED <<now, tokens, buckets, apps, call, calls, spent>>

(* A server goes away, and its calls, buckets and applications with it.    *)
Stop(p) ==
  /\ server[p] # None
  /\ server' = [server EXCEPT ![p] = None]
  /\ buckets' = [buckets EXCEPT ![p] = [t \in Token |-> None]]
  /\ apps' = [apps EXCEPT ![p] = <<>>]
  /\ spent' = [spent EXCEPT ![p] = [t \in Token |-> <<>>]]
  /\ call' = [c \in Client |->
       IF call[c] # None /\ call[c].server = p THEN None ELSE call[c]]
  /\ UNCHANGED <<now, tokens, calls, starts>>

-----------------------------------------------------------------------------
To(c, step) == call' = [call EXCEPT ![c] = [@ EXCEPT !.step = step]]
Refuse(c)   == call' = [call EXCEPT ![c] = None]

(* A call arrives, with a token where one is asked for; late is history:   *)
(* whether the token was revoked or had run out by then.                   *)
Arrive(c, p, t, tool) ==
  /\ calls < MaxCalls
  /\ calls' = calls + 1
  /\ call[c] = None /\ server[p] # None
  /\ server[p].bearer <=> t # None
  /\ call' = [call EXCEPT ![c] =
       [server |-> p, token |-> t, tool |-> tool, row |-> None, app |-> None,
        step |-> IF t = None THEN "verified" ELSE "arrived",
        late |-> t # None /\ tokens[t] # None /\ ~Usable(tokens[t])]]
  /\ UNCHANGED <<now, tokens, server, buckets, apps, starts, spent>>

(* _authenticate_sync reads the row, spends a while hashing the secret ... *)
ReadToken(c) ==
  /\ call[c] # None /\ call[c].step = "arrived"
  /\ IF tokens[call[c].token] = None THEN Refuse(c)
     ELSE call' = [call EXCEPT ![c] = [@ EXCEPT !.row = tokens[call[c].token], !.step = "read"]]
  /\ UNCHANGED <<now, tokens, server, buckets, apps, calls, starts, spent>>

(* Seeded fault: the row's expiry is looked at and its revocation is not.  *)
VerifyUnexpired(c) ==
  /\ call[c] # None /\ call[c].step = "read"
  /\ IF Expired(call[c].row) THEN Refuse(c) /\ UNCHANGED tokens
     ELSE /\ To(c, "verified")
          /\ tokens' = [tokens EXCEPT ![call[c].token].used = TRUE]
  /\ UNCHANGED <<now, server, buckets, apps, calls, starts, spent>>

(* ... and decides on the row it has read, by the clock of now.            *)
Verify(c) ==
  /\ call[c] # None /\ call[c].step = "read"
  /\ IF ~Usable(call[c].row) THEN Refuse(c) /\ UNCHANGED tokens
     ELSE /\ To(c, "verified")
          /\ tokens' = [tokens EXCEPT ![call[c].token].used = TRUE]
  /\ UNCHANGED <<now, server, buckets, apps, calls, starts, spent>>

-----------------------------------------------------------------------------
Least(a, b) == IF a < b THEN a ELSE b

(* Seeded fault: a bucket fills without end.                               *)
RefilledUncapped(b) ==
  IF b = None THEN Capacity * Whole ELSE b.units + (now - b.at) * Rate

(* What a bucket holds by now, the first call finding it full.             *)
Refilled(b) ==
  IF b = None THEN Capacity * Whole
  ELSE Least(Capacity * Whole, b.units + (now - b.at) * Rate)

(* Seeded fault: an application is kept for an agent in any workspace.     *)
KeyOfAgent(id) == id.agent

(* scope_key, by which applications are kept.                              *)
Key(id) == <<id.agent, id.workspace>>

Kept(p, id) == IF Key(id) \in DOMAIN apps[p] THEN apps[p][Key(id)] ELSE id

(* application_for_request: the scope of the tool, then the bucket, then   *)
(* the application of the token's identity, which may have to be made.     *)
Admit(c) ==
  LET p == call[c].server
      t == call[c].token
      id == Identity(call[c].row.grant)
      left == Refilled(buckets[p][t])
      passes == left >= Whole
  IN
  /\ call[c] # None /\ call[c].step = "verified" /\ call[c].token # None
  /\ IF Requires[call[c].tool] \notin call[c].row.grant.scopes
     THEN Refuse(c) /\ UNCHANGED <<buckets, apps, spent>>
     ELSE /\ buckets' = [buckets EXCEPT ![p][t] =
               [units |-> IF passes THEN left - Whole ELSE left, at |-> now]]
          /\ IF ~passes THEN Refuse(c) /\ UNCHANGED <<apps, spent>>
             ELSE /\ spent' = [spent EXCEPT ![p][t] = Append(@, now)]
                  /\ call' = [call EXCEPT ![c] = [@ EXCEPT
                       !.app = IF id = Own THEN Own ELSE Kept(p, id), !.step = "running"]]
                  /\ apps' = IF id = Own THEN apps
                             ELSE [apps EXCEPT ![p] =
                                [k \in DOMAIN @ \cup {Key(id)} |->
                                   IF k = Key(id) THEN Kept(p, id) ELSE @[k]]]
  /\ UNCHANGED <<now, tokens, server, calls, starts>>

(* A server that asks for no token serves its own identity.                *)
AdmitOwn(c) ==
  /\ call[c] # None /\ call[c].step = "verified" /\ call[c].token = None
  /\ call' = [call EXCEPT ![c] = [@ EXCEPT !.app = Own, !.step = "running"]]
  /\ UNCHANGED <<now, tokens, server, buckets, apps, calls, starts, spent>>

(* The handler calls the application and returns.                          *)
Return(c) ==
  /\ call[c] # None /\ call[c].step = "running"
  /\ Refuse(c)
  /\ UNCHANGED <<now, tokens, server, buckets, apps, calls, starts, spent>>

Tick ==
  /\ now < MaxTime
  /\ now' = now + 1
  /\ UNCHANGED <<tokens, server, buckets, apps, call, calls, starts, spent>>

-----------------------------------------------------------------------------
Operator ==
  \/ \E t \in Token : Revoke(t) \/ \E grant \in Grants : Create(t, grant)
  \/ \E p \in Process : Stop(p) \/ \E http, remote, tls \in BOOLEAN : Start(p, http, remote, tls)

Serve(c) ==
  \/ \E p \in Process, t \in Token \cup {None}, tool \in Tool : Arrive(c, p, t, tool)
  \/ ReadToken(c) \/ Verify(c) \/ Admit(c) \/ AdmitOwn(c) \/ Return(c)

Next == Operator \/ Tick \/ \E c \in Client : Serve(c)

Spec == Init /\ [][Next]_vars

-----------------------------------------------------------------------------
TypeOK ==
  /\ now \in 0..MaxTime /\ calls \in 0..MaxCalls /\ starts \in 0..MaxStarts
  /\ tokens \in [Token -> Row \cup {None}]
  /\ server \in [Process -> [remote : BOOLEAN, bearer : BOOLEAN] \cup {None}]
  /\ buckets \in [Process -> [Token -> Bucket \cup {None}]]
  /\ apps \in [Process -> UNION {[K -> Identities] : K \in SUBSET {Key(id) : id \in Identities}}]
  /\ call \in [Client -> Call \cup {None}]
  /\ spent \in [Process -> [Token -> Seq(Nat)]]

Passed == {c \in Client : call[c] # None /\ call[c].step \in {"verified", "running"}}
Running == {c \in Client : call[c] # None /\ call[c].step = "running"}

(* A token that was revoked or had run out when a call arrived does not let*)
(* that call pass, however the check and the revocation, in another        *)
(* process, follow each other.                                             *)
UsableWhenItArrived == \A c \in Passed : ~call[c].late

(* A call is served by the application of exactly the agent and workspace  *)
(* its token is bound to, within the token's scopes, whatever identities   *)
(* the server has served before; without a token only as the server itself,*)
(* and never on a server that other hosts can reach.                       *)
ServedAsBound ==
  \A c \in Running :
    IF call[c].token = None
    THEN call[c].app = Own /\ ~server[call[c].server].remote
    ELSE LET grant == tokens[call[c].token].grant IN
         call[c].app = Identity(grant) /\ Requires[call[c].tool] \in grant.scopes

(* Between any two calls of a token that one server let pass there were not*)
(* more than the burst and what has been refilled since the first of them. *)
RateBounded ==
  \A p \in Process, t \in Token :
    LET at == spent[p][t] IN
    \A i, j \in DOMAIN at :
      i <= j => (j - i + 1) * Whole <= Capacity * Whole + (at[j] - at[i]) * Rate
=============================================================================
