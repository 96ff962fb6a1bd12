---------------------------- MODULE SourceAccess ----------------------------
(***************************************************************************)
(* How NestIdP gets at an identity source: the access tokens that runs     *)
(* share through a cache and single-flight exchanges, the proxy agent that *)
(* the calls of a connection share, the retry after a 401, the connection  *)
(* tests of an administrator, and the updates and the deletion of the      *)
(* connection, which invalidate what was obtained under the old settings.  *)
(*                                                                         *)
(* One connection is followed: keys, entries and agents of different       *)
(* connections are disjoint.  A key of the token cache stands for the      *)
(* credentials it is the hash of; every new ciphertext is a new key.  A    *)
(* request over HTTP is a step that answers in any way.  Code between two  *)
(* awaits is one step, and so is the end of an exchange with everything    *)
(* that waits for it.  The token endpoint and the source are reached       *)
(* through the proxy alike.                                                *)
(***************************************************************************)
EXTENDS Naturals, FiniteSets

CONSTANTS
    Runs,      \* sync runs of the connection in progress at once: a real one and dry runs
    Tests,     \* tests of the connection in progress at once
    Proxies,   \* proxy settings
    MaxEdits,  \* bound: updates and deletions of the connection
    None

ASSUME AccessConstants ==
    /\ Runs \cap Tests = {} /\ MaxEdits \in Nat
    /\ None \notin Nat \cup Proxies \cup Runs \cup Tests

Calls == Runs \cup Tests
Keys == 1..MaxEdits + 1

VARIABLES
    row,        \* the connection's settings, None once it is deleted
    cache,      \* cache[k]: the token cached under key k, as the credentials it was obtained with
    inflight,   \* inflight[k]: the exchange that later callers of key k join
    lastToken,  \* lastTokenAt: the credentials the last token was obtained with
    exchange,   \* exchange[x]: the request for a token that x started
    agent,      \* the cached proxy agent, as the settings it was built for
    holds,      \* holds[x]: whether x has an agent: the cached one, until it leaves the cache and is closed
    call,       \* call[x]: a run or a test in progress
    admin,      \* the administrator's update or deletion
    edits,      \* bounded counter
    stragglers  \* history: keys that calls in progress held at an invalidation

tokens == <<cache, inflight, lastToken, exchange>>
agents == <<agent, holds>>
vars == <<row, tokens, agents, call, admin, edits, stragglers>>

-----------------------------------------------------------------------------
\* cred: the key of the OAuth credentials, None with a static bearer token.
Row == [cred: Keys \cup {None}, proxy: Proxies \cup {None}]
NoRow == [cred |-> None, proxy |-> None]

\* key: that of its entry, and the credentials it uses; diag: for a test, outside the single flight; dropped:
\* an invalidation removed it from inflight.
Exchange == [key: Keys, cred: Keys, diag: BOOLEAN, dropped: BOOLEAN]

ASSUME NoneIsNoRecord == None \notin Row \cup Exchange

\* snap: the row that was loaded; tok: the credentials its token was obtained with; on: the exchange waited for;
\* calm: history, no settings of the proxy but those in snap were in use since it was loaded.
Call == [pc: {"idle", "loaded", "token", "users", "retoken", "rest", "diagnose", "probe"},
         snap: Row, tok: Keys \cup {None}, on: Calls \cup {None}, calm: BOOLEAN]
NoCall == [pc |-> "idle", snap |-> NoRow, tok |-> None, on |-> None, calm |-> FALSE]
Active == {x \in Calls : call[x].pc # "idle"}

\* busy: the row is written and not yet invalidated; proxied: the settings of the proxy are part of the write.
Admin == [busy: BOOLEAN, proxied: BOOLEAN]
NoAdmin == [busy |-> FALSE, proxied |-> FALSE]

-----------------------------------------------------------------------------
(* The proxy agent.                                                        *)

\* Mutant: every call builds an agent of its own.
MutReusable(p) == FALSE

\* The cached agent serves the same settings.
Reusable(p) == agent = p

Closed == [x \in Calls |-> IF holds[x] = "cached" THEN "closed" ELSE holds[x]]
Kept(p) == IF p = None \/ Reusable(p) THEN holds ELSE Closed

\* resolve: no agent without a proxy, the cached one if it fits, or else a new one that supersedes and
\* closes the cached one.
Resolve(p) == agent' = (IF p = None THEN agent ELSE p) /\ holds' = Kept(p)

\* The same for a call that keeps the agent for its requests.
ResolveFor(x, p) ==
    /\ agent' = IF p = None THEN agent ELSE p
    /\ holds' = [Kept(p) EXCEPT ![x] = IF p = None THEN "none" ELSE "cached"]

-----------------------------------------------------------------------------
(* Tokens.                                                                 *)

\* Mutant: the cache is keyed by the connection alone.
MutKey(snap) == 1

\* cacheKey.
Key(snap) == snap.cred

Set(x, c) == call' = [call EXCEPT ![x] = c]

\* The calls in xs end.
End(xs) ==
    /\ call' = [x \in Calls |-> IF x \in xs THEN NoCall ELSE call[x]]
    /\ holds' = [x \in Calls |-> IF x \in xs THEN "none" ELSE holds[x]]

Begin(x, snap, diag) ==
    exchange' = [exchange EXCEPT ![x] = [key |-> Key(snap), cred |-> snap.cred, diag |-> diag, dropped |-> FALSE]]

\* getAccessToken without a usable entry: join the exchange in flight, or start one.
Obtain(x, c) ==
    LET k == Key(c.snap) IN
    IF inflight[k] # None
    THEN Set(x, [c EXCEPT !.on = inflight[k]]) /\ UNCHANGED <<inflight, exchange, agents>>
    ELSE /\ Set(x, [c EXCEPT !.on = x])
         /\ Begin(x, c.snap, FALSE) /\ inflight' = [inflight EXCEPT ![k] = x]
         /\ Resolve(c.snap.proxy)

\* Mutant: whoever finishes removes the entry, be it his own or not.
MutSettled(x, k) == [inflight EXCEPT ![k] = None]

\* An exchange removes its own entry only.
Settled(x, k) == IF inflight[k] = x THEN [inflight EXCEPT ![k] = None] ELSE inflight

\* Mutant: an exchange that was invalidated does not answer.
MutWaiting(x) == {y \in Calls : call[y].on = x /\ ~exchange[x].dropped}

Waiting(x) == {y \in Calls : call[y].on = x}

\* What follows for those who wait: the fetch of the users, or trying it once more, and the rest.
Granted(c, t) == [c EXCEPT !.tok = t, !.on = None, !.pc = IF c.pc = "token" THEN "users" ELSE "rest"]

\* An exchange brings a token, which is cached.  A test goes on to ask the source, or was about the token only.
ExchangeSucceeds(x) ==
    /\ exchange[x] # None
    /\ LET k == exchange[x].key  t == exchange[x].cred IN
       /\ cache' = [cache EXCEPT ![k] = t] /\ lastToken' = t
       /\ exchange' = [exchange EXCEPT ![x] = None]
       /\ IF exchange[x].diag
          THEN /\ UNCHANGED inflight
               /\ \/ End({x}) /\ UNCHANGED agent
                  \/ /\ Set(x, [call[x] EXCEPT !.pc = "probe", !.on = None, !.tok = t])
                     /\ ResolveFor(x, call[x].snap.proxy)
          ELSE /\ inflight' = Settled(x, k)
               /\ call' = [y \in Calls |-> IF y \in Waiting(x) THEN Granted(call[y], t) ELSE call[y]]
               /\ UNCHANGED agents
    /\ UNCHANGED <<row, admin, edits, stragglers>>

\* An exchange fails: all who wait fail with it.
ExchangeFails(x) ==
    /\ exchange[x] # None
    /\ End(Waiting(x))
    /\ inflight' = IF exchange[x].diag THEN inflight ELSE Settled(x, exchange[x].key)
    /\ exchange' = [exchange EXCEPT ![x] = None]
    /\ UNCHANGED <<row, cache, lastToken, agent, admin, edits, stragglers>>

-----------------------------------------------------------------------------
(* A run.                                                                  *)

\* Nobody uses other settings of the proxy, and no change of them waits for its invalidation.
Calm == /\ \A x \in Active : call[x].snap.proxy = row.proxy
        /\ ~admin.proxied

Loaded(pc) == [NoCall EXCEPT !.pc = pc, !.snap = row, !.calm = Calm]

\* beginRun loads the connection and resolves the agent, once for the run.
LoadRun(r) ==
    /\ call[r].pc = "idle" /\ row # None
    /\ Set(r, Loaded("loaded")) /\ ResolveFor(r, row.proxy)
    /\ UNCHANGED <<row, tokens, admin, edits, stragglers>>

\* resolveBearer: the static token, or the cached one, or, without one that has not expired, an exchange.
AskToken(r) ==
    /\ call[r].pc = "loaded"
    /\ LET c == call[r] IN
       \/ /\ c.snap.cred = None
          /\ Set(r, [c EXCEPT !.pc = "users"])
          /\ UNCHANGED <<inflight, exchange, agents>>
       \/ /\ c.snap.cred # None /\ cache[Key(c.snap)] # None
          /\ Set(r, [c EXCEPT !.pc = "users", !.tok = cache[Key(c.snap)]])
          /\ UNCHANGED <<inflight, exchange, agents>>
       \/ /\ c.snap.cred # None
          /\ Obtain(r, [c EXCEPT !.pc = "token"])
    /\ UNCHANGED <<row, cache, lastToken, admin, edits, stragglers>>

\* The users arrive: the rest is fetched with the same token and without another refresh.
UsersArrive(r) ==
    /\ call[r].pc = "users"
    /\ Set(r, [call[r] EXCEPT !.pc = "rest"])
    /\ UNCHANGED <<row, tokens, agents, admin, edits, stragglers>>

\* A 401, which any token of an exchange may meet: the entry goes, whoever stored it, and with a new token
\* the fetch is tried once more.
Unauthorized(r) ==
    /\ call[r].pc = "users" /\ call[r].tok # None
    /\ cache' = [cache EXCEPT ![Key(call[r].snap)] = None]
    /\ Obtain(r, [call[r] EXCEPT !.pc = "retoken", !.tok = None])
    /\ UNCHANGED <<row, lastToken, admin, edits, stragglers>>

\* The run ends, or fails on any other answer.
EndRun(r) ==
    /\ call[r].pc \in {"loaded", "users", "rest"}
    /\ End({r})
    /\ UNCHANGED <<row, tokens, agent, admin, edits, stragglers>>

-----------------------------------------------------------------------------
(* Tests of the connection.                                                *)

\* Mutant: the exchange of a test is registered for others to join.
MutBeginDiagnosis(t) ==
    /\ call[t].pc = "idle" /\ row # None /\ row.cred # None
    /\ Set(t, [Loaded("diagnose") EXCEPT !.on = t]) /\ Resolve(row.proxy)
    /\ Begin(t, row, TRUE) /\ inflight' = [inflight EXCEPT ![Key(row)] = t]
    /\ UNCHANGED <<row, cache, lastToken, admin, edits, stragglers>>

\* testToken, and testConnection with OAuth: an exchange of its own, not joined with others.
BeginDiagnosis(t) ==
    /\ call[t].pc = "idle" /\ row # None /\ row.cred # None
    /\ Set(t, [Loaded("diagnose") EXCEPT !.on = t]) /\ Resolve(row.proxy)
    /\ Begin(t, row, TRUE)
    /\ UNCHANGED <<row, cache, inflight, lastToken, admin, edits, stragglers>>

\* testProxy, and testConnection with a static token.
BeginProbe(t) ==
    /\ call[t].pc = "idle" /\ row # None
    /\ Set(t, Loaded("probe")) /\ ResolveFor(t, row.proxy)
    /\ UNCHANGED <<row, tokens, admin, edits, stragglers>>

EndProbe(t) ==
    /\ call[t].pc = "probe"
    /\ End({t})
    /\ UNCHANGED <<row, tokens, agent, admin, edits, stragglers>>

-----------------------------------------------------------------------------
(* The administrator.                                                      *)

\* update and delete: what they read and check before the write changes nothing, and without the write
\* nothing follows.  New OAuth credentials have a new key.
WriteRow ==
    /\ ~admin.busy /\ row # None /\ edits < MaxEdits
    /\ edits' = edits + 1
    /\ \E new \in {None} \cup [cred: {row.cred, None, edits' + 1}, proxy: Proxies \cup {None}], proxied \in BOOLEAN :
          /\ (new = None => proxied) /\ (~proxied => new.proxy = row.proxy)
          /\ row' = new
          /\ admin' = [busy |-> TRUE, proxied |-> proxied]
          /\ call' = [x \in Calls |-> [call[x] EXCEPT !.calm = @ /\ ~proxied]]
    /\ UNCHANGED <<tokens, agents, stragglers>>

\* Mutant: only the timestamp is forgotten.
MutInvalidated == cache

Invalidated == [k \in Keys |-> None]

\* The continuation of the write: the agent goes if its settings were touched, the tokens always.
Invalidate ==
    /\ admin.busy
    /\ IF admin.proxied /\ agent # None
       THEN agent' = None /\ holds' = Closed
       ELSE UNCHANGED agents
    /\ cache' = Invalidated /\ inflight' = [k \in Keys |-> None] /\ lastToken' = None
    /\ exchange' = [x \in Calls |-> IF exchange[x] = None THEN None ELSE [exchange[x] EXCEPT !.dropped = TRUE]]
    /\ stragglers' = stragglers \cup {call[x].snap.cred : x \in Active}
    /\ admin' = NoAdmin
    /\ UNCHANGED <<row, call, edits>>

-----------------------------------------------------------------------------
Init ==
    /\ row \in [cred: {None, 1}, proxy: Proxies \cup {None}]
    /\ cache = [k \in Keys |-> None] /\ inflight = [k \in Keys |-> None]
    /\ lastToken = None /\ exchange = [x \in Calls |-> None]
    /\ agent = None /\ holds = [x \in Calls |-> "none"]
    /\ call = [x \in Calls |-> NoCall]
    /\ admin = NoAdmin /\ edits = 0 /\ stragglers = {}

ExchangeStep(x) == ExchangeSucceeds(x) \/ ExchangeFails(x)
RunStep(r) == AskToken(r) \/ UsersArrive(r) \/ Unauthorized(r) \/ EndRun(r)

Next ==
    \/ \E r \in Runs : LoadRun(r) \/ RunStep(r)
    \/ \E t \in Tests : BeginDiagnosis(t) \/ BeginProbe(t) \/ EndProbe(t)
    \/ \E x \in Calls : ExchangeStep(x)
    \/ WriteRow \/ Invalidate

Spec == Init /\ [][Next]_vars

\* Requests have a time limit: an exchange and a fetch are answered, and a run goes on.
FairSpec ==
    /\ Spec
    /\ \A r \in Runs : WF_vars(RunStep(r))
    /\ \A x \in Calls : WF_vars(ExchangeStep(x))

-----------------------------------------------------------------------------
TypeOK ==
    /\ row \in Row \cup {None}
    /\ cache \in [Keys -> Keys \cup {None}] /\ inflight \in [Keys -> Runs \cup {None}]
    /\ lastToken \in Keys \cup {None}
    /\ exchange \in [Calls -> Exchange \cup {None}]
    /\ agent \in Proxies \cup {None} /\ holds \in [Calls -> {"none", "cached", "closed"}]
    /\ call \in [Calls -> Call]
    /\ admin \in Admin /\ edits \in 0..MaxEdits /\ stragglers \subseteq Keys \cup {None}

\* A call works with the settings it loaded: whatever is updated, cached or joined meanwhile, the token it
\* presents was obtained with its credentials, and its agent was built for its proxy.
UsesLoadedSettings ==
    \A x \in Active :
        /\ call[x].tok # None => call[x].tok = call[x].snap.cred
        /\ holds[x] = "cached" => agent = call[x].snap.proxy

\* At most one exchange that the cache knows of is under way for the same credentials, also when an
\* exchange that an invalidation made it forget ends in between.
SingleFlight ==
    \A x, y \in Calls : x # y /\ exchange[x] # None /\ exchange[y] # None =>
        \/ exchange[x].diag \/ exchange[y].diag
        \/ exchange[x].dropped \/ exchange[y].dropped
        \/ exchange[x].key # exchange[y].key

\* Tokens of superseded credentials, or of a deleted connection, are in the cache only if a call that
\* had loaded those credentials was in progress when they were invalidated.
StaleOnlyFromStragglers ==
    ~admin.busy =>
        \A k \in Keys \ stragglers :
            (row = None \/ row.cred # k) => cache[k] = None /\ lastToken # k

\* What the comment on invalidate says of it: a deleted connection leaves no entry behind.
DeletedLeavesNothing ==
    row = None /\ ~admin.busy /\ Active = {} => \A k \in Keys : cache[k] = None

\* The agent a call was given is not closed before the call ends, as long as no settings of the proxy but
\* those it loaded are in use.
AgentSurvives == \A x \in Active : call[x].calm => holds[x] # "closed"

\* Every run ends: whoever joined an exchange is answered, also when the connection is updated or deleted
\* meanwhile.
EveryRunReturns == \A r \in Runs : call[r].pc # "idle" ~> call[r].pc = "idle"
=============================================================================
