------------------------ MODULE SourceAccess_proofs ------------------------
(***************************************************************************)
(* Safety of SourceAccess for every number of runs, tests, proxy settings  *)
(* and edits: types, the credentials and agents calls use, single flight,  *)
(* what an invalidation leaves, and the life of an agent.                  *)
(***************************************************************************)
EXTENDS SourceAccess, TLAPS

USE AccessConstants, NoneIsNoRecord

\* What a call waits for is under way for its credentials; a call without anything in progress has no agent.
CallsOK ==
    \A x \in Calls :
        /\ call[x].on # None <=> call[x].pc \in {"token", "retoken", "diagnose"}
        /\ call[x].on # None => /\ exchange[call[x].on] # None
                                /\ exchange[call[x].on].cred = call[x].snap.cred
        /\ call[x].tok # None => call[x].tok = call[x].snap.cred
        /\ call[x].pc = "idle" => holds[x] = "none"
        /\ holds[x] = "cached" => agent = call[x].snap.proxy

\* Whoever began an exchange waits for it, a test alone; the single flight knows of it unless it was dropped.
ExchangesOK ==
    \A x \in Calls : exchange[x] # None =>
        /\ call[x].on = x
        /\ exchange[x].cred = exchange[x].key
        /\ exchange[x].diag <=> x \in Tests
        /\ x \in Tests => \A y \in Calls : call[y].on = x => y = x
        /\ exchange[x].diag \/ exchange[x].dropped \/ inflight[exchange[x].key] = x

KeysOK ==
    \A k \in Keys :
        /\ cache[k] # None => cache[k] = k
        /\ inflight[k] # None => exchange[inflight[k]] # None /\ exchange[inflight[k]].key = k

\* Between two writes, calls have the credentials of the row, or their key is in stragglers.
CredentialsOK ==
    ~admin.busy =>
        \A x \in Active : call[x].snap.cred \in stragglers \/ (row # None /\ row.cred = call[x].snap.cred)

\* Who is calm shares the settings of the proxy with the row and with everybody.
CalmOK ==
    \A x \in Active : call[x].calm =>
        /\ row # None /\ ~admin.proxied
        /\ \A y \in Active : call[y].snap.proxy = row.proxy

AccessInv == TypeOK /\ CallsOK /\ ExchangesOK /\ KeysOK

LEMMA RecordTypes ==
    /\ NoRow \in [cred: Keys \cup {None}, proxy: Proxies \cup {None}] /\ NoCall \in Call /\ NoAdmin \in Admin
    /\ NoCall.pc = "idle" /\ NoCall.on = None /\ NoCall.tok = None /\ NoCall.calm = FALSE
    /\ NoAdmin.busy = FALSE /\ NoAdmin.proxied = FALSE
    /\ None \notin Calls /\ None \notin Keys /\ None \notin Proxies
    /\ Runs \subseteq Calls /\ Tests \subseteq Calls
    /\ NoRow \in Row
  BY DEF NoRow, Row, NoCall, Call, NoAdmin, Admin, Calls, Keys

LEMMA InitAccessInv == Init => AccessInv /\ CredentialsOK /\ CalmOK
<1> SUFFICES ASSUME Init PROVE AccessInv /\ CredentialsOK /\ CalmOK
  OBVIOUS
<1>1. TypeOK
  <2>1. row \in Row
    BY DEF Init, Row, Keys
  <2>2. call \in [Calls -> Call] /\ admin \in Admin
    BY RecordTypes DEF Init
  <2> QED BY <2>1, <2>2 DEF Init, TypeOK, Keys
<1>2. CallsOK /\ ExchangesOK /\ KeysOK
  BY RecordTypes DEF Init, CallsOK, ExchangesOK, KeysOK
<1>3. Active = {}
  BY RecordTypes DEF Init, Active
<1> QED BY <1>1, <1>2, <1>3 DEF AccessInv, CredentialsOK, CalmOK

-----------------------------------------------------------------------------
(* The agent.                                                              *)

\* An agent that leaves the cache is closed; nobody else's changes.
AgentKept(y) ==
    /\ holds'[y] = "none" <=> holds[y] = "none"
    /\ holds'[y] = "cached" => holds[y] = "cached" /\ agent' = agent
    /\ holds'[y] = "closed" => holds[y] = "closed" \/ (holds[y] = "cached" /\ agent' # agent)

LEMMA ResolveEffect ==
  ASSUME TypeOK, NEW p \in Proxies \cup {None}, Resolve(p)
  PROVE  /\ agent' \in Proxies \cup {None} /\ holds' \in [Calls -> {"none", "cached", "closed"}]
         /\ \A y \in Calls : AgentKept(y)
  BY DEF TypeOK, Resolve, Kept, Closed, Reusable, AgentKept

LEMMA ResolveForEffect ==
  ASSUME TypeOK, NEW x \in Calls, NEW p \in Proxies \cup {None}, ResolveFor(x, p)
  PROVE  /\ agent' = IF p = None THEN agent ELSE p
         /\ holds' \in [Calls -> {"none", "cached", "closed"}]
         /\ holds'[x] = IF p = None THEN "none" ELSE "cached"
         /\ \A y \in Calls \ {x} : AgentKept(y)
<1>1. holds \in [Calls -> {"none", "cached", "closed"}]
  BY DEF TypeOK
<1>2. /\ Kept(p) \in [Calls -> {"none", "cached", "closed"}]
      /\ holds' = [Kept(p) EXCEPT ![x] = IF p = None THEN "none" ELSE "cached"]
      /\ agent' = IF p = None THEN agent ELSE p
  BY <1>1 DEF ResolveFor, Kept, Closed
<1>3. \A y \in Calls \ {x} : holds'[y] = Kept(p)[y]
  BY <1>2
<1> QED BY <1>1, <1>2, <1>3 DEF Kept, Closed, Reusable, AgentKept

\* A call that has just loaded the row gets an agent for it.
LEMMA LoadAccessInv ==
  ASSUME AccessInv, NEW x \in Calls, NEW pc \in {"loaded", "probe"}, call[x].pc = "idle", row # None,
         Set(x, Loaded(pc)), ResolveFor(x, row.proxy), UNCHANGED <<row, tokens, admin, edits, stragglers>>
  PROVE  AccessInv'
<1> USE DEF AccessInv, tokens
<1>1. row \in Row /\ row.proxy \in Proxies \cup {None}
  BY DEF TypeOK, Row
<1>2. /\ Loaded(pc) \in Call /\ Loaded(pc).pc = pc /\ Loaded(pc).snap = row /\ Loaded(pc).tok = None
      /\ Loaded(pc).on = None
  <2>1. Calm \in BOOLEAN
    BY DEF Calm
  <2> QED BY <1>1, <2>1 DEF Loaded, NoCall, Call
<1>3. call' = [call EXCEPT ![x] = Loaded(pc)] /\ call \in [Calls -> Call]
  BY DEF Set, TypeOK
<1>4. /\ call' \in [Calls -> Call] /\ call'[x] = Loaded(pc)
      /\ \A y \in Calls \ {x} : call'[y] = call[y]
  BY <1>2, <1>3
<1>5. /\ agent' = IF row.proxy = None THEN agent ELSE row.proxy
      /\ holds' \in [Calls -> {"none", "cached", "closed"}]
      /\ holds'[x] = IF row.proxy = None THEN "none" ELSE "cached"
      /\ \A y \in Calls \ {x} : AgentKept(y)
  BY <1>1, ResolveForEffect
<1>6. TypeOK'
  BY <1>1, <1>4, <1>5 DEF TypeOK
<1>7. CallsOK'
  BY <1>2, <1>4, <1>5 DEF CallsOK, AgentKept
<1>8. call[x].on = None
  BY DEF CallsOK
<1>9. ExchangesOK'
  BY <1>2, <1>4, <1>8, RecordTypes DEF ExchangesOK
<1>10. KeysOK'
  BY DEF KeysOK
<1> QED BY <1>6, <1>7, <1>9, <1>10

\* A call that waits for nothing goes on, as d, with whatever else it did to its entry in the cache.
LEMMA MoveAccessInv ==
  ASSUME AccessInv, NEW x \in Calls, NEW d \in Call, Set(x, d),
         d.pc \notin {"idle", "token", "retoken", "diagnose"}, d.snap = call[x].snap, d.on = None,
         call[x].pc # "idle", call[x].on = None,
         d.tok # None => d.tok = d.snap.cred,
         UNCHANGED <<row, tokens, agents, admin, edits, stragglers>>
  PROVE  AccessInv'
<1> USE DEF AccessInv, tokens, agents
<1>1. /\ call' \in [Calls -> Call] /\ call'[x] = d
      /\ \A y \in Calls \ {x} : call'[y] = call[y]
  BY DEF Set, TypeOK
<1>2. TypeOK' /\ KeysOK'
  BY <1>1 DEF TypeOK, KeysOK
<1>3. CallsOK' /\ ExchangesOK'
  BY <1>1, RecordTypes DEF CallsOK, ExchangesOK
<1> QED BY <1>2, <1>3

-----------------------------------------------------------------------------
(* Exchanges.                                                              *)

LEMMA BeginEffect ==
  ASSUME AccessInv, NEW x \in Calls, NEW snap \in Row, snap.cred # None, NEW diag \in BOOLEAN, Begin(x, snap, diag)
  PROVE  /\ exchange' \in [Calls -> Exchange \cup {None}]
         /\ exchange'[x] # None /\ exchange'[x].key = snap.cred /\ exchange'[x].cred = snap.cred
         /\ exchange'[x].diag = diag /\ exchange'[x].dropped = FALSE
         /\ \A y \in Calls \ {x} : exchange'[y] = exchange[y]
<1> DEFINE e == [key |-> Key(snap), cred |-> snap.cred, diag |-> diag, dropped |-> FALSE]
<1>1. snap.cred \in Keys
  BY DEF Row
<1>2. e \in Exchange /\ e.key = snap.cred /\ e.cred = snap.cred /\ e.diag = diag /\ e.dropped = FALSE
  BY <1>1 DEF Exchange, Key
<1>3. exchange' = [exchange EXCEPT ![x] = e] /\ exchange \in [Calls -> Exchange \cup {None}]
  BY DEF Begin, AccessInv, TypeOK
<1> HIDE DEF e
<1> QED BY <1>2, <1>3

\* A run that waits for nothing joins an exchange or begins one.
LEMMA ObtainAccessInv ==
  ASSUME AccessInv, NEW r \in Runs, NEW c \in Call, Obtain(r, c), c.pc \in {"token", "retoken"},
         c.snap = call[r].snap, c.on = None, c.snap.cred # None, c.tok # None => c.tok = c.snap.cred,
         call[r].pc # "idle", call[r].on = None,
         cache' \in [Keys -> Keys \cup {None}], \A k \in Keys : cache'[k] \in {None, cache[k]},
         UNCHANGED <<row, lastToken, admin, edits, stragglers>>
  PROVE  AccessInv'
<1> USE DEF AccessInv
<1> DEFINE k == c.snap.cred
<1>1. r \in Calls /\ r \notin Tests /\ c.snap \in Row /\ k \in Keys
  BY DEF Calls, Call, Row
<1>2. call \in [Calls -> Call] /\ inflight \in [Keys -> Runs \cup {None}] /\ c.snap.proxy \in Proxies \cup {None}
  BY <1>1 DEF TypeOK, Row
<1>3. exchange[r] = None /\ \A y \in Calls : call[y].on # r
  BY <1>1, RecordTypes DEF CallsOK, ExchangesOK
<1>4. CASE inflight[k] # None
  <2> DEFINE d == [c EXCEPT !.on = inflight[k]]
  <2>1. inflight[k] \in Runs /\ inflight[k] \in Calls /\ inflight[k] # None
    BY <1>1, <1>2, <1>4 DEF Calls
  <2>2. /\ d \in Call /\ d.pc = c.pc /\ d.snap = c.snap /\ d.tok = c.tok /\ d.on = inflight[k]
    BY <2>1 DEF Call
  <2>3. call' = [call EXCEPT ![r] = d] /\ UNCHANGED <<inflight, exchange, agents>>
    BY <1>4 DEF Obtain, Set, Key
  <2> HIDE DEF d
  <2>4. /\ call' \in [Calls -> Call] /\ call'[r] = d
        /\ \A y \in Calls \ {r} : call'[y] = call[y]
    BY <1>1, <1>2, <2>2, <2>3
  <2>5. /\ exchange[inflight[k]] # None /\ exchange[inflight[k]].cred = k /\ inflight[k] \notin Tests
    BY <1>1, <1>4, <2>1 DEF KeysOK, ExchangesOK
  <2>6. TypeOK' /\ KeysOK'
    BY <2>3, <2>4 DEF TypeOK, KeysOK, agents
  <2>7. CallsOK'
    BY <1>1, <2>1, <2>2, <2>3, <2>4, <2>5, RecordTypes DEF CallsOK, agents
  <2>8. ExchangesOK'
    BY <1>1, <1>3, <2>1, <2>2, <2>3, <2>4, <2>5, RecordTypes DEF ExchangesOK
  <2> QED BY <2>6, <2>7, <2>8
<1>5. CASE inflight[k] = None
  <2> DEFINE d == [c EXCEPT !.on = r]
  <2>1. /\ d \in Call /\ d.pc = c.pc /\ d.snap = c.snap /\ d.tok = c.tok /\ d.on = r
    BY <1>1 DEF Call
  <2>2. /\ call' = [call EXCEPT ![r] = d] /\ inflight' = [inflight EXCEPT ![k] = r]
        /\ Begin(r, c.snap, FALSE) /\ Resolve(c.snap.proxy)
    BY <1>5 DEF Obtain, Set, Key
  <2> HIDE DEF d
  <2>3. /\ call' \in [Calls -> Call] /\ call'[r] = d
        /\ \A y \in Calls \ {r} : call'[y] = call[y]
    BY <1>1, <1>2, <2>1, <2>2
  <2>4. inflight' \in [Keys -> Runs \cup {None}] /\ inflight'[k] = r /\ \A j \in Keys \ {k} : inflight'[j] = inflight[j]
    BY <1>1, <1>2, <2>2
  <2>5. /\ exchange' \in [Calls -> Exchange \cup {None}]
        /\ exchange'[r] # None /\ exchange'[r].key = k /\ exchange'[r].cred = k
        /\ exchange'[r].diag = FALSE /\ exchange'[r].dropped = FALSE
        /\ \A y \in Calls \ {r} : exchange'[y] = exchange[y]
    BY <1>1, <2>2, BeginEffect
  <2>6. /\ agent' \in Proxies \cup {None} /\ holds' \in [Calls -> {"none", "cached", "closed"}]
        /\ \A y \in Calls : AgentKept(y)
    BY <1>2, <2>2, ResolveEffect
  <2> HIDE DEF k
  <2>7. TypeOK'
    BY <2>3, <2>4, <2>5, <2>6 DEF TypeOK
  <2>8. CallsOK'
    <3>1. ASSUME NEW y \in Calls \ {r}
          PROVE  /\ call'[y].on # None <=> call'[y].pc \in {"token", "retoken", "diagnose"}
                 /\ call'[y].on # None => /\ exchange'[call'[y].on] # None
                                          /\ exchange'[call'[y].on].cred = call'[y].snap.cred
                 /\ call'[y].tok # None => call'[y].tok = call'[y].snap.cred
                 /\ call'[y].pc = "idle" => holds'[y] = "none"
                 /\ holds'[y] = "cached" => agent' = call'[y].snap.proxy
      <4>1. call'[y] = call[y] /\ call[y].on # r /\ call[y].on \in Calls \cup {None}
        BY <1>2, <1>3, <2>3 DEF Call
      <4> QED BY <2>5, <2>6, <4>1 DEF CallsOK, AgentKept
    <3>2. /\ call'[r].on = r /\ r # None /\ call'[r].pc \in {"token", "retoken"}
          /\ exchange'[r] # None /\ exchange'[r].cred = call'[r].snap.cred
          /\ call'[r].tok # None => call'[r].tok = call'[r].snap.cred
          /\ holds'[r] = "cached" => agent' = call'[r].snap.proxy
      BY <1>1, <2>1, <2>3, <2>5, <2>6, RecordTypes DEF CallsOK, AgentKept, k
    <3> QED BY <3>1, <3>2 DEF CallsOK
  <2>9. \A j \in Keys : inflight[j] # None => inflight[j] # r /\ inflight[j] \in Calls
    BY <1>2, <1>3, RecordTypes DEF KeysOK
  <2>10. KeysOK'
    BY <1>1, <2>4, <2>5, <2>9 DEF KeysOK
  <2>11. \A y \in Calls : exchange[y] # None => exchange[y].key \in Keys
    BY DEF TypeOK, Exchange
  <2>12. ExchangesOK'
    <3>1. ASSUME NEW y \in Calls \ {r}, exchange'[y] # None
          PROVE  /\ call'[y].on = y
                 /\ exchange'[y].cred = exchange'[y].key
                 /\ exchange'[y].diag <=> y \in Tests
                 /\ y \in Tests => \A z \in Calls : call'[z].on = y => z = y
                 /\ exchange'[y].diag \/ exchange'[y].dropped \/ inflight'[exchange'[y].key] = y
      BY <1>1, <1>5, <2>1, <2>3, <2>4, <2>5, <2>11, <3>1, RecordTypes DEF ExchangesOK
    <3>2. /\ call'[r].on = r
          /\ exchange'[r].cred = exchange'[r].key
          /\ exchange'[r].diag <=> r \in Tests
          /\ inflight'[exchange'[r].key] = r
      BY <1>1, <2>1, <2>3, <2>4, <2>5
    <3> QED BY <1>1, <3>1, <3>2 DEF ExchangesOK
  <2> QED BY <2>7, <2>8, <2>10, <2>12
<1> QED BY <1>4, <1>5

\* The call waits for nothing any more.
Released(y) ==
    /\ call'[y].on = None /\ call'[y].pc \notin {"token", "retoken", "diagnose"}
    /\ call'[y].tok # None => call'[y].tok = call'[y].snap.cred
    /\ call'[y].pc = "idle" => holds'[y] = "none"
    /\ holds'[y] = "cached" => agent' = call'[y].snap.proxy

LEMMA EndExchange ==
  ASSUME AccessInv, NEW x \in Calls, exchange[x] # None, exchange' = [exchange EXCEPT ![x] = None],
         inflight' = IF exchange[x].diag THEN inflight ELSE Settled(x, exchange[x].key),
         call' \in [Calls -> Call], \A y \in Waiting(x) : Released(y),
         \A y \in Calls \ Waiting(x) : call'[y] = call[y] /\ AgentKept(y),
         agent' \in Proxies \cup {None}, holds' \in [Calls -> {"none", "cached", "closed"}],
         cache' \in [Keys -> Keys \cup {None}], \A k \in Keys : cache'[k] \in {None, k, cache[k]},
         lastToken' \in Keys \cup {None},
         UNCHANGED <<row, admin, edits, stragglers>>
  PROVE  AccessInv'
<1> USE DEF AccessInv
<1>1. /\ exchange \in [Calls -> Exchange \cup {None}] /\ inflight \in [Keys -> Runs \cup {None}]
      /\ call \in [Calls -> Call]
  BY DEF TypeOK
<1>2. /\ exchange'[x] = None /\ exchange' \in [Calls -> Exchange \cup {None}]
      /\ \A y \in Calls \ {x} : exchange'[y] = exchange[y]
  BY <1>1
<1>3. exchange[x].key \in Keys
  BY <1>1 DEF Exchange
<1>4. /\ inflight' \in [Keys -> Runs \cup {None}]
      /\ \A k \in Keys : /\ inflight'[k] # None => inflight'[k] = inflight[k]
                         /\ inflight[k] # x => inflight'[k] = inflight[k]
  BY <1>1, <1>3 DEF Settled
<1>5. \A k \in Keys : inflight'[k] # x
  <2>1. SUFFICES ASSUME NEW k \in Keys, inflight[k] = x, inflight'[k] = x PROVE FALSE
    BY <1>4, RecordTypes
  <2>2. exchange[x].key = k /\ x \in Runs
    BY <1>1, <2>1, RecordTypes DEF KeysOK
  <2>3. ~exchange[x].diag
    BY <2>2 DEF ExchangesOK
  <2> QED BY <1>1, <2>1, <2>2, <2>3, RecordTypes DEF Settled
<1>6. TypeOK'
  BY <1>2, <1>4 DEF TypeOK
<1>7. CallsOK'
  <2>1. ASSUME NEW y \in Calls \ Waiting(x)
        PROVE  /\ call'[y].on # None <=> call'[y].pc \in {"token", "retoken", "diagnose"}
               /\ call'[y].on # None => /\ exchange'[call'[y].on] # None
                                        /\ exchange'[call'[y].on].cred = call'[y].snap.cred
               /\ call'[y].tok # None => call'[y].tok = call'[y].snap.cred
               /\ call'[y].pc = "idle" => holds'[y] = "none"
               /\ holds'[y] = "cached" => agent' = call'[y].snap.proxy
    <3>1. call'[y] = call[y] /\ call[y].on # x /\ call[y].on \in Calls \cup {None} /\ AgentKept(y)
      BY <1>1 DEF Waiting, Call
    <3> QED BY <1>2, <3>1 DEF CallsOK, AgentKept
  <2>2. Waiting(x) \subseteq Calls
    BY DEF Waiting
  <2> QED BY <2>1, <2>2 DEF CallsOK, Released
<1>8. ExchangesOK'
  <2> SUFFICES ASSUME NEW y \in Calls, exchange'[y] # None
               PROVE  /\ call'[y].on = y
                      /\ exchange'[y].cred = exchange'[y].key
                      /\ exchange'[y].diag <=> y \in Tests
                      /\ y \in Tests => \A z \in Calls : call'[z].on = y => z = y
                      /\ exchange'[y].diag \/ exchange'[y].dropped \/ inflight'[exchange'[y].key] = y
    BY DEF ExchangesOK
  <2>1. y # x /\ exchange'[y] = exchange[y] /\ exchange[y].key \in Keys
    BY <1>1, <1>2 DEF Exchange
  <2>2. call'[y].on = y /\ call[y].on = y
    BY <2>1 DEF ExchangesOK, Waiting
  <2>3. \A z \in Calls : call'[z].on = y => call[z].on = y
    BY RecordTypes DEF Released
  <2> QED BY <1>4, <2>1, <2>2, <2>3 DEF ExchangesOK
<1>9. KeysOK'
  BY <1>1, <1>2, <1>4, <1>5 DEF KeysOK
<1> QED BY <1>6, <1>7, <1>8, <1>9

LEMMA EndEffect ==
  ASSUME TypeOK, NEW xs \in SUBSET Calls, End(xs)
  PROVE  /\ call' \in [Calls -> Call] /\ holds' \in [Calls -> {"none", "cached", "closed"}]
         /\ \A y \in xs : call'[y] = NoCall /\ holds'[y] = "none"
         /\ \A y \in Calls \ xs : call'[y] = call[y] /\ holds'[y] = holds[y]
  BY RecordTypes DEF TypeOK, End

LEMMA FailsAccessInv ==
  ASSUME AccessInv, NEW x \in Calls, ExchangeFails(x)
  PROVE  AccessInv'
<1>1. /\ exchange[x] # None /\ End(Waiting(x)) /\ exchange' = [exchange EXCEPT ![x] = None]
      /\ inflight' = IF exchange[x].diag THEN inflight ELSE Settled(x, exchange[x].key)
      /\ UNCHANGED <<row, cache, lastToken, agent, admin, edits, stragglers>>
  BY DEF ExchangeFails
<1>2. Waiting(x) \in SUBSET Calls
  BY DEF Waiting
<1>3. /\ call' \in [Calls -> Call] /\ holds' \in [Calls -> {"none", "cached", "closed"}]
      /\ \A y \in Waiting(x) : call'[y] = NoCall /\ holds'[y] = "none"
      /\ \A y \in Calls \ Waiting(x) : call'[y] = call[y] /\ holds'[y] = holds[y]
  BY <1>1, <1>2, EndEffect DEF AccessInv
<1>4. \A y \in Waiting(x) : Released(y)
  BY <1>3, RecordTypes DEF Released
<1>5. \A y \in Calls \ Waiting(x) : call'[y] = call[y] /\ AgentKept(y)
  BY <1>1, <1>3 DEF AgentKept
<1>6. /\ agent' \in Proxies \cup {None} /\ lastToken' \in Keys \cup {None}
      /\ cache' \in [Keys -> Keys \cup {None}] /\ \A k \in Keys : cache'[k] \in {None, k, cache[k]}
  BY <1>1 DEF AccessInv, TypeOK
<1> QED BY <1>1, <1>3, <1>4, <1>5, <1>6, EndExchange

LEMMA SucceedsAccessInv ==
  ASSUME AccessInv, NEW x \in Calls, ExchangeSucceeds(x)
  PROVE  AccessInv'
<1> DEFINE t == exchange[x].cred
<1>1. /\ exchange[x] # None /\ exchange' = [exchange EXCEPT ![x] = None]
      /\ cache' = [cache EXCEPT ![exchange[x].key] = t] /\ lastToken' = t
      /\ UNCHANGED <<row, admin, edits, stragglers>>
  BY DEF ExchangeSucceeds
<1>2. exchange[x].key = t /\ t \in Keys /\ call[x].on = x /\ cache \in [Keys -> Keys \cup {None}]
  BY <1>1 DEF AccessInv, TypeOK, ExchangesOK, Exchange
<1>3. /\ cache' \in [Keys -> Keys \cup {None}] /\ \A k \in Keys : cache'[k] \in {None, k, cache[k]}
      /\ lastToken' \in Keys \cup {None}
  BY <1>1, <1>2
<1>4. /\ call \in [Calls -> Call] /\ agent \in Proxies \cup {None}
      /\ holds \in [Calls -> {"none", "cached", "closed"}]
  BY DEF AccessInv, TypeOK
<1>5. \A y \in Waiting(x) : y \in Calls /\ call[y] \in Call /\ call[y].snap.cred = t
  BY <1>2, <1>4, RecordTypes DEF AccessInv, CallsOK, Waiting
<1>6. x \in Waiting(x)
  BY <1>2 DEF Waiting
<1>7. CASE ~exchange[x].diag
  <2>1. /\ inflight' = Settled(x, exchange[x].key) /\ UNCHANGED agents
        /\ call' = [y \in Calls |-> IF y \in Waiting(x) THEN Granted(call[y], t) ELSE call[y]]
    BY <1>7 DEF ExchangeSucceeds
  <2>2. \A y \in Waiting(x) : /\ Granted(call[y], t) \in Call /\ Granted(call[y], t).pc \in {"users", "rest"}
                              /\ Granted(call[y], t).snap = call[y].snap /\ Granted(call[y], t).tok = t
                              /\ Granted(call[y], t).on = None
    <3>1. ASSUME NEW c \in Call
          PROVE  /\ Granted(c, t) \in Call /\ Granted(c, t).pc \in {"users", "rest"}
                 /\ Granted(c, t).snap = c.snap /\ Granted(c, t).tok = t /\ Granted(c, t).on = None
      BY <1>2 DEF Granted, Call
    <3> QED BY ONLY <1>5, <3>1
  <2>3. call' \in [Calls -> Call]
    BY <1>4, <2>1, <2>2
  <2>4. \A y \in Waiting(x) : Released(y)
    BY <1>5, <2>1, <2>2 DEF Released, AccessInv, CallsOK, agents
  <2>5. \A y \in Calls \ Waiting(x) : call'[y] = call[y] /\ AgentKept(y)
    BY <2>1 DEF AgentKept, agents
  <2> QED BY <1>1, <1>3, <1>4, <1>7, <2>1, <2>3, <2>4, <2>5, EndExchange DEF agents
<1>8. CASE exchange[x].diag
  <2>1. Waiting(x) = {x}
    BY <1>1, <1>6, <1>8 DEF AccessInv, ExchangesOK, Waiting
  <2>2. UNCHANGED inflight
    BY <1>8 DEF ExchangeSucceeds
  <2>3. CASE End({x}) /\ UNCHANGED agent
    <3>1. /\ call' \in [Calls -> Call] /\ holds' \in [Calls -> {"none", "cached", "closed"}]
          /\ call'[x] = NoCall /\ holds'[x] = "none"
          /\ \A y \in Calls \ {x} : call'[y] = call[y] /\ holds'[y] = holds[y]
      BY <2>3, EndEffect DEF AccessInv
    <3>2. Released(x) /\ \A y \in Calls \ {x} : call'[y] = call[y] /\ AgentKept(y)
      BY <2>3, <3>1, RecordTypes DEF Released, AgentKept
    <3> QED BY <1>1, <1>3, <1>4, <1>8, <2>1, <2>2, <2>3, <3>1, <3>2, EndExchange
  <2>4. CASE /\ Set(x, [call[x] EXCEPT !.pc = "probe", !.on = None, !.tok = t])
             /\ ResolveFor(x, call[x].snap.proxy)
    <3> DEFINE d == [call[x] EXCEPT !.pc = "probe", !.on = None, !.tok = t]
    <3>1. d \in Call /\ d.pc = "probe" /\ d.on = None /\ d.tok = t /\ d.snap = call[x].snap
      BY <1>2, <1>4 DEF Call
    <3>2. call' = [call EXCEPT ![x] = d]
      BY <2>4 DEF Set
    <3> HIDE DEF d
    <3>3. call' \in [Calls -> Call] /\ call'[x] = d /\ \A y \in Calls \ {x} : call'[y] = call[y]
      BY <1>4, <3>1, <3>2
    <3>4. call[x].snap.proxy \in Proxies \cup {None}
      BY <1>4 DEF Call, Row
    <3>5. /\ agent' = IF call[x].snap.proxy = None THEN agent ELSE call[x].snap.proxy
          /\ holds' \in [Calls -> {"none", "cached", "closed"}]
          /\ holds'[x] = IF call[x].snap.proxy = None THEN "none" ELSE "cached"
          /\ \A y \in Calls \ {x} : AgentKept(y)
      BY <2>4, <3>4, ResolveForEffect DEF AccessInv
    <3>6. Released(x) /\ agent' \in Proxies \cup {None}
      BY <1>4, <1>5, <1>6, <3>1, <3>3, <3>4, <3>5 DEF Released
    <3> QED BY <1>1, <1>3, <1>8, <2>1, <2>2, <3>3, <3>5, <3>6, EndExchange
  <2> QED BY <1>8, <2>3, <2>4 DEF ExchangeSucceeds
<1> QED BY <1>7, <1>8

-----------------------------------------------------------------------------
(* Every step.                                                             *)

\* A call that waits for nothing ends.
LEMMA EndAccessInv ==
  ASSUME AccessInv, NEW x \in Calls, call[x].on = None, End({x}),
         UNCHANGED <<row, tokens, agent, admin, edits, stragglers>>
  PROVE  AccessInv'
<1> USE DEF AccessInv, tokens
<1>1. /\ call' \in [Calls -> Call] /\ holds' \in [Calls -> {"none", "cached", "closed"}]
      /\ call'[x] = NoCall /\ holds'[x] = "none"
      /\ \A y \in Calls \ {x} : call'[y] = call[y] /\ holds'[y] = holds[y]
  BY EndEffect
<1>2. TypeOK' /\ KeysOK'
  BY <1>1 DEF TypeOK, KeysOK
<1>3. CallsOK' /\ ExchangesOK'
  BY <1>1, RecordTypes DEF CallsOK, ExchangesOK
<1> QED BY <1>2, <1>3

LEMMA RunAccessInv ==
  ASSUME AccessInv, NEW r \in Runs, LoadRun(r) \/ RunStep(r)
  PROVE  AccessInv'
<1>1. r \in Calls /\ call[r] \in Call /\ cache \in [Keys -> Keys \cup {None}]
  BY DEF Calls, AccessInv, TypeOK
<1>2. CASE LoadRun(r)
  BY <1>1, <1>2, LoadAccessInv DEF LoadRun
<1>3. ASSUME call[r].pc \in {"loaded", "users", "rest"} PROVE call[r].pc # "idle" /\ call[r].on = None
  BY <1>1, <1>3 DEF AccessInv, CallsOK
<1>4. CASE AskToken(r)
  <2> DEFINE k == call[r].snap.cred
             u == [call[r] EXCEPT !.pc = "users"]
             v == [call[r] EXCEPT !.pc = "users", !.tok = cache[k]]
             w == [call[r] EXCEPT !.pc = "token"]
  <2>1. call[r].pc # "idle" /\ call[r].on = None
    BY <1>3, <1>4 DEF AskToken
  <2>2. CASE k = None /\ Set(r, u) /\ UNCHANGED <<inflight, exchange, agents>>
    <3>1. u \in Call /\ u.pc = "users" /\ u.snap = call[r].snap /\ u.on = None /\ u.tok = call[r].tok
      BY <1>1, <2>1 DEF Call
    <3>2. call[r].tok # None => call[r].tok = k
      BY <1>1 DEF AccessInv, CallsOK
    <3> HIDE DEF u
    <3> QED BY <1>1, <1>4, <2>1, <2>2, <3>1, <3>2, MoveAccessInv DEF AskToken, tokens
  <2>3. CASE /\ k # None /\ cache[k] # None /\ Set(r, v) /\ UNCHANGED <<inflight, exchange, agents>>
    <3>1. k \in Keys /\ cache[k] = k
      BY <1>1, <2>3 DEF Call, Row, AccessInv, KeysOK
    <3>2. v \in Call /\ v.pc = "users" /\ v.snap = call[r].snap /\ v.on = None /\ v.tok = k
      BY <1>1, <2>1, <3>1 DEF Call
    <3> HIDE DEF v
    <3> QED BY <1>1, <1>4, <2>1, <2>3, <3>1, <3>2, MoveAccessInv DEF AskToken, tokens
  <2>4. CASE k # None /\ Obtain(r, w)
    <3>1. w \in Call /\ w.pc = "token" /\ w.snap = call[r].snap /\ w.on = None /\ w.tok = call[r].tok
      BY <1>1, <2>1 DEF Call
    <3>2. call[r].tok # None => call[r].tok = k
      BY <1>1 DEF AccessInv, CallsOK
    <3>3. UNCHANGED <<row, cache, lastToken, admin, edits, stragglers>>
      BY <1>4 DEF AskToken
    <3> HIDE DEF w
    <3> QED BY <1>1, <2>1, <2>4, <3>1, <3>2, <3>3, ObtainAccessInv
  <2> QED BY <1>4, <2>2, <2>3, <2>4 DEF AskToken, Key
<1>5. CASE UsersArrive(r)
  <2> DEFINE d == [call[r] EXCEPT !.pc = "rest"]
  <2>1. d \in Call /\ d.pc = "rest" /\ d.snap = call[r].snap /\ d.on = call[r].on /\ d.tok = call[r].tok
    BY <1>1 DEF Call
  <2>2. call[r].tok # None => call[r].tok = call[r].snap.cred
    BY <1>1 DEF AccessInv, CallsOK
  <2>3. Set(r, d) /\ call[r].pc = "users" /\ UNCHANGED <<row, tokens, agents, admin, edits, stragglers>>
    BY <1>5 DEF UsersArrive
  <2> HIDE DEF d
  <2> QED BY <1>1, <1>3, <2>1, <2>2, <2>3, MoveAccessInv
<1>6. CASE Unauthorized(r)
  <2> DEFINE k == call[r].snap.cred
             d == [call[r] EXCEPT !.pc = "retoken", !.tok = None]
  <2>1. call[r].pc = "users" /\ call[r].tok # None /\ cache' = [cache EXCEPT ![k] = None] /\ Obtain(r, d)
        /\ UNCHANGED <<row, lastToken, admin, edits, stragglers>>
    BY <1>6 DEF Unauthorized, Key
  <2>2. d \in Call /\ d.pc = "retoken" /\ d.snap = call[r].snap /\ d.on = call[r].on /\ d.tok = None
    BY <1>1 DEF Call
  <2>3. k # None
    BY <1>1, <2>1 DEF AccessInv, CallsOK
  <2>4. cache' \in [Keys -> Keys \cup {None}] /\ \A j \in Keys : cache'[j] \in {None, cache[j]}
    BY <1>1, <2>1
  <2> HIDE DEF d
  <2> QED BY <1>1, <1>3, <2>1, <2>2, <2>3, <2>4, ObtainAccessInv
<1>7. CASE EndRun(r)
  BY <1>1, <1>3, <1>7, EndAccessInv DEF EndRun
<1> QED BY <1>2, <1>4, <1>5, <1>6, <1>7 DEF RunStep

LEMMA TestAccessInv ==
  ASSUME AccessInv, NEW t \in Tests, BeginDiagnosis(t) \/ BeginProbe(t) \/ EndProbe(t)
  PROVE  AccessInv'
<1>1. t \in Calls /\ t \notin Runs /\ call[t] \in Call
  BY DEF Calls, AccessInv, TypeOK
<1>2. CASE BeginProbe(t)
  BY <1>1, <1>2, LoadAccessInv DEF BeginProbe
<1>3. CASE EndProbe(t)
  <2>1. call[t].on = None
    BY <1>1, <1>3 DEF EndProbe, AccessInv, CallsOK
  <2> QED BY <1>1, <1>3, <2>1, EndAccessInv DEF EndProbe
<1>4. CASE BeginDiagnosis(t)
  <2> USE DEF AccessInv
  <2> DEFINE d == [Loaded("diagnose") EXCEPT !.on = t]
  <2>1. /\ call[t].pc = "idle" /\ row # None /\ row.cred # None /\ call' = [call EXCEPT ![t] = d]
        /\ Resolve(row.proxy) /\ Begin(t, row, TRUE)
        /\ UNCHANGED <<row, cache, inflight, lastToken, admin, edits, stragglers>>
    BY <1>4 DEF BeginDiagnosis, Set
  <2>2. row \in Row /\ row.proxy \in Proxies \cup {None} /\ row.cred \in Keys
    BY <2>1 DEF TypeOK, Row
  <2>3. d \in Call /\ d.pc = "diagnose" /\ d.snap = row /\ d.on = t /\ d.tok = None
    <3>1. Calm \in BOOLEAN
      BY DEF Calm
    <3> QED BY <1>1, <2>2, <3>1 DEF Loaded, NoCall, Call
  <2> HIDE DEF d
  <2>4. call' \in [Calls -> Call] /\ call'[t] = d /\ \A y \in Calls \ {t} : call'[y] = call[y]
    BY <1>1, <2>1, <2>3 DEF TypeOK
  <2>5. /\ exchange' \in [Calls -> Exchange \cup {None}]
        /\ exchange'[t] # None /\ exchange'[t].key = row.cred /\ exchange'[t].cred = row.cred
        /\ exchange'[t].diag = TRUE
        /\ \A y \in Calls \ {t} : exchange'[y] = exchange[y]
    BY <1>1, <2>1, <2>2, BeginEffect
  <2>6. /\ agent' \in Proxies \cup {None} /\ holds' \in [Calls -> {"none", "cached", "closed"}]
        /\ \A y \in Calls : AgentKept(y)
    BY <2>1, <2>2, ResolveEffect
  <2>7. TypeOK'
    BY <2>1, <2>4, <2>5, <2>6 DEF TypeOK
  <2>8. exchange[t] = None /\ \A y \in Calls : call[y].on # t
    BY <1>1, <2>1, RecordTypes DEF CallsOK, ExchangesOK
  <2>9. KeysOK'
    BY <1>1, <2>1, <2>5, <2>8, RecordTypes DEF KeysOK, TypeOK
  <2>10. CallsOK'
    <3>1. ASSUME NEW y \in Calls \ {t}
          PROVE  /\ call'[y].on # None <=> call'[y].pc \in {"token", "retoken", "diagnose"}
                 /\ call'[y].on # None => /\ exchange'[call'[y].on] # None
                                          /\ exchange'[call'[y].on].cred = call'[y].snap.cred
                 /\ call'[y].tok # None => call'[y].tok = call'[y].snap.cred
                 /\ call'[y].pc = "idle" => holds'[y] = "none"
                 /\ holds'[y] = "cached" => agent' = call'[y].snap.proxy
      <4>1. call'[y] = call[y] /\ call[y].on # t /\ call[y].on \in Calls \cup {None} /\ AgentKept(y)
        BY <2>4, <2>6, <2>8 DEF TypeOK, Call
      <4> QED BY <2>5, <4>1 DEF CallsOK, AgentKept
    <3>2. /\ call'[t].on = t /\ t # None /\ call'[t].pc = "diagnose"
          /\ exchange'[t] # None /\ exchange'[t].cred = call'[t].snap.cred
          /\ call'[t].tok = None /\ holds'[t] # "cached"
      BY <1>1, <2>1, <2>3, <2>4, <2>5, <2>6, RecordTypes DEF CallsOK, AgentKept
    <3> QED BY <3>1, <3>2 DEF CallsOK
  <2>11. ExchangesOK'
    BY <1>1, <2>1, <2>3, <2>4, <2>5, <2>8, RecordTypes DEF ExchangesOK
  <2> QED BY <2>7, <2>9, <2>10, <2>11
<1> QED BY <1>2, <1>3, <1>4

LEMMA AdminAccessInv ==
  ASSUME AccessInv, WriteRow \/ Invalidate
  PROVE  AccessInv'
<1> USE DEF AccessInv
<1>1. call \in [Calls -> Call] /\ exchange \in [Calls -> Exchange \cup {None}]
  BY DEF TypeOK
<1>2. CASE WriteRow
  <2>1. PICK new \in {None} \cup [cred: {row.cred, None, edits' + 1}, proxy: Proxies \cup {None}], proxied \in BOOLEAN :
          /\ row' = new /\ admin' = [busy |-> TRUE, proxied |-> proxied]
          /\ call' = [x \in Calls |-> [call[x] EXCEPT !.calm = @ /\ ~proxied]]
    BY <1>2 DEF WriteRow
  <2>2. /\ row \in Row /\ edits \in 0..MaxEdits /\ edits < MaxEdits /\ edits' = edits + 1
        /\ UNCHANGED <<tokens, agents, stragglers>>
    BY <1>2 DEF WriteRow, TypeOK
  <2>3. row' \in Row \cup {None}
    BY <2>1, <2>2 DEF Row, Keys
  <2>4. admin' \in Admin /\ edits' \in 0..MaxEdits
    BY <2>1, <2>2 DEF Admin
  <2>5. \A x \in Calls : /\ call'[x] \in Call /\ call'[x].pc = call[x].pc /\ call'[x].snap = call[x].snap
                         /\ call'[x].tok = call[x].tok /\ call'[x].on = call[x].on
    <3>1. ASSUME NEW c \in Call
          PROVE  LET d == [c EXCEPT !.calm = @ /\ ~proxied] IN
                 /\ d \in Call /\ d.pc = c.pc /\ d.snap = c.snap /\ d.tok = c.tok /\ d.on = c.on
      BY DEF Call
    <3> QED BY ONLY <1>1, <2>1, <3>1
  <2>6. call' \in [Calls -> Call]
    BY <2>1, <2>5
  <2>7. TypeOK'
    BY <2>2, <2>3, <2>4, <2>6 DEF TypeOK, tokens, agents
  <2>8. CallsOK' /\ ExchangesOK' /\ KeysOK'
    BY <2>2, <2>5 DEF CallsOK, ExchangesOK, KeysOK, tokens, agents
  <2> QED BY <2>7, <2>8
<1>3. CASE Invalidate
  <2>1. /\ cache' = [k \in Keys |-> None] /\ inflight' = [k \in Keys |-> None] /\ lastToken' = None
        /\ exchange' = [x \in Calls |-> IF exchange[x] = None THEN None ELSE [exchange[x] EXCEPT !.dropped = TRUE]]
        /\ admin' = NoAdmin /\ UNCHANGED <<row, call, edits>>
        /\ stragglers' = stragglers \cup {call[x].snap.cred : x \in Active}
    BY <1>3 DEF Invalidate, Invalidated
  <2>2. stragglers' \subseteq Keys \cup {None}
    BY <1>1, <2>1 DEF TypeOK, Active, Call, Row
  <2>3. \A x \in Calls : /\ exchange'[x] \in Exchange \cup {None} /\ (exchange'[x] = None <=> exchange[x] = None)
                         /\ exchange'[x] # None => /\ exchange'[x].key = exchange[x].key
                                                   /\ exchange'[x].cred = exchange[x].cred
                                                   /\ exchange'[x].diag = exchange[x].diag
                                                   /\ exchange'[x].dropped
    <3>1. ASSUME NEW e \in Exchange
          PROVE  LET d == [e EXCEPT !.dropped = TRUE] IN
                 /\ d \in Exchange /\ d.key = e.key /\ d.cred = e.cred /\ d.diag = e.diag /\ d.dropped
      BY DEF Exchange
    <3> QED BY <1>1, <2>1, <3>1
  <2>4. exchange' \in [Calls -> Exchange \cup {None}]
    BY <2>1, <2>3
  <2>5. /\ agent' \in Proxies \cup {None} /\ holds' \in [Calls -> {"none", "cached", "closed"}]
        /\ \A y \in Calls : AgentKept(y)
    BY <1>3 DEF Invalidate, Closed, agents, TypeOK, AgentKept
  <2>6. TypeOK'
    BY <2>1, <2>2, <2>4, <2>5, RecordTypes DEF TypeOK
  <2>7. CallsOK'
    <3>1. \A x \in Calls : call[x].on \in Calls \cup {None}
      BY <1>1 DEF Call
    <3> QED BY <2>1, <2>3, <2>5, <3>1 DEF CallsOK, AgentKept
  <2>8. ExchangesOK' /\ KeysOK'
    BY <2>1, <2>3 DEF ExchangesOK, KeysOK
  <2> QED BY <2>6, <2>7, <2>8
<1> QED BY <1>2, <1>3

LEMMA NextAccessInv ==
  ASSUME AccessInv, [Next]_vars
  PROVE  AccessInv'
<1>1. CASE UNCHANGED vars
  BY <1>1 DEF vars, tokens, agents, AccessInv, TypeOK, CallsOK, ExchangesOK, KeysOK
<1> QED BY <1>1, RunAccessInv, TestAccessInv, FailsAccessInv, SucceedsAccessInv, AdminAccessInv
        DEF Next, ExchangeStep

-----------------------------------------------------------------------------
(* What an invalidation leaves, and the life of an agent.                  *)

\* The call goes on with the row it loaded, or ends.
Followed(y) ==
    call'[y].pc # "idle" => /\ call[y].pc # "idle" /\ call'[y].snap = call[y].snap
                            /\ call'[y].calm => call[y].calm

LoadedNow(x) == row # None /\ call'[x].snap = row /\ (call'[x].calm => Calm) /\ holds'[x] # "closed"

\* A token comes into the cache only with the credentials of a call in progress.
TokensStep ==
    /\ \A k \in Keys : cache'[k] # None => cache[k] # None \/ \E x \in Active : call[x].snap.cred = k
    /\ \A k \in Keys : lastToken' = k => lastToken = k \/ \E x \in Active : call[x].snap.cred = k

\* A new agent has the proxy of a call in progress, and only a new one closes the old one.
AgentStep ==
    /\ agent' # agent => \E x \in Calls : call'[x].pc # "idle" /\ agent' = call'[x].snap.proxy
    /\ \A y \in Calls : holds'[y] = "closed" => holds[y] = "closed" \/ (holds[y] = "cached" /\ agent' # agent)

\* A step of a run, a test or an exchange.
CallStep ==
    /\ UNCHANGED <<row, admin, stragglers>>
    /\ \E x \in Calls : /\ \A y \in Calls \ {x} : Followed(y)
                        /\ Followed(x) \/ LoadedNow(x)
    /\ TokensStep /\ AgentStep

LEMMA LoadStep ==
  ASSUME AccessInv, NEW x \in Calls, NEW d \in Call, call[x].pc = "idle", row # None, Set(x, d),
         d.snap = row, d.pc # "idle", d.calm => Calm,
         ResolveFor(x, row.proxy) \/ Resolve(row.proxy),
         UNCHANGED <<row, cache, lastToken, admin, stragglers>>
  PROVE  CallStep
<1>1. call'[x] = d /\ \A y \in Calls \ {x} : call'[y] = call[y]
  BY DEF Set, AccessInv, TypeOK
<1>2. row.proxy \in Proxies \cup {None} /\ holds[x] = "none"
  BY DEF AccessInv, TypeOK, Row, CallsOK
<1>3. /\ agent' = IF row.proxy = None THEN agent ELSE row.proxy
      /\ holds'[x] # "closed" /\ \A y \in Calls \ {x} : AgentKept(y)
  BY <1>2, ResolveEffect, ResolveForEffect DEF AccessInv, Resolve, AgentKept
<1>4. AgentStep
  BY <1>1, <1>3 DEF AgentStep, AgentKept
<1>5. TokensStep
  BY DEF TokensStep
<1>6. LoadedNow(x) /\ \A y \in Calls \ {x} : Followed(y)
  BY <1>1, <1>3 DEF LoadedNow, Followed
<1> QED BY <1>4, <1>5, <1>6 DEF CallStep

LEMMA RunCallStep ==
  ASSUME AccessInv, NEW r \in Runs, RunStep(r)
  PROVE  CallStep
<1> DEFINE p == call[r].snap.proxy
<1>1. /\ r \in Calls /\ call \in [Calls -> Call] /\ call[r] \in Call /\ p \in Proxies \cup {None}
      /\ cache \in [Keys -> Keys \cup {None}] /\ inflight \in [Keys -> Runs \cup {None}]
  BY DEF Calls, AccessInv, TypeOK, Call, Row
<1>2. UNCHANGED <<row, admin, stragglers, lastToken>> /\ call[r].pc # "idle"
  BY DEF RunStep, AskToken, UsersArrive, Unauthorized, EndRun, tokens
<1>3. \A k \in Keys : cache'[k] # None => cache[k] # None
  BY <1>1 DEF RunStep, AskToken, UsersArrive, Unauthorized, EndRun, tokens
<1>4. CASE EndRun(r)
  <2>1. /\ call'[r] = NoCall /\ holds'[r] = "none" /\ agent' = agent
        /\ \A y \in Calls \ {r} : call'[y] = call[y] /\ holds'[y] = holds[y]
    BY <1>1, <1>4, EndEffect DEF EndRun, AccessInv
  <2>2. \A y \in Calls : Followed(y)
    BY <2>1, RecordTypes DEF Followed
  <2> QED BY <1>1, <1>2, <1>3, <2>1, <2>2 DEF CallStep, TokensStep, AgentStep
<1>5. ASSUME NEW d \in Call, Set(r, d), d.snap = call[r].snap, d.calm = call[r].calm, d.pc # "idle",
             Resolve(p) \/ UNCHANGED agents
      PROVE  CallStep
  <2>1. call'[r] = d /\ \A y \in Calls \ {r} : call'[y] = call[y]
    BY <1>1, <1>5 DEF Set
  <2>2. \A y \in Calls : Followed(y)
    BY <1>2, <1>5, <2>1 DEF Followed
  <2>3. AgentStep
    <3>1. CASE UNCHANGED agents
      BY <3>1 DEF AgentStep, agents
    <3>2. CASE Resolve(p)
      <4>1. \A y \in Calls : AgentKept(y)
        BY <1>1, <3>2, ResolveEffect DEF AccessInv
      <4>2. agent' # agent => agent' = p
        BY <3>2 DEF Resolve
      <4> QED BY <1>1, <1>5, <2>1, <4>1, <4>2 DEF AgentStep, AgentKept
    <3> QED BY <1>5, <3>1, <3>2
  <2> QED BY <1>1, <1>2, <1>3, <2>2, <2>3 DEF CallStep, TokensStep
<1>6. ASSUME NEW c \in Call, Obtain(r, c), c.snap = call[r].snap, c.calm = call[r].calm, c.pc # "idle",
             c.snap.cred # None
      PROVE  CallStep
  <2> DEFINE k == c.snap.cred
             d(y) == [c EXCEPT !.on = y]
  <2>1. \A y \in Calls : d(y) \in Call /\ d(y).snap = c.snap /\ d(y).calm = c.calm /\ d(y).pc = c.pc
    BY DEF Call
  <2>2. k \in Keys
    BY <1>6 DEF Call, Row
  <2>3. \E y \in Calls : Set(r, d(y)) /\ (Resolve(p) \/ UNCHANGED agents)
    BY <1>1, <1>6, <2>2 DEF Obtain, Key, Calls
  <2> HIDE DEF d
  <2> QED BY <1>5, <1>6, <2>1, <2>3
<1>7. CASE AskToken(r) \/ UsersArrive(r) \/ Unauthorized(r)
  <2> DEFINE u == [call[r] EXCEPT !.pc = "users"]
             v == [call[r] EXCEPT !.pc = "users", !.tok = cache[Key(call[r].snap)]]
             w == [call[r] EXCEPT !.pc = "token"]
             z == [call[r] EXCEPT !.pc = "retoken", !.tok = None]
             e == [call[r] EXCEPT !.pc = "rest"]
  <2>1. /\ u \in Call /\ u.snap = call[r].snap /\ u.calm = call[r].calm /\ u.pc # "idle"
        /\ w \in Call /\ w.snap = call[r].snap /\ w.calm = call[r].calm /\ w.pc # "idle"
    BY <1>1 DEF Call
  <2>2. /\ z \in Call /\ z.snap = call[r].snap /\ z.calm = call[r].calm /\ z.pc # "idle"
        /\ e \in Call /\ e.snap = call[r].snap /\ e.calm = call[r].calm /\ e.pc # "idle"
    BY <1>1 DEF Call
  <2>3. call[r].snap.cred # None => v \in Call /\ v.snap = call[r].snap /\ v.calm = call[r].calm /\ v.pc # "idle"
    BY <1>1 DEF Call, Row, Key
  <2>4. call[r].tok # None => call[r].snap.cred # None
    BY <1>1 DEF AccessInv, CallsOK
  <2>5. CASE AskToken(r)
    <3> HIDE DEF u, v, w
    <3>1. \/ Set(r, u) /\ UNCHANGED agents
          \/ call[r].snap.cred # None /\ Set(r, v) /\ UNCHANGED agents
          \/ call[r].snap.cred # None /\ Obtain(r, w)
      BY <2>5 DEF AskToken, u, v, w
    <3> QED BY <1>5, <1>6, <2>1, <2>3, <3>1
  <2>6. CASE UsersArrive(r)
    <3>1. Set(r, e) /\ UNCHANGED agents
      BY <2>6 DEF UsersArrive
    <3> HIDE DEF e
    <3> QED BY <1>5, <2>2, <3>1
  <2>7. CASE Unauthorized(r)
    <3>1. Obtain(r, z) /\ call[r].tok # None
      BY <2>7 DEF Unauthorized
    <3> HIDE DEF z
    <3> QED BY <1>6, <2>2, <2>4, <3>1
  <2> QED BY <1>7, <2>5, <2>6, <2>7
<1> QED BY <1>4, <1>7 DEF RunStep

LEMMA ExchangeCallStep ==
  ASSUME AccessInv, NEW x \in Calls, ExchangeStep(x)
  PROVE  CallStep
<1> DEFINE t == exchange[x].cred
<1>1. /\ call \in [Calls -> Call] /\ cache \in [Keys -> Keys \cup {None}]
      /\ call[x].snap.proxy \in Proxies \cup {None} /\ Waiting(x) \in SUBSET Calls
  BY DEF AccessInv, TypeOK, Call, Row, Waiting
<1>2. /\ exchange[x] # None /\ call[x].on = x /\ UNCHANGED <<row, admin, stragglers>>
  BY DEF ExchangeStep, ExchangeSucceeds, ExchangeFails, AccessInv, ExchangesOK
<1>3. x \in Active /\ t \in Keys /\ exchange[x].key = t /\ call[x].snap.cred = t
  BY <1>1, <1>2, RecordTypes DEF AccessInv, TypeOK, CallsOK, ExchangesOK, Exchange, Active
<1>4. TokensStep
  <2>1. CASE ExchangeFails(x)
    BY <2>1 DEF ExchangeFails, TokensStep
  <2>2. CASE ExchangeSucceeds(x)
    <3>1. cache' = [cache EXCEPT ![t] = t] /\ lastToken' = t
      BY <1>3, <2>2 DEF ExchangeSucceeds
    <3> QED BY <1>1, <1>3, <3>1 DEF TokensStep
  <2> QED BY <2>1, <2>2 DEF ExchangeStep
<1>5. ASSUME NEW xs \in SUBSET Calls, End(xs), UNCHANGED agent
      PROVE  CallStep
  <2>1. /\ \A y \in xs : call'[y] = NoCall /\ holds'[y] = "none"
        /\ \A y \in Calls \ xs : call'[y] = call[y] /\ holds'[y] = holds[y]
    BY <1>5, EndEffect DEF AccessInv
  <2>2. \A y \in Calls : Followed(y)
    BY <2>1, RecordTypes DEF Followed
  <2>3. AgentStep
    BY <1>5, <2>1 DEF AgentStep
  <2> QED BY <1>2, <1>4, <2>2, <2>3 DEF CallStep
<1>6. CASE ExchangeFails(x)
  BY <1>1, <1>5, <1>6 DEF ExchangeFails
<1>7. CASE ExchangeSucceeds(x) /\ ~exchange[x].diag
  <2>1. /\ call' = [y \in Calls |-> IF y \in Waiting(x) THEN Granted(call[y], t) ELSE call[y]]
        /\ UNCHANGED agents
    BY <1>7 DEF ExchangeSucceeds
  <2>2. ASSUME NEW c \in Call
        PROVE  Granted(c, t).snap = c.snap /\ Granted(c, t).calm = c.calm
    BY DEF Granted, Call
  <2>3. \A y \in Waiting(x) : call[y].pc # "idle"
    BY <1>2, RecordTypes DEF Waiting, AccessInv, CallsOK
  <2>4. \A y \in Waiting(x) : call'[y].snap = call[y].snap /\ call'[y].calm = call[y].calm
    BY ONLY <1>1, <2>1, <2>2
  <2>5. \A y \in Calls : Followed(y)
    BY <2>1, <2>3, <2>4 DEF Followed
  <2> QED BY <1>2, <1>4, <2>1, <2>5 DEF CallStep, AgentStep, agents
<1>8. CASE ExchangeSucceeds(x) /\ exchange[x].diag
  <2> DEFINE d == [call[x] EXCEPT !.pc = "probe", !.on = None, !.tok = t]
  <2>1. d.pc = "probe" /\ d.snap = call[x].snap /\ d.calm = call[x].calm
    BY <1>1 DEF Call
  <2> HIDE DEF d
  <2>2. CASE Set(x, d) /\ ResolveFor(x, call[x].snap.proxy)
    <3>1. call'[x] = d /\ \A y \in Calls \ {x} : call'[y] = call[y]
      BY <1>1, <2>2 DEF Set
    <3>2. /\ agent' = IF call[x].snap.proxy = None THEN agent ELSE call[x].snap.proxy
          /\ holds'[x] # "closed" /\ \A y \in Calls \ {x} : AgentKept(y)
      BY <1>1, <2>2, ResolveForEffect DEF AccessInv
    <3>3. \A y \in Calls : Followed(y)
      BY <1>3, <2>1, <3>1 DEF Followed, Active
    <3>4. AgentStep
      BY <2>1, <3>1, <3>2 DEF AgentStep, AgentKept
    <3> QED BY <1>2, <1>4, <3>3, <3>4 DEF CallStep
  <2>3. CASE End({x}) /\ UNCHANGED agent
    BY <1>5, <2>3
  <2> QED BY <1>8, <2>2, <2>3 DEF ExchangeSucceeds, d
<1> QED BY <1>6, <1>7, <1>8 DEF ExchangeStep

LEMMA NextCallStep ==
  ASSUME AccessInv, [Next]_vars
  PROVE  CallStep \/ WriteRow \/ Invalidate \/ UNCHANGED vars
<1>1. row \in Row \cup {None} /\ \A x \in Calls : call[x] \in Call
  BY DEF AccessInv, TypeOK
<1>2. Calm \in BOOLEAN
  BY DEF Calm
<1>3. ASSUME NEW r \in Runs, LoadRun(r) PROVE CallStep
  <2>1. row \in Row
    BY <1>1, <1>3 DEF LoadRun
  <2>2. /\ Loaded("loaded") \in Call /\ Loaded("loaded").snap = row /\ Loaded("loaded").pc = "loaded"
        /\ Loaded("loaded").calm = Calm
    BY <1>2, <2>1 DEF Loaded, NoCall, Call
  <2>3. r \in Calls
    BY DEF Calls
  <2> HIDE DEF Loaded
  <2> QED BY <1>3, <2>2, <2>3, LoadStep DEF LoadRun, tokens
<1>4. ASSUME NEW t \in Tests, BeginProbe(t) PROVE CallStep
  <2>1. row \in Row
    BY <1>1, <1>4 DEF BeginProbe
  <2>2. /\ Loaded("probe") \in Call /\ Loaded("probe").snap = row /\ Loaded("probe").pc = "probe"
        /\ Loaded("probe").calm = Calm
    BY <1>2, <2>1 DEF Loaded, NoCall, Call
  <2>3. t \in Calls
    BY DEF Calls
  <2> HIDE DEF Loaded
  <2> QED BY <1>4, <2>2, <2>3, LoadStep DEF BeginProbe, tokens
<1>5. ASSUME NEW t \in Tests, BeginDiagnosis(t) PROVE CallStep
  <2> DEFINE d == [Loaded("diagnose") EXCEPT !.on = t]
  <2>1. row \in Row /\ t \in Calls
    BY <1>1, <1>5 DEF BeginDiagnosis, Calls
  <2>2. d \in Call /\ d.snap = row /\ d.pc = "diagnose" /\ d.calm = Calm
    BY <1>2, <2>1 DEF Loaded, NoCall, Call
  <2>3. Set(t, d)
    BY <1>5 DEF BeginDiagnosis
  <2> HIDE DEF d
  <2> QED BY <1>5, <2>1, <2>2, <2>3, LoadStep DEF BeginDiagnosis
<1>6. ASSUME NEW t \in Tests, EndProbe(t) PROVE CallStep
  <2>1. t \in Calls /\ {t} \in SUBSET Calls
    BY DEF Calls
  <2>2. /\ call'[t] = NoCall /\ holds'[t] = "none"
        /\ \A y \in Calls \ {t} : call'[y] = call[y] /\ holds'[y] = holds[y]
    BY <1>6, <2>1, EndEffect DEF EndProbe, AccessInv
  <2>3. \A y \in Calls : Followed(y)
    BY <2>2, RecordTypes DEF Followed
  <2>4. AgentStep /\ TokensStep
    BY <1>6, <2>2 DEF AgentStep, TokensStep, EndProbe, tokens
  <2> QED BY <1>6, <2>1, <2>3, <2>4 DEF CallStep, EndProbe
<1> QED BY <1>3, <1>4, <1>5, <1>6, RunCallStep, ExchangeCallStep DEF Next

LEMMA NextCredentials ==
  ASSUME AccessInv, CredentialsOK, StaleOnlyFromStragglers, [Next]_vars
  PROVE  CredentialsOK' /\ StaleOnlyFromStragglers'
<1>1. CASE CallStep
  <2>1. CredentialsOK'
    BY <1>1 DEF CallStep, CredentialsOK, Followed, LoadedNow, Active
  <2>2. StaleOnlyFromStragglers'
    BY <1>1 DEF CallStep, StaleOnlyFromStragglers, CredentialsOK, TokensStep
  <2> QED BY <2>1, <2>2
<1>2. CASE WriteRow
  <2>1. admin'.busy
    BY <1>2 DEF WriteRow
  <2> QED BY <2>1 DEF CredentialsOK, StaleOnlyFromStragglers
<1>3. CASE Invalidate
  BY <1>3, RecordTypes DEF Invalidate, Invalidated, CredentialsOK, StaleOnlyFromStragglers, Active
<1>4. CASE UNCHANGED vars
  BY <1>4 DEF vars, tokens, agents, CredentialsOK, StaleOnlyFromStragglers, Active
<1> QED BY <1>1, <1>2, <1>3, <1>4, NextCallStep

LEMMA NextCalm ==
  ASSUME AccessInv, CalmOK, AgentSurvives, [Next]_vars
  PROVE  CalmOK' /\ AgentSurvives'
<1>1. CASE CallStep
  <2>1. PICK x \in Calls : (\A y \in Calls \ {x} : Followed(y)) /\ (Followed(x) \/ LoadedNow(x))
    BY <1>1 DEF CallStep
  <2>2. UNCHANGED <<row, admin>>
    BY <1>1 DEF CallStep
  <2>3. ASSUME NEW z \in Calls, call'[z].pc # "idle", call'[z].calm
        PROVE  /\ row # None /\ ~admin.proxied
               /\ \A y \in Calls : call'[y].pc # "idle" => call'[y].snap.proxy = row.proxy
    <3>1. row # None /\ ~admin.proxied /\ \A y \in Active : call[y].snap.proxy = row.proxy
      BY <2>1, <2>3 DEF CalmOK, Active, Followed, LoadedNow, Calm
    <3> QED BY <2>1, <3>1 DEF Active, Followed, LoadedNow
  <2>4. CalmOK'
    BY <2>2, <2>3 DEF CalmOK, Active
  <2>5. ASSUME NEW z \in Calls, call'[z].pc # "idle", call'[z].calm PROVE holds'[z] # "closed"
    <3>1. CASE z = x /\ LoadedNow(x)
      BY <3>1 DEF LoadedNow
    <3>2. CASE Followed(z)
      <4>1. call[z].pc # "idle" /\ call[z].calm /\ holds[z] # "closed"
        BY <2>5, <3>2 DEF Followed, AgentSurvives, Active
      <4>2. holds[z] = "cached" => agent = row.proxy
        BY <4>1 DEF AccessInv, CallsOK, CalmOK, Active
      <4>3. agent' # agent => agent' = row.proxy
        BY <1>1, <2>3, <2>5 DEF CallStep, AgentStep
      <4> QED BY <1>1, <4>1, <4>2, <4>3 DEF CallStep, AgentStep
    <3> QED BY <2>1, <3>1, <3>2
  <2> QED BY <2>4, <2>5 DEF AgentSurvives, Active
<1>2. CASE WriteRow
  <2>1. PICK new \in {None} \cup [cred: {row.cred, None, edits' + 1}, proxy: Proxies \cup {None}], proxied \in BOOLEAN :
          /\ new = None => proxied
          /\ ~proxied => new.proxy = row.proxy
          /\ row' = new /\ admin' = [busy |-> TRUE, proxied |-> proxied]
          /\ call' = [x \in Calls |-> [call[x] EXCEPT !.calm = @ /\ ~proxied]]
    BY <1>2 DEF WriteRow
  <2>2. \A x \in Calls : /\ call'[x].pc = call[x].pc /\ call'[x].snap = call[x].snap
                         /\ call'[x].calm => call[x].calm /\ ~proxied
    <3>1. ASSUME NEW c \in Call
          PROVE  LET d == [c EXCEPT !.calm = @ /\ ~proxied] IN
                 d.pc = c.pc /\ d.snap = c.snap /\ (d.calm => c.calm /\ ~proxied)
      BY DEF Call
    <3>2. \A x \in Calls : call[x] \in Call
      BY DEF AccessInv, TypeOK
    <3> QED BY ONLY <2>1, <3>1, <3>2
  <2>3. admin'.proxied = proxied /\ UNCHANGED holds
    BY <1>2, <2>1 DEF WriteRow, agents
  <2>4. CalmOK'
    <3>1. ~proxied => row' # None /\ row'.proxy = row.proxy
      BY <2>1
    <3>2. ASSUME NEW x \in Calls, call'[x].pc # "idle", call'[x].calm
          PROVE  /\ row' # None /\ ~admin'.proxied
                 /\ \A y \in Calls : call'[y].pc # "idle" => call'[y].snap.proxy = row'.proxy
      <4>1. call[x].pc # "idle" /\ call[x].calm /\ ~proxied
        BY ONLY <2>2, <3>2
      <4>2. \A y \in Active : call[y].snap.proxy = row.proxy
        BY <4>1 DEF CalmOK, Active
      <4> QED BY <2>2, <2>3, <3>1, <4>1, <4>2 DEF Active
    <3> QED BY <3>2 DEF CalmOK, Active
  <2> QED BY <2>2, <2>3, <2>4 DEF AgentSurvives, Active
<1>3. CASE Invalidate
  <2>1. admin' = NoAdmin /\ UNCHANGED <<row, call>>
    BY <1>3 DEF Invalidate
  <2>2. CalmOK'
    BY <2>1, RecordTypes DEF CalmOK, Active
  <2>3. ~admin.proxied => UNCHANGED holds
    BY <1>3 DEF Invalidate, agents
  <2> QED BY <2>1, <2>2, <2>3 DEF CalmOK, AgentSurvives, Active
<1>4. CASE UNCHANGED vars
  BY <1>4 DEF vars, agents, CalmOK, AgentSurvives, Active
<1> QED BY <1>1, <1>2, <1>3, <1>4, NextCallStep

-----------------------------------------------------------------------------
\* Every reachable state is well typed.
THEOREM AccessTypeCorrect == Spec => []TypeOK
<1>1. Init => AccessInv
  BY InitAccessInv
<1>2. AccessInv /\ [Next]_vars => AccessInv'
  BY NextAccessInv
<1>3. AccessInv => TypeOK
  BY DEF AccessInv
<1> QED BY <1>1, <1>2, <1>3, PTL DEF Spec

\* A call presents a token of the credentials it loaded, and uses an agent of the proxy it loaded,
\* whatever is updated, cached or joined meanwhile.
THEOREM LoadedSettings == Spec => []UsesLoadedSettings
<1>1. Init => AccessInv
  BY InitAccessInv
<1>2. AccessInv /\ [Next]_vars => AccessInv'
  BY NextAccessInv
<1>3. AccessInv => UsesLoadedSettings
  BY DEF AccessInv, CallsOK, UsesLoadedSettings, Active
<1> QED BY <1>1, <1>2, <1>3, PTL DEF Spec

\* The cache never has two exchanges for the same credentials under way.
THEOREM OneFlight == Spec => []SingleFlight
<1>1. Init => AccessInv
  BY InitAccessInv
<1>2. AccessInv /\ [Next]_vars => AccessInv'
  BY NextAccessInv
<1>3. AccessInv => SingleFlight
  BY DEF AccessInv, ExchangesOK, SingleFlight
<1> QED BY <1>1, <1>2, <1>3, PTL DEF Spec

\* Between two edits, tokens of superseded or deleted credentials are cached only if a call that had loaded
\* them was in progress when they were invalidated.
THEOREM OnlyStragglersLeaveTokens == Spec => []StaleOnlyFromStragglers
<1> DEFINE Inv == AccessInv /\ CredentialsOK /\ StaleOnlyFromStragglers
<1>1. Init => Inv
  BY InitAccessInv, RecordTypes DEF Init, StaleOnlyFromStragglers
<1>2. Inv /\ [Next]_vars => Inv'
  BY NextAccessInv, NextCredentials
<1>3. Inv => StaleOnlyFromStragglers
  OBVIOUS
<1> QED BY <1>1, <1>2, <1>3, PTL DEF Spec

\* An agent is not closed under a call as long as everybody uses the settings of the proxy it loaded.
THEOREM AgentKeptOpen == Spec => []AgentSurvives
<1> DEFINE Inv == AccessInv /\ CalmOK /\ AgentSurvives
<1>1. Init => Inv
  BY InitAccessInv, RecordTypes DEF Init, AgentSurvives, Active
<1>2. Inv /\ [Next]_vars => Inv'
  BY NextAccessInv, NextCalm
<1>3. Inv => AgentSurvives
  OBVIOUS
<1> QED BY <1>1, <1>2, <1>3, PTL DEF Spec

=============================================================================
