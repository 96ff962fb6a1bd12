------------------------ MODULE SsoSessions_proofs ------------------------
(***************************************************************************)
(* Types and foreign keys of SsoSessions, and the two guarantees of a      *)
(* sign-on, for every number of users, SPs, requests, sessions and         *)
(* handlers.                                                               *)
(***************************************************************************)
EXTENDS SsoSessions, TLAPS

USE SsoConstants

\* What the handlers in progress hold exists, and a session that was ever created names its user.
HandlersOK ==
    /\ \A l \in Logins : /\ login[l].pc # "idle" => login[l].user \in Users
                         /\ login[l].pc = "bind" => login[l].request \in Requests
    /\ \A c \in Completions : complete[c].pc # "idle" =>
          /\ complete[c].session \in Sessions /\ complete[c].request \in Requests
          /\ session[complete[c].session].state # "new"
    /\ \A t \in Terminators : /\ term[t].pc \in {"update", "propagate"} =>
                                   term[t].cur \in Sessions /\ session[term[t].cur].state # "new"
                              /\ term[t].pc \in {"write", "list"} => term[t].user \in Users
                              /\ term[t].kind = "slo" => term[t].id \in LogoutIds

SessionsOK ==
    \A s \in Sessions : /\ session[s].state = "new" => ~session[s].expired
                        /\ session[s].state # "new" => session[s].user \in Users

RowInv == TypeOK /\ HandlersOK /\ SessionsOK

LEMMA RecordTypes ==
    /\ NoLogin \in Login /\ NoComplete \in Complete /\ NoTerm \in Term
    /\ NoLogin.pc = "idle" /\ NoComplete.pc = "idle" /\ NoTerm.pc = "idle" /\ NoTerm.kind = "sessions"
  BY DEF NoLogin, Login, NoComplete, Complete, NoTerm, Term

LEMMA InitRowInv == Init => RowInv
<1> SUFFICES ASSUME Init PROVE RowInv
  OBVIOUS
<1>1. /\ login \in [Logins -> Login] /\ complete \in [Completions -> Complete]
      /\ term \in [Terminators -> Term]
  BY RecordTypes DEF Init
<1>2. request \in [Requests -> Request] /\ session \in [Sessions -> Session]
  BY DEF Init, Request, Session
<1>3. ReferencesOK
  BY DEF Init, ReferencesOK
<1>4. user \in [Users -> {"active", "inactive", "gone"}] /\ issued \in [Requests -> 0..2]
  BY DEF Init
<1>5. TypeOK
  BY <1>1, <1>2, <1>3, <1>4 DEF Init, TypeOK
<1>6. HandlersOK /\ SessionsOK
  BY RecordTypes DEF Init, HandlersOK, SessionsOK
<1> QED BY <1>5, <1>6 DEF RowInv

-----------------------------------------------------------------------------
(* Each handler keeps the rows and what it holds intact.                   *)

LEMMA LoginRowInv ==
  ASSUME RowInv, NEW l \in Logins, LoginStep(l)
  PROVE  RowInv'
<1> USE DEF RowInv, TypeOK, HandlersOK, SessionsOK, ReferencesOK, handlers, history
<1>1. ASSUME NEW u \in Users, NEW r \in Received \cup {None}, StartLogin(l, u, r) PROVE RowInv'
  <2>1. r \in Requests \cup {None}
    BY DEF Received
  <2>2. login' \in [Logins -> Login]
    BY <1>1, <2>1 DEF StartLogin, Login
  <2>3. HandlersOK'
    BY <1>1, <2>1, <2>2 DEF StartLogin
  <2> QED BY <1>1, <2>2, <2>3 DEF StartLogin
<1>2. CASE Bind(l)
  <2>1. login[l].user \in Users /\ login[l].request \in Requests
    BY <1>2 DEF Bind
  <2>0. \/ login' = [login EXCEPT ![l] = NoLogin]
        \/ login' = [login EXCEPT ![l].pc = "create", ![l].request = None]
    BY <1>2 DEF Bind
  <2>2. login' \in [Logins -> Login]
    <3>1. login \in [Logins -> Login]
      OBVIOUS
    <3>2. \A x \in Login : [x EXCEPT !.pc = "create", !.request = None] \in Login
      BY DEF Login
    <3>3. login[l] \in Login
      BY ONLY <3>1, l \in Logins
    <3>4. PICK x \in Login : login' = [login EXCEPT ![l] = x]
      <4>1. CASE login' = [login EXCEPT ![l] = NoLogin]
        BY ONLY <4>1, RecordTypes
      <4>2. CASE login' = [login EXCEPT ![l].pc = "create", ![l].request = None]
        <5>1. login' = [login EXCEPT ![l] = [login[l] EXCEPT !.pc = "create", !.request = None]]
          BY ONLY <4>2
        <5> QED BY ONLY <3>2, <3>3, <5>1
      <4> QED BY ONLY <2>0, <4>1, <4>2
    <3> QED BY ONLY <3>1, <3>4
  <2>6. \/ UNCHANGED request
        \/ /\ request' = [request EXCEPT ![login[l].request].user = login[l].user]
           /\ request[login[l].request].state = "pending" /\ user[login[l].user] # "gone"
    BY <1>2 DEF Bind, Pending
  <2>3. request' \in [Requests -> Request]
    <3>1. request \in [Requests -> Request]
      OBVIOUS
    <3>2. CASE UNCHANGED request
      BY ONLY <3>1, <3>2
    <3>3. CASE request' = [request EXCEPT ![login[l].request].user = login[l].user]
      <4>1. \A q \in Request : [q EXCEPT !.user = login[l].user] \in Request
        BY ONLY <2>1 DEF Request
      <4>2. request[login[l].request] \in Request
        BY ONLY <2>1, <3>1
      <4>3. request' = [request EXCEPT ![login[l].request] = [request[login[l].request] EXCEPT !.user = login[l].user]]
        BY ONLY <3>3
      <4> QED BY ONLY <3>1, <4>1, <4>2, <4>3
    <3> QED BY ONLY <2>6, <3>2, <3>3
  <2>4. ReferencesOK'
    <3>1. UNCHANGED <<user, session, part>>
      BY <1>2 DEF Bind
    <3>2. \A q \in Requests :
             /\ request'[q].state = request[q].state
             /\ request'[q].user # request[q].user => request'[q].user = login[l].user /\ user[login[l].user] # "gone"
      <4>1. CASE UNCHANGED request
        BY <4>1
      <4>2. ASSUME request' = [request EXCEPT ![login[l].request].user = login[l].user]
            PROVE  /\ \A q \in Requests \ {login[l].request} : request'[q] = request[q]
                   /\ request'[login[l].request].state = request[login[l].request].state
                   /\ request'[login[l].request].user = login[l].user
        <5>1. request \in [Requests -> Request]
          OBVIOUS
        <5> QED BY ONLY <2>1, <4>2, <5>1 DEF Request
      <4> QED BY ONLY <2>1, <2>6, <4>1, <4>2
    <3> QED BY <3>1, <3>2
  <2>5. HandlersOK'
    <3>1. UNCHANGED <<session, complete, term>>
      BY <1>2 DEF Bind
    <3>2. login'[l].pc # "bind" /\ (login'[l].pc # "idle" => login'[l].user = login[l].user)
      BY <2>0, RecordTypes DEF Login
    <3>3. \A k \in Logins : k # l => login'[k] = login[k]
      BY <2>0
    <3> QED BY <2>1, <3>1, <3>2, <3>3
  <2> QED BY <1>2, <2>2, <2>3, <2>4, <2>5 DEF Bind
<1>3. ASSUME NEW s \in Sessions, CreateSession(l, s) PROVE RowInv'
  <2>1. login[l].user \in Users
    BY <1>3 DEF CreateSession
  <2>2. login' \in [Logins -> Login]
    BY <1>3, RecordTypes DEF CreateSession, Login
  <2>3. session' \in [Sessions -> Session]
    BY <1>3, <2>1 DEF CreateSession, Session
  <2>6. \/ UNCHANGED session
        \/ /\ session' = [session EXCEPT ![s].state = "active", ![s].user = login[l].user]
           /\ session[s].state = "new"
    BY <1>3 DEF CreateSession
  <2>4. ReferencesOK' /\ SessionsOK'
    <3>1. UNCHANGED <<user, request, part>>
      BY <1>3 DEF CreateSession
    <3> QED BY <2>1, <2>6, <3>1 DEF Session
  <2>5. HandlersOK'
    BY <1>3, RecordTypes DEF CreateSession, Session
  <2> QED BY <1>3, <2>2, <2>3, <2>4, <2>5 DEF CreateSession
<1>4. CASE AbandonLogin(l)
  BY <1>4, RecordTypes DEF AbandonLogin
<1> QED BY <1>1, <1>2, <1>3, <1>4 DEF LoginStep

LEMMA CompleteRowInv ==
  ASSUME RowInv, NEW c \in Completions, CompleteStep(c)
  PROVE  RowInv'
<1> USE DEF RowInv, TypeOK, HandlersOK, SessionsOK, ReferencesOK, handlers, history
<1>1. ASSUME NEW s \in Sessions, NEW r \in Received, StartComplete(c, s, r) PROVE RowInv'
  <2>1. complete' \in [Completions -> Complete]
    BY <1>1 DEF StartComplete, Complete, Received
  <2>2. HandlersOK'
    BY <1>1 DEF StartComplete, IsActive, Received
  <2> QED BY <1>1, <2>1, <2>2 DEF StartComplete
<1>2. ASSUME NEW ok, NEW pc \in {"idle", "read", "profile", "issue"}, complete[c].pc # "idle",
             CompleteIf(c, ok, pc)
      PROVE  RowInv'
  <2>1. complete' \in [Completions -> Complete]
    BY <1>2, RecordTypes DEF CompleteIf, Complete
  <2>2. HandlersOK'
    BY <1>2, RecordTypes DEF CompleteIf, Complete
  <2> QED BY <1>2, <2>1, <2>2 DEF CompleteIf
<1>3. CASE Recheck(c) \/ ReadRequest(c) \/ CompleteProfile(c) \/ AbandonComplete(c)
  BY <1>2, <1>3 DEF Recheck, ReadRequest, CompleteProfile, AbandonComplete
<1>4. CASE Issue(c)
  <2> DEFINE s == complete[c].session
             r == complete[c].request
  <2>1. s \in Sessions /\ r \in Requests /\ session[s].state # "new" /\ session[s].user \in Users
    BY <1>4 DEF Issue
  <2>2. \/ UNCHANGED <<request, part, issued, late>>
        \/ /\ part' = part \cup {<<s, r, session[s].user>>} /\ session[s].state # "gone"
           /\ request' = [request EXCEPT ![r].state = "gone"]
           /\ issued' = [issued EXCEPT ![r] = IF @ = 2 THEN 2 ELSE @ + 1]
           /\ late' \subseteq late \cup {<<s, r, session[s].user>>}
    BY <1>4 DEF Issue
  <2>3. complete' \in [Completions -> Complete] /\ HandlersOK'
    BY <1>4, RecordTypes DEF Issue
  <2>4. UNCHANGED <<user, session, queued, active, login, term, lost, spared>>
    BY <1>4 DEF Issue
  <2> HIDE DEF s, r
  <2>5. request' \in [Requests -> Request]
    <3>1. request \in [Requests -> Request]
      OBVIOUS
    <3>2. UNCHANGED request \/ request' = [request EXCEPT ![r].state = "gone"]
      BY <2>2
    <3> QED BY ONLY <2>1, <3>1, <3>2 DEF Request
  <2>6. issued' \in [Requests -> 0..2]
    BY <2>1, <2>2
  <2>7. part' \subseteq Sessions \X Requests \X Users /\ late' \subseteq Sessions \X Requests \X Users
    BY <2>1, <2>2
  <2>8. ReferencesOK'
    <3>1. \A q \in Requests :
             /\ request'[q].user = request[q].user
             /\ request'[q].state # request[q].state => request'[q].state = "gone"
      BY <2>1, <2>2 DEF Request
    <3>2. CASE UNCHANGED <<request, part, issued, late>>
      BY <2>4, <3>2
    <3>3. CASE /\ part' = part \cup {<<s, r, session[s].user>>} /\ session[s].state # "gone"
               /\ request' = [request EXCEPT ![r].state = "gone"]
      <4>1. request'[r].state = "gone"
        BY <2>1, <3>3 DEF Request
      <4>2. ASSUME NEW d \in part' PROVE d \in part \/ (d[1] = s /\ d[2] = r)
        BY <3>3
      <4>3. \A d \in part : d[2] \in Requests
        OBVIOUS
      <4> QED BY <2>1, <2>4, <3>1, <3>3, <4>1, <4>2, <4>3
    <3> QED BY <2>2, <3>2, <3>3
  <2> QED BY <2>3, <2>4, <2>5, <2>6, <2>7, <2>8
<1> QED BY <1>1, <1>3, <1>4 DEF CompleteStep

\* What terminates sessions holds the sessions, the user or the LogoutRequest it was started with.
TermOK(x) ==
    /\ x \in Term
    /\ x.pc \in {"update", "propagate"} => x.cur \in Sessions /\ session[x.cur].state # "new"
    /\ x.pc \in {"write", "list"} => x.user \in Users
    /\ x.kind = "slo" => x.id \in LogoutIds

\* A step that only gives t the record x.
LEMMA TermSet ==
  ASSUME RowInv, NEW t \in Terminators, NEW x, TermOK(x), term' = [term EXCEPT ![t] = x],
         UNCHANGED <<user, request, session, part, queued, active, login, complete, history>>
  PROVE  RowInv'
  BY DEF RowInv, TypeOK, HandlersOK, SessionsOK, ReferencesOK, history, TermOK

LEMMA StartTermRowInv ==
  ASSUME RowInv, NEW t \in Terminators, NEW x, TermOK(x), StartTerm(t, x)
  PROVE  RowInv'
  BY TermSet DEF StartTerm

LEMMA NoTermOK == TermOK(NoTerm)
  BY DEF TermOK, NoTerm, Term

\* How a termination under way moves on.
LEMMA TermMoves ==
  ASSUME RowInv, NEW t \in Terminators
  PROVE  /\ TermOK(term[t])
         /\ term[t].pc \in {"write", "list"} => \A ss \in SUBSET Sessions :
              /\ TermOK([term[t] EXCEPT !.pc = "list", !.old = ss])
              /\ TermOK([term[t] EXCEPT !.pc = "loop", !.todo = ss])
         /\ \A s \in Sessions :
              /\ session[s].state # "new" => TermOK([term[t] EXCEPT !.pc = "update", !.cur = s])
              /\ TermOK([term[t] EXCEPT !.todo = @ \ {s}])
         /\ term[t].pc = "update" => TermOK([term[t] EXCEPT !.pc = "propagate"])
         /\ TermOK([term[t] EXCEPT !.pc = "loop", !.cur = None, !.todo = @ \ {term[t].cur}])
<1>1. TermOK(term[t])
  BY DEF RowInv, TypeOK, HandlersOK, TermOK
<1>2. ASSUME NEW x, TermOK(x)
      PROVE  /\ x.pc \in {"write", "list"} => \A ss \in SUBSET Sessions :
                   /\ TermOK([x EXCEPT !.pc = "list", !.old = ss])
                   /\ TermOK([x EXCEPT !.pc = "loop", !.todo = ss])
             /\ \A s \in Sessions :
                   /\ session[s].state # "new" => TermOK([x EXCEPT !.pc = "update", !.cur = s])
                   /\ TermOK([x EXCEPT !.todo = @ \ {s}])
             /\ x.pc = "update" => TermOK([x EXCEPT !.pc = "propagate"])
             /\ TermOK([x EXCEPT !.pc = "loop", !.cur = None, !.todo = @ \ {x.cur}])
  <2>1. /\ \A ss \in SUBSET Sessions :
             [x EXCEPT !.pc = "list", !.old = ss] \in Term /\ [x EXCEPT !.pc = "loop", !.todo = ss] \in Term
        /\ \A s \in Sessions : [x EXCEPT !.pc = "update", !.cur = s] \in Term
        /\ \A s \in Sessions : [x EXCEPT !.todo = @ \ {s}] \in Term
        /\ [x EXCEPT !.pc = "propagate"] \in Term
        /\ [x EXCEPT !.pc = "loop", !.cur = None, !.todo = @ \ {x.cur}] \in Term
    BY <1>2 DEF TermOK, Term
  <2>2. ASSUME x.pc \in {"write", "list"}, NEW ss \in SUBSET Sessions
        PROVE  TermOK([x EXCEPT !.pc = "list", !.old = ss]) /\ TermOK([x EXCEPT !.pc = "loop", !.todo = ss])
    <3> DEFINE y == [x EXCEPT !.pc = "list", !.old = ss]
               z == [x EXCEPT !.pc = "loop", !.todo = ss]
    <3>1. y.pc = "list" /\ y.kind = x.kind /\ y.id = x.id /\ y.user = x.user
      BY <1>2 DEF TermOK, Term
    <3>2. z.pc = "loop" /\ z.kind = x.kind /\ z.id = x.id
      BY <1>2 DEF TermOK, Term
    <3> QED BY <1>2, <2>1, <2>2, <3>1, <3>2 DEF TermOK
  <2>3. ASSUME NEW s \in Sessions
        PROVE  /\ session[s].state # "new" => TermOK([x EXCEPT !.pc = "update", !.cur = s])
               /\ TermOK([x EXCEPT !.todo = @ \ {s}])
    <3> DEFINE y == [x EXCEPT !.pc = "update", !.cur = s]
               z == [x EXCEPT !.todo = @ \ {s}]
    <3>1. y.pc = "update" /\ y.kind = x.kind /\ y.id = x.id /\ y.cur = s
      BY <1>2 DEF TermOK, Term
    <3>2. z.pc = x.pc /\ z.kind = x.kind /\ z.id = x.id /\ z.user = x.user /\ z.cur = x.cur
      BY <1>2 DEF TermOK, Term
    <3>3. session[s].state # "new" => TermOK(y)
      BY <1>2, <2>1, <3>1 DEF TermOK
    <3>4. TermOK(z)
      BY <1>2, <2>1, <3>2 DEF TermOK
    <3> QED BY <3>3, <3>4
  <2>4. x.pc = "update" => TermOK([x EXCEPT !.pc = "propagate"])
    <3> DEFINE y == [x EXCEPT !.pc = "propagate"]
    <3>1. y.pc = "propagate" /\ y.kind = x.kind /\ y.id = x.id /\ y.cur = x.cur
      BY <1>2 DEF TermOK, Term
    <3> QED BY <1>2, <2>1, <3>1 DEF TermOK
  <2>5. TermOK([x EXCEPT !.pc = "loop", !.cur = None, !.todo = @ \ {x.cur}])
    <3> DEFINE y == [x EXCEPT !.pc = "loop", !.cur = None, !.todo = @ \ {x.cur}]
    <3>1. y.pc = "loop" /\ y.kind = x.kind /\ y.id = x.id
      BY <1>2 DEF TermOK, Term
    <3> QED BY <1>2, <2>1, <3>1 DEF TermOK
  <2> QED BY <2>2, <2>3, <2>4, <2>5
<1> QED BY <1>1, <1>2

LEMMA RemoveUserRows ==
  ASSUME RowInv, NEW u, RemoveUser(u), UNCHANGED <<session, part>>
  PROVE  /\ user' \in [Users -> {"active", "inactive", "gone"}] /\ request' \in [Requests -> Request]
         /\ ReferencesOK'
<1>1. user \in [Users -> {"active", "inactive", "gone"}] /\ request \in [Requests -> Request]
  BY DEF RowInv, TypeOK
<1>2. user' \in [Users -> {"active", "inactive", "gone"}]
  BY <1>1 DEF RemoveUser
<1>3. request' \in [Requests -> Request]
  <2>1. \A x \in Request : [x EXCEPT !.user = None] \in Request
    BY DEF Request
  <2> QED BY <1>1, <2>1 DEF RemoveUser
<1>4. \A r \in Requests : /\ request'[r].state = request[r].state
                          /\ \/ request'[r].user = None
                             \/ request'[r].user = request[r].user /\ request[r].user # u
  BY <1>1 DEF RemoveUser, Request
<1>5. \A v \in Users : user'[v] = "gone" => user[v] = "gone" \/ v = u
  BY <1>1 DEF RemoveUser
<1>6. \A r \in Requests : request[r].user # None => request[r].user \in Users /\ user[request[r].user] # "gone"
  BY <1>1 DEF RowInv, TypeOK, ReferencesOK, Request
<1>7. \A d \in part : d[2] \in Requests
  BY DEF RowInv, TypeOK
<1>8. \A r \in Requests : request'[r].user # None => user'[request'[r].user] # "gone"
  BY <1>4, <1>5, <1>6
<1> QED BY <1>2, <1>3, <1>4, <1>7, <1>8 DEF RowInv, TypeOK, ReferencesOK

LEMMA ChooseRowInv ==
  ASSUME RowInv, NEW t \in Terminators,
         \/ \E ids \in SUBSET Created : ids # {} /\ TerminateSessions(t, ids)
         \/ TerminateAllActive(t)
         \/ \E u \in Users : TerminateAllForUser(t, u)
         \/ \E u \in Managed : StartDeactivate(t, u) \/ StartDelete(t, u)
         \/ \E i \in LogoutIds : ReceiveLogout(t, i)
  PROVE  RowInv'
<1>1. ASSUME NEW todo \in SUBSET Sessions, StartTerm(t, [NoTerm EXCEPT !.pc = "loop", !.todo = todo])
      PROVE  RowInv'
  <2>1. TermOK([NoTerm EXCEPT !.pc = "loop", !.todo = todo])
    BY DEF TermOK, NoTerm, Term
  <2> QED BY ONLY <1>1, <2>1, StartTermRowInv, RowInv, t \in Terminators
<1>2. CASE \E ids \in SUBSET Created : ids # {} /\ TerminateSessions(t, ids)
  BY <1>1, <1>2 DEF TerminateSessions, Created
<1>3. CASE TerminateAllActive(t)
  BY <1>1, <1>3 DEF TerminateAllActive
<1>4. ASSUME NEW u \in Users, TerminateAllForUser(t, u) PROVE RowInv'
  <2>1. ActiveOf(u) \in SUBSET Sessions
    BY DEF ActiveOf
  <2> QED BY ONLY <1>1, <1>4, <2>1 DEF TerminateAllForUser
<1>5. ASSUME NEW u \in Managed, StartDeactivate(t, u) \/ StartDelete(t, u)
      PROVE  RowInv'
  <2>1. /\ TermOK([NoTerm EXCEPT !.pc = "write", !.kind = "deactivate", !.user = u])
        /\ TermOK([NoTerm EXCEPT !.pc = "list", !.kind = "delete", !.user = u])
    BY DEF TermOK, NoTerm, Term
  <2> QED BY ONLY <1>5, <2>1, StartTermRowInv, RowInv, t \in Terminators DEF StartDeactivate, StartDelete
<1>6. ASSUME NEW i \in LogoutIds, ReceiveLogout(t, i)
      PROVE  RowInv'
  <2>1. PICK ids \in SUBSET Sessions :
               StartTerm(t, [NoTerm EXCEPT !.pc = "loop", !.kind = "slo", !.id = i, !.todo = ids])
    <3>1. Matches(i) \subseteq Sessions
      BY DEF Matches
    <3>2. PICK ids \in (IF Matches(i) = {} THEN {{}} ELSE {{s} : s \in Matches(i)}) :
               StartTerm(t, [NoTerm EXCEPT !.pc = "loop", !.kind = "slo", !.id = i, !.todo = ids])
      BY ONLY <1>6 DEF ReceiveLogout
    <3>3. ids \in SUBSET Sessions
      BY ONLY <3>1, <3>2
    <3> QED BY ONLY <3>2, <3>3
  <2>2. TermOK([NoTerm EXCEPT !.pc = "loop", !.kind = "slo", !.id = i, !.todo = ids])
    BY DEF TermOK, NoTerm, Term
  <2> QED BY ONLY <2>1, <2>2, StartTermRowInv, RowInv, t \in Terminators
<1> QED BY <1>2, <1>3, <1>4, <1>5, <1>6

LEMMA TermRowInv ==
  ASSUME RowInv, NEW t \in Terminators,
         \/ DeactivateUser(t) \/ ListSessions(t)
         \/ \E s \in Sessions : ReadStatus(t, s)
         \/ Terminate(t) \/ Propagate(t) \/ PropagateFails(t) \/ Finish(t)
         \/ AbandonTerm(t)
  PROVE  RowInv'
<1> USE DEF RowInv, TypeOK, history
<1>0. \A u : ActiveOf(u) \in SUBSET Sessions
  BY DEF ActiveOf
<1>1. CASE DeactivateUser(t)
  <2>1. \/ UNCHANGED user
        \/ user[term[t].user] # "gone" /\ user' = [user EXCEPT ![term[t].user] = "inactive"]
    BY <1>1 DEF DeactivateUser
  <2>2. PICK x : TermOK(x) /\ term' = [term EXCEPT ![t] = x]
    BY <1>0, <1>1, TermMoves, NoTermOK DEF DeactivateUser
  <2>3. term' \in [Terminators -> Term] /\ HandlersOK'
    BY <1>1, <2>2 DEF DeactivateUser, HandlersOK, TermOK
  <2>4. user' \in [Users -> {"active", "inactive", "gone"}]
    BY <2>1
  <2>5. ReferencesOK'
    BY <1>1, <2>1 DEF DeactivateUser, ReferencesOK, Request
  <2> QED BY <1>1, <2>3, <2>4, <2>5 DEF DeactivateUser, SessionsOK
<1>2. CASE ListSessions(t)
  <2> DEFINE x == [term[t] EXCEPT !.pc = "loop", !.todo = ActiveOf(term[t].user)]
  <2>1. term' = [term EXCEPT ![t] = x]
    BY <1>2 DEF ListSessions
  <2>2. TermOK(x)
    BY <1>0, <1>2, TermMoves DEF ListSessions
  <2> QED BY ONLY <1>2, <2>1, <2>2, TermSet, RowInv, t \in Terminators DEF ListSessions
<1>3. ASSUME NEW s \in Sessions, ReadStatus(t, s) PROVE RowInv'
  <2>1. PICK x : TermOK(x) /\ term' = [term EXCEPT ![t] = x]
    <3>1. /\ session[s].state # "new" => TermOK([term[t] EXCEPT !.pc = "update", !.cur = s])
          /\ TermOK([term[t] EXCEPT !.todo = @ \ {s}])
      BY TermMoves
    <3>2. \/ session[s].state # "new" /\ term' = [term EXCEPT ![t] = [term[t] EXCEPT !.pc = "update", !.cur = s]]
          \/ term' = [term EXCEPT ![t] = [term[t] EXCEPT !.todo = @ \ {s}]]
      BY <1>3 DEF ReadStatus
    <3> QED BY <3>1, <3>2
  <2> QED BY ONLY <1>3, <2>1, TermSet, RowInv, t \in Terminators DEF ReadStatus
<1>4. CASE Terminate(t)
  <2>1. term[t].cur \in Sessions /\ session[term[t].cur].state # "new"
    BY <1>4 DEF Terminate, HandlersOK
  <2>2. PICK x : TermOK(x) /\ term' = [term EXCEPT ![t] = x]
    BY <1>4, <2>1, TermMoves, NoTermOK DEF Terminate
  <2>3. Initiator(t) \subseteq SPs
    BY DEF Initiator, HandlersOK
  <2>4. \/ UNCHANGED <<session, spared>>
        \/ /\ session[term[t].cur].state # "gone"
           /\ session' = [session EXCEPT ![term[t].cur].state = "terminated"]
           /\ spared' \subseteq Sessions \X SPs
    BY <1>4, <2>1, <2>3 DEF Terminate
  <2>5. ASSUME NEW y \in Session
        PROVE  /\ [y EXCEPT !.state = "terminated"] \in Session
               /\ [y EXCEPT !.state = "terminated"].state = "terminated"
               /\ [y EXCEPT !.state = "terminated"].user = y.user
               /\ [y EXCEPT !.state = "terminated"].expired = y.expired
    BY DEF Session
  <2>6. session \in [Sessions -> Session]
    OBVIOUS
  <2>7. \A r \in Sessions : \/ session'[r] = session[r]
                            \/ /\ session[r].state \notin {"new", "gone"}
                               /\ session'[r] = [session[r] EXCEPT !.state = "terminated"]
    BY <2>1, <2>4, <2>6
  <2>8. session' \in [Sessions -> Session] /\ spared' \subseteq Sessions \X SPs
    <3>1. \A r \in Sessions : session'[r] \in Session
      BY ONLY <2>5, <2>6, <2>7
    <3> QED BY <2>4, <2>6, <3>1
  <2>9. HandlersOK' /\ SessionsOK' /\ ReferencesOK'
    <3>1. \A r \in Sessions : /\ session'[r].user = session[r].user /\ session'[r].expired = session[r].expired
                              /\ session[r].state \notin {"new", "gone"} =>
                                   session'[r].state \notin {"new", "gone"}
                              /\ session'[r].state = "new" <=> session[r].state = "new"
      BY ONLY <2>5, <2>6, <2>7
    <3>2. UNCHANGED <<user, request, part, login, complete>>
      BY <1>4 DEF Terminate
    <3>3. HandlersOK'
      BY <2>2, <3>1, <3>2 DEF HandlersOK, TermOK
    <3>4. SessionsOK'
      BY <3>1 DEF SessionsOK
    <3>5. ReferencesOK'
      BY <3>1, <3>2 DEF ReferencesOK, Session
    <3> QED BY <3>3, <3>4, <3>5
  <2>10. term' \in [Terminators -> Term]
    BY <2>2 DEF TermOK
  <2> QED BY <1>4, <2>8, <2>9, <2>10 DEF Terminate
<1>5. CASE Propagate(t) \/ PropagateFails(t)
  <2>1. term[t].cur \in Sessions
    BY <1>5 DEF Propagate, PropagateFails, HandlersOK
  <2>2. \A s : Participants(s) \subseteq SPs
    BY DEF Participants
  <2>3. queued' \subseteq Sessions \X SPs /\ spared' \subseteq Sessions \X SPs /\ lost' \subseteq Sessions
    BY <1>5, <2>1, <2>2 DEF Propagate, PropagateFails
  <2> DEFINE x == [term[t] EXCEPT !.pc = "loop", !.cur = None, !.todo = @ \ {term[t].cur}]
  <2>4. term' = [term EXCEPT ![t] = x]
    BY <1>5 DEF Propagate, PropagateFails, NextSession
  <2>5. TermOK(x)
    BY TermMoves
  <2> HIDE DEF x
  <2>6. term' \in [Terminators -> Term] /\ HandlersOK'
    BY <1>5, <2>4, <2>5 DEF TermOK, HandlersOK, Propagate, PropagateFails
  <2> QED BY <1>5, <2>3, <2>6 DEF Propagate, PropagateFails, SessionsOK, ReferencesOK
<1>6. CASE Finish(t)
  <2>1. term' \in [Terminators -> Term] /\ HandlersOK'
    BY <1>6, RecordTypes DEF Finish, HandlersOK
  <2>2. \/ UNCHANGED <<user, request>>
        \/ RemoveUser(term[t].user)
    BY <1>6 DEF Finish
  <2>3. UNCHANGED <<session, part, queued, active, login, complete, history>>
    BY <1>6 DEF Finish
  <2>4. /\ user' \in [Users -> {"active", "inactive", "gone"}] /\ request' \in [Requests -> Request]
        /\ ReferencesOK'
    BY <2>2, <2>3, RemoveUserRows DEF ReferencesOK
  <2> QED BY <2>1, <2>3, <2>4 DEF SessionsOK
<1>7. CASE AbandonTerm(t)
  <2>1. lost' \subseteq Sessions
    BY <1>7 DEF AbandonTerm, HandlersOK
  <2>2. term' \in [Terminators -> Term] /\ HandlersOK'
    BY <1>7, RecordTypes DEF AbandonTerm, HandlersOK
  <2> QED BY <1>7, <2>1, <2>2 DEF AbandonTerm, SessionsOK, ReferencesOK
<1> QED BY <1>1, <1>2, <1>3, <1>4, <1>5, <1>6, <1>7

LEMMA RowsRowInv ==
  ASSUME RowInv,
         \/ \E r \in Requests : ReceiveRequest(r) \/ RequestExpires(r)
         \/ \E u \in Managed : UserChanges(u) \/ SourceRemoved(u)
         \/ \E p \in Editable : EditSp(p)
         \/ \E s \in Sessions : SessionExpires(s)
         \/ Purge
  PROVE  RowInv'
<1> USE DEF RowInv, TypeOK
<1>1. ASSUME NEW r \in Requests, ReceiveRequest(r) \/ RequestExpires(r) PROVE RowInv'
  <2>1. UNCHANGED <<user, session, part, queued, active, handlers, history>>
    BY <1>1 DEF ReceiveRequest, RequestExpires
  <2>5. \A x \in Request :
          /\ [x EXCEPT !.state = "pending"] \in Request /\ [x EXCEPT !.state = "pending"].user = x.user
          /\ [x EXCEPT !.expired = TRUE] \in Request /\ [x EXCEPT !.expired = TRUE].user = x.user
    BY DEF Request
  <2>6. /\ request[r].state # "gone" /\ request[r] \in Request
        /\ \/ request' = [request EXCEPT ![r] = [request[r] EXCEPT !.state = "pending"]]
           \/ request' = [request EXCEPT ![r] = [request[r] EXCEPT !.expired = TRUE]]
    BY <1>1 DEF ReceiveRequest, RequestExpires, Pending
  <2>7. PICK x \in Request : x.user = request[r].user /\ request' = [request EXCEPT ![r] = x]
    BY ONLY <2>5, <2>6
  <2>8. request \in [Requests -> Request]
    OBVIOUS
  <2>2. request' \in [Requests -> Request]
    BY ONLY <2>7, <2>8
  <2>3. \A q \in Requests : /\ request'[q].user = request[q].user
                            /\ request[q].state = "gone" => request'[q].state = "gone"
    BY ONLY <2>6, <2>7, <2>8
  <2>4. ReferencesOK'
    BY <2>1, <2>3 DEF ReferencesOK
  <2> QED BY <2>1, <2>2, <2>4 DEF handlers, history, HandlersOK, SessionsOK
<1>2. ASSUME NEW u \in Managed, UserChanges(u) PROVE RowInv'
  <2>1. UNCHANGED <<request, session, part, queued, active, handlers, history>>
    BY <1>2 DEF UserChanges
  <2>2. user' \in [Users -> {"active", "inactive", "gone"}]
    BY <1>2 DEF UserChanges
  <2>3. \A v \in Users : user'[v] = "gone" => user[v] = "gone"
    BY <1>2 DEF UserChanges
  <2>4. ReferencesOK'
    BY <2>1, <2>3 DEF ReferencesOK, Request
  <2> QED BY <2>1, <2>2, <2>4 DEF handlers, history, HandlersOK, SessionsOK
<1>3. ASSUME NEW u \in Managed, SourceRemoved(u) PROVE RowInv'
  <2>1. UNCHANGED <<session, part, queued, active, handlers, history>> /\ RemoveUser(u)
    BY <1>3 DEF SourceRemoved
  <2>2. /\ user' \in [Users -> {"active", "inactive", "gone"}] /\ request' \in [Requests -> Request]
        /\ ReferencesOK'
    BY <2>1, RemoveUserRows
  <2> QED BY <2>1, <2>2 DEF handlers, history, HandlersOK, SessionsOK
<1>4. ASSUME NEW s \in Sessions, SessionExpires(s) PROVE RowInv'
  <2>1. UNCHANGED <<user, request, part, queued, active, handlers, history>>
    BY <1>4 DEF SessionExpires
  <2>5. \A x \in Session : /\ [x EXCEPT !.expired = TRUE] \in Session
                           /\ [x EXCEPT !.expired = TRUE].state = x.state
                           /\ [x EXCEPT !.expired = TRUE].user = x.user
    BY DEF Session
  <2>6. /\ session[s].state # "new" /\ session[s] \in Session
        /\ session' = [session EXCEPT ![s] = [session[s] EXCEPT !.expired = TRUE]]
    BY <1>4 DEF SessionExpires
  <2>2. session' \in [Sessions -> Session]
    BY <2>5, <2>6
  <2>3. /\ session[s].state # "new"
        /\ \A x \in Sessions : /\ session'[x].state = session[x].state
                               /\ session'[x].user = session[x].user
                               /\ x # s => session'[x].expired = session[x].expired
    BY <2>5, <2>6
  <2>4. ReferencesOK' /\ HandlersOK' /\ SessionsOK'
    BY <2>1, <2>3 DEF handlers, HandlersOK, SessionsOK, ReferencesOK
  <2> QED BY <2>1, <2>2, <2>4 DEF handlers, history
<1>5. CASE Purge
  <2>1. UNCHANGED <<user, queued, active, handlers, history>> /\ part' = {d \in part : ~session[d[1]].expired}
    BY <1>5 DEF Purge
  <2>2. \A x \in Request : [x EXCEPT !.state = "gone"] \in Request
    BY DEF Request
  <2>3. \A x \in Session : [x EXCEPT !.state = "gone"] \in Session
    BY DEF Session
  <2>4. request' \in [Requests -> Request] /\ session' \in [Sessions -> Session]
    BY <1>5, <2>2, <2>3 DEF Purge
  <2>5. \A r \in Requests : /\ request'[r].user = request[r].user
                            /\ request[r].state = "gone" => request'[r].state = "gone"
    BY <1>5 DEF Purge, Request
  <2>6. \A x \in Sessions : /\ session'[x].user = session[x].user /\ session'[x].expired = session[x].expired
                            /\ ~session[x].expired => session'[x].state = session[x].state
                            /\ session[x].expired => session'[x].state = "gone"
    BY <1>5 DEF Purge, Session
  <2>7. ReferencesOK'
    <3>1. \A d \in part' : d \in part /\ d[1] \in Sessions /\ d[2] \in Requests /\ ~session[d[1]].expired
      BY <2>1
    <3> QED BY <2>1, <2>5, <2>6, <3>1 DEF ReferencesOK
  <2>8. HandlersOK' /\ SessionsOK'
    BY <2>1, <2>6 DEF handlers, HandlersOK, SessionsOK
  <2> QED BY <2>1, <2>4, <2>7, <2>8 DEF handlers, history
<1>6. ASSUME NEW p \in Editable, EditSp(p) PROVE RowInv'
  BY <1>6 DEF EditSp, handlers, history, HandlersOK, SessionsOK, ReferencesOK
<1> QED BY <1>1, <1>2, <1>3, <1>4, <1>5, <1>6

LEMMA RowInvStep == RowInv /\ [Next]_vars => RowInv'
<1> SUFFICES ASSUME RowInv, [Next]_vars PROVE RowInv'
  OBVIOUS
<1>1. CASE UNCHANGED vars
  BY <1>1 DEF vars, handlers, history, RowInv, TypeOK, ReferencesOK, HandlersOK, SessionsOK
<1>2. CASE \E l \in Logins : LoginStep(l)
  BY <1>2, LoginRowInv
<1>3. CASE \E c \in Completions : CompleteStep(c)
  BY <1>3, CompleteRowInv
<1>4. CASE \E t \in Terminators : TermStep(t)
  BY <1>4, ChooseRowInv, TermRowInv DEF TermStep
<1> QED BY <1>1, <1>2, <1>3, <1>4, RowsRowInv DEF Next

LEMMA RowInvAlways == Spec => []RowInv
  BY InitRowInv, RowInvStep, PTL DEF Spec

\* All state keeps its type and no row refers to one that does not exist: a request's user, a
\* participation's session, although users are deleted and sessions purged between any two awaits.
THEOREM SsoTypeCorrect == Spec => []TypeOK
<1>1. RowInv => TypeOK
  BY DEF RowInv
<1> QED BY <1>1, RowInvAlways, PTL

-----------------------------------------------------------------------------
(* One assertion for a request: the transaction that issues it deletes the *)
(* row, and a deleted row never comes back.                                *)

AnsweredIsGone == \A r \in Requests : issued[r] = 0 \/ (issued[r] = 1 /\ request[r].state = "gone")

\* No step brings a request back, and issued counts only what Issue answers.
LEMMA RequestSteps ==
  ASSUME RowInv, [Next]_vars
  PROVE  \A r \in Requests :
           /\ request[r].state = "gone" => request'[r].state = "gone"
           /\ \/ issued'[r] = issued[r]
              \/ /\ request[r].state = "pending" /\ request'[r].state = "gone"
                 /\ issued'[r] = IF issued[r] = 2 THEN 2 ELSE issued[r] + 1
<1> DEFINE G(r) == /\ request[r].state = "gone" => request'[r].state = "gone"
                   /\ \/ issued'[r] = issued[r]
                      \/ /\ request[r].state = "pending" /\ request'[r].state = "gone"
                         /\ issued'[r] = IF issued[r] = 2 THEN 2 ELSE issued[r] + 1
<1>0. request \in [Requests -> Request] /\ issued \in [Requests -> 0..2]
  BY DEF RowInv, TypeOK
<1>1. ASSUME UNCHANGED <<request, issued>> PROVE \A r \in Requests : G(r)
  BY <1>1
<1>2. ASSUME UNCHANGED issued, NEW u, RemoveUser(u) PROVE \A r \in Requests : G(r)
  BY <1>0, <1>2 DEF RemoveUser, Request
<1>3. CASE UNCHANGED vars
  BY <1>1, <1>3 DEF vars, history
<1>4. ASSUME NEW r \in Requests, ReceiveRequest(r) \/ RequestExpires(r) PROVE \A q \in Requests : G(q)
  BY <1>0, <1>4 DEF ReceiveRequest, RequestExpires, Pending, Request, history
<1>5. ASSUME NEW l \in Logins, LoginStep(l) PROVE \A r \in Requests : G(r)
  <2>1. CASE Bind(l)
    BY <1>0, <2>1 DEF Bind, Pending, Request, history
  <2>2. UNCHANGED <<request, issued>> \/ Bind(l)
    BY <1>5 DEF LoginStep, StartLogin, CreateSession, AbandonLogin, history
  <2> QED BY <1>1, <2>1, <2>2
<1>6. ASSUME NEW c \in Completions, CompleteStep(c) PROVE \A r \in Requests : G(r)
  <2>1. CASE Issue(c)
    <3>1. complete[c].request \in Requests
      BY <2>1 DEF Issue, RowInv, HandlersOK
    <3>2. \/ UNCHANGED <<request, issued>>
          \/ /\ request[complete[c].request].state = "pending"
             /\ request' = [request EXCEPT ![complete[c].request].state = "gone"]
             /\ issued' = [issued EXCEPT ![complete[c].request] = IF @ = 2 THEN 2 ELSE @ + 1]
      BY <2>1 DEF Issue
    <3> QED BY <1>0, <3>1, <3>2 DEF Request
  <2>2. UNCHANGED <<request, issued>> \/ Issue(c)
    BY <1>6 DEF CompleteStep, StartComplete, Recheck, ReadRequest, CompleteProfile, AbandonComplete,
                CompleteIf, history
  <2> QED BY <1>1, <2>1, <2>2
<1>7. ASSUME NEW t \in Terminators, TermStep(t) PROVE \A r \in Requests : G(r)
  <2>1. CASE Finish(t)
    BY <1>1, <1>2, <2>1 DEF Finish, history
  <2>2. UNCHANGED <<request, issued>> \/ Finish(t)
    BY <1>7 DEF TermStep, TerminateSessions, TerminateAllActive, TerminateAllForUser, StartDeactivate,
                StartDelete, ReceiveLogout, StartTerm, DeactivateUser, ListSessions, ReadStatus, Terminate,
                Propagate, PropagateFails, AbandonTerm, history
  <2> QED BY <1>1, <2>1, <2>2
<1>8. ASSUME NEW u \in Managed, UserChanges(u) \/ SourceRemoved(u) PROVE \A r \in Requests : G(r)
  BY <1>1, <1>2, <1>8 DEF UserChanges, SourceRemoved, EditSp, history
<1>9. ASSUME NEW s \in Sessions, SessionExpires(s) PROVE \A r \in Requests : G(r)
  BY <1>1, <1>9 DEF SessionExpires, history
<1>10. CASE Purge
  BY <1>0, <1>10 DEF Purge, Request, history
<1>11. ASSUME NEW p \in Editable, EditSp(p) PROVE \A r \in Requests : G(r)
  BY <1>1, <1>11 DEF EditSp, history
<1> QED BY <1>3, <1>4, <1>5, <1>6, <1>7, <1>8, <1>9, <1>10, <1>11 DEF Next

\* Whatever tabs, sessions and logins race for an AuthnRequest, it is answered at most once.
THEOREM OneAnswer == Spec => []OneAssertionPerRequest
<1>1. Init => AnsweredIsGone
  BY DEF Init, AnsweredIsGone
<1>2. RowInv /\ AnsweredIsGone /\ [Next]_vars => AnsweredIsGone'
  <2> SUFFICES ASSUME RowInv, AnsweredIsGone, [Next]_vars PROVE AnsweredIsGone'
    OBVIOUS
  <2>1. issued \in [Requests -> 0..2]
    BY DEF RowInv, TypeOK
  <2> QED BY <2>1, RequestSteps DEF AnsweredIsGone
<1>3. AnsweredIsGone => OneAssertionPerRequest
  BY DEF AnsweredIsGone, OneAssertionPerRequest
<1> QED BY <1>1, <1>2, <1>3, RowInvAlways, PTL DEF Spec

-----------------------------------------------------------------------------
(* An assertion goes to the user the request is bound to: once a sign-on   *)
(* has compared the two, neither side can change while the user exists.    *)

BindingRead(c) ==
    complete[c].pc \in {"profile", "issue"} =>
        \/ request[complete[c].request].user = session[complete[c].session].user
        \/ user[session[complete[c].session].user] = "gone"

BindingKept == \A c \in Completions : BindingRead(c)

\* A deleted user stays deleted, a session keeps its user, and a bound request keeps its own until
\* that user is deleted.
OwnersKept ==
    /\ \A u \in Users : user[u] = "gone" => user'[u] = "gone"
    /\ \A s \in Sessions : session[s].state # "new" => session'[s].user = session[s].user
    /\ \A r \in Requests : request[r].user \in Users =>
          request'[r].user = request[r].user \/ user'[request[r].user] = "gone"

LEMMA OwnerSteps ==
  ASSUME RowInv, [Next]_vars
  PROVE  OwnersKept
<1>0. /\ user \in [Users -> {"active", "inactive", "gone"}] /\ request \in [Requests -> Request]
      /\ session \in [Sessions -> Session]
  BY DEF RowInv, TypeOK
<1>1. ASSUME UNCHANGED <<user, request, session>> PROVE OwnersKept
  BY <1>1 DEF OwnersKept
<1>2. ASSUME UNCHANGED session, NEW u \in Users, RemoveUser(u) PROVE OwnersKept
  <2>1. \A v \in Users : user'[v] = IF v = u THEN "gone" ELSE user[v]
    BY <1>0, <1>2 DEF RemoveUser
  <2>2. \A r \in Requests : request[r].user # u => request'[r].user = request[r].user
    BY <1>0, <1>2 DEF RemoveUser
  <2> QED BY <1>2, <2>1, <2>2 DEF OwnersKept
<1>3. CASE UNCHANGED vars
  BY <1>1, <1>3 DEF vars
<1>4. ASSUME NEW r \in Requests, ReceiveRequest(r) \/ RequestExpires(r) PROVE OwnersKept
  BY <1>0, <1>4 DEF ReceiveRequest, RequestExpires, Pending, Request, OwnersKept
<1>5. ASSUME NEW l \in Logins, LoginStep(l) PROVE OwnersKept
  <2>1. CASE Bind(l)
    <3>1. UNCHANGED <<user, session>>
      BY <2>1 DEF Bind
    <3>2. login[l].request \in Requests
      BY <2>1 DEF Bind, RowInv, HandlersOK
    <3>3. \/ UNCHANGED request
          \/ /\ request' = [request EXCEPT ![login[l].request].user = login[l].user]
             /\ request[login[l].request].user = None
      BY <2>1 DEF Bind
    <3> QED BY <1>0, <3>1, <3>2, <3>3 DEF OwnersKept, Request
  <2>2. ASSUME NEW s \in Sessions, CreateSession(l, s) PROVE OwnersKept
    <3>1. UNCHANGED <<user, request>>
      BY <2>2 DEF CreateSession
    <3>2. \/ UNCHANGED session
          \/ /\ session' = [session EXCEPT ![s].state = "active", ![s].user = login[l].user]
             /\ session[s].state = "new"
      BY <2>2 DEF CreateSession
    <3> QED BY <1>0, <3>1, <3>2 DEF OwnersKept, Session
  <2>3. UNCHANGED <<user, request, session>> \/ Bind(l) \/ \E s \in Sessions : CreateSession(l, s)
    BY <1>5 DEF LoginStep, StartLogin, AbandonLogin
  <2> QED BY <1>1, <2>1, <2>2, <2>3
<1>6. ASSUME NEW c \in Completions, CompleteStep(c) PROVE OwnersKept
  <2>1. CASE Issue(c)
    <3>1. UNCHANGED <<user, session>>
      BY <2>1 DEF Issue
    <3>3. \/ UNCHANGED request
          \/ request' = [request EXCEPT ![complete[c].request].state = "gone"]
      BY <2>1 DEF Issue
    <3>2. \A r \in Requests : request'[r].user = request[r].user
      BY <1>0, <3>3 DEF Request
    <3> QED BY <3>1, <3>2 DEF OwnersKept
  <2>2. UNCHANGED <<user, request, session>> \/ Issue(c)
    BY <1>6 DEF CompleteStep, StartComplete, Recheck, ReadRequest, CompleteProfile, AbandonComplete,
                CompleteIf
  <2> QED BY <1>1, <2>1, <2>2
<1>7. ASSUME NEW t \in Terminators, TermStep(t) PROVE OwnersKept
  <2>1. CASE Finish(t)
    <3>1. UNCHANGED session
      BY <2>1 DEF Finish
    <3>2. UNCHANGED <<user, request>> \/ RemoveUser(term[t].user)
      BY <2>1 DEF Finish
    <3>3. ASSUME RemoveUser(term[t].user), term[t].user \notin Users PROVE OwnersKept
      <4>1. UNCHANGED user
        BY <1>0, <3>3 DEF RemoveUser
      <4>2. \A r \in Requests : request[r].user \in Users => request'[r].user = request[r].user
        BY <1>0, <3>3 DEF RemoveUser
      <4> QED BY <3>1, <4>1, <4>2 DEF OwnersKept
    <3> QED BY <1>1, <1>2, <3>1, <3>2, <3>3
  <2>2. CASE DeactivateUser(t)
    <3>1. UNCHANGED <<request, session>>
      BY <2>2 DEF DeactivateUser
    <3>2. UNCHANGED user \/ (user[term[t].user] # "gone" /\ user' = [user EXCEPT ![term[t].user] = "inactive"])
      BY <2>2 DEF DeactivateUser
    <3> QED BY <1>0, <3>1, <3>2 DEF OwnersKept
  <2>3. CASE Terminate(t)
    <3>1. UNCHANGED <<user, request>>
      BY <2>3 DEF Terminate
    <3>2. UNCHANGED session \/ session' = [session EXCEPT ![term[t].cur].state = "terminated"]
      BY <2>3 DEF Terminate
    <3> QED BY <1>0, <3>1, <3>2 DEF OwnersKept, Session
  <2>4. UNCHANGED <<user, request, session>> \/ Finish(t) \/ DeactivateUser(t) \/ Terminate(t)
    BY <1>7 DEF TermStep, TerminateSessions, TerminateAllActive, TerminateAllForUser, StartDeactivate,
                StartDelete, ReceiveLogout, StartTerm, ListSessions, ReadStatus,
                Propagate, PropagateFails, AbandonTerm
  <2> QED BY <1>1, <2>1, <2>2, <2>3, <2>4
<1>8. ASSUME NEW u \in Managed, UserChanges(u) PROVE OwnersKept
  BY <1>0, <1>8 DEF UserChanges, OwnersKept
<1>9. ASSUME NEW u \in Managed, SourceRemoved(u) PROVE OwnersKept
  BY <1>2, <1>9 DEF SourceRemoved
<1>10. ASSUME NEW s \in Sessions, SessionExpires(s) PROVE OwnersKept
  <2>1. UNCHANGED <<user, request>>
    BY <1>10 DEF SessionExpires
  <2>2. \A x \in Sessions : session'[x].user = session[x].user
    BY <1>0, <1>10 DEF SessionExpires, Session
  <2> QED BY <2>1, <2>2 DEF OwnersKept
<1>11. CASE Purge
  <2>1. UNCHANGED user
    BY <1>11 DEF Purge
  <2>2. \A r \in Requests : request'[r].user = request[r].user
    BY <1>0, <1>11 DEF Purge, Request
  <2>3. \A s \in Sessions : session'[s].user = session[s].user
    BY <1>0, <1>11 DEF Purge, Session
  <2> QED BY <2>1, <2>2, <2>3 DEF OwnersKept
<1>12. ASSUME NEW p \in Editable, EditSp(p) PROVE OwnersKept
  BY <1>1, <1>12 DEF EditSp
<1> QED BY <1>3, <1>4, <1>5, <1>6, <1>7, <1>8, <1>9, <1>10, <1>11, <1>12 DEF Next

\* A sign-on past its comparison is still the same one, or has just compared.
LEMMA CompareSteps ==
  ASSUME RowInv, [Next]_vars, NEW c \in Completions, complete'[c].pc \in {"profile", "issue"}
  PROVE  /\ complete'[c].session = complete[c].session /\ complete'[c].request = complete[c].request
         /\ \/ complete[c].pc \in {"profile", "issue"}
            \/ /\ complete[c].pc = "read"
               /\ request[complete[c].request].user = session[complete[c].session].user
<1>0. complete \in [Completions -> Complete]
  BY DEF RowInv, TypeOK
<1>1. ASSUME NEW d \in Completions, CompleteStep(d)
      PROVE  /\ complete'[c].session = complete[c].session /\ complete'[c].request = complete[c].request
             /\ \/ complete[c].pc \in {"profile", "issue"}
                \/ /\ complete[c].pc = "read"
                   /\ request[complete[c].request].user = session[complete[c].session].user
  <2>1. CASE d # c
    <3>1. \E x : complete' = [complete EXCEPT ![d] = x]
      BY <1>1 DEF CompleteStep, StartComplete, Recheck, ReadRequest, CompleteProfile, Issue,
                  AbandonComplete, CompleteIf
    <3> QED BY <1>0, <2>1, <3>1
  <2>2. CASE d = c
    <3>1. ASSUME NEW s \in Sessions, NEW r \in Received, StartComplete(c, s, r) PROVE FALSE
      BY <1>0, <3>1 DEF StartComplete
    <3>2. ASSUME Issue(c) \/ AbandonComplete(c) PROVE FALSE
      BY <1>0, <3>2, RecordTypes DEF Issue, AbandonComplete, CompleteIf
    <3>3. ASSUME NEW ok, NEW pc, CompleteIf(c, ok, pc)
          PROVE  /\ ok /\ complete'[c].pc = pc
                 /\ complete'[c].session = complete[c].session /\ complete'[c].request = complete[c].request
      BY <1>0, <3>3, RecordTypes DEF CompleteIf, Complete
    <3>4. CASE Recheck(c)
      BY <3>3, <3>4 DEF Recheck
    <3>5. CASE ReadRequest(c)
      BY <3>3, <3>5 DEF ReadRequest
    <3>6. CASE CompleteProfile(c)
      BY <3>3, <3>6 DEF CompleteProfile
    <3> QED BY <1>1, <2>2, <3>1, <3>2, <3>4, <3>5, <3>6 DEF CompleteStep
  <2> QED BY <2>1, <2>2
<1>2. UNCHANGED complete \/ \E d \in Completions : CompleteStep(d)
  BY DEF Next, vars, handlers, ReceiveRequest, RequestExpires, LoginStep, StartLogin, Bind, CreateSession,
         AbandonLogin, TermStep, TerminateSessions, TerminateAllActive, TerminateAllForUser, StartDeactivate,
         StartDelete, ReceiveLogout, StartTerm, DeactivateUser, ListSessions, ReadStatus, Terminate,
         Propagate, PropagateFails, Finish, AbandonTerm, UserChanges, SourceRemoved, EditSp, SessionExpires, Purge
<1> QED BY <1>1, <1>2

LEMMA BindingStep == RowInv /\ BindingKept /\ [Next]_vars => BindingKept'
<1> SUFFICES ASSUME RowInv, BindingKept, [Next]_vars, NEW c \in Completions,
                    complete'[c].pc \in {"profile", "issue"}
             PROVE  \/ request'[complete'[c].request].user = session'[complete'[c].session].user
                    \/ user'[session'[complete'[c].session].user] = "gone"
  BY DEF BindingKept, BindingRead
<1> DEFINE s == complete[c].session
           r == complete[c].request
<1>1. complete'[c].session = s /\ complete'[c].request = r /\ complete[c].pc # "idle"
  BY CompareSteps
<1>2. s \in Sessions /\ r \in Requests /\ session[s].state # "new" /\ session[s].user \in Users
  BY <1>1 DEF RowInv, HandlersOK, SessionsOK
<1>3. request[r].user = session[s].user \/ user[session[s].user] = "gone"
  BY CompareSteps DEF BindingKept, BindingRead
<1>4. OwnersKept
  BY OwnerSteps
<1> QED BY <1>1, <1>2, <1>3, <1>4 DEF OwnersKept

LEMMA IssueMatches ==
  ASSUME RowInv, BindingKept, [Next]_vars, NEW d \in part' \ part
  PROVE  request[d[2]].user = d[3] \/ user[d[3]] = "gone"
<1>1. ASSUME NEW c \in Completions, Issue(c)
      PROVE  request[d[2]].user = d[3] \/ user[d[3]] = "gone"
  <2>1. d = <<complete[c].session, complete[c].request, session[complete[c].session].user>>
    BY <1>1 DEF Issue
  <2> QED BY <1>1, <2>1 DEF Issue, BindingKept, BindingRead
<1>2. part' \subseteq part \/ \E c \in Completions : Issue(c)
  BY DEF Next, vars, ReceiveRequest, RequestExpires, LoginStep, StartLogin, Bind, CreateSession,
         AbandonLogin, CompleteStep, StartComplete, Recheck, ReadRequest, CompleteProfile, AbandonComplete,
         CompleteIf, TermStep, TerminateSessions, TerminateAllActive, TerminateAllForUser, StartDeactivate,
         StartDelete, ReceiveLogout, StartTerm, DeactivateUser, ListSessions, ReadStatus, Terminate,
         Propagate, PropagateFails, Finish, AbandonTerm, UserChanges, SourceRemoved, EditSp, SessionExpires, Purge
<1> QED BY <1>1, <1>2

\* No assertion is issued to anybody but the user the request was bound to by a login, although
\* completeSso compared the two some awaits earlier.
THEOREM RightUser == Spec => AssertionMatchesBinding
<1>1. Init => BindingKept
  BY RecordTypes DEF Init, BindingKept, BindingRead
<1>2. RowInv /\ BindingKept /\ [Next]_vars =>
        [\A d \in part' \ part : request[d[2]].user = d[3] \/ user[d[3]] = "gone"]_vars
  BY IssueMatches
<1> QED BY <1>1, <1>2, BindingStep, RowInvAlways, PTL DEF Spec, AssertionMatchesBinding

-----------------------------------------------------------------------------
(* Terminations: how a step moves one of them on.                          *)

SameCall(t) == term'[t].kind = term[t].kind /\ term'[t].user = term[t].user /\ term'[t].id = term[t].id

Ends(t) == /\ term'[t].pc = "idle" /\ term'[t].kind = "sessions"
           /\ term[t].pc = "propagate" => term[t].cur \in lost'

Begins(t) == /\ term[t].pc = "idle" /\ term'[t].pc \in {"write", "list", "loop"} /\ term'[t].old = {}
             /\ term'[t].kind = "deactivate" => term'[t].pc = "write"

Writes(t) == /\ term[t].pc = "write" /\ term'[t].pc = "list" /\ SameCall(t)
             /\ term'[t].old = ActiveOf(term[t].user) /\ UNCHANGED session

Lists(t) == /\ term[t].pc = "list" /\ term'[t].pc = "loop" /\ SameCall(t) /\ term'[t].old = term[t].old
            /\ term'[t].todo = ActiveOf(term[t].user) /\ UNCHANGED <<user, session>>

Passes(t) == /\ term[t].pc = "loop" /\ term'[t].pc \in {"loop", "update"} /\ SameCall(t)
             /\ term'[t].old = term[t].old
             /\ \A s \in term[t].todo \ term'[t].todo : session[s].state # "active"
             /\ UNCHANGED session

Updates(t) == /\ term[t].pc = "update" /\ term'[t].pc = "propagate" /\ SameCall(t)
              /\ term'[t].old = term[t].old /\ term'[t].todo = term[t].todo /\ term'[t].cur = term[t].cur
              /\ session' = [session EXCEPT ![term[t].cur].state = "terminated"]
              /\ spared' = spared \cup ({term[t].cur} \X Initiator(t))

FansOut(t) == /\ term[t].pc = "propagate" /\ term'[t].pc = "loop" /\ SameCall(t)
              /\ term'[t].old = term[t].old /\ term'[t].todo = term[t].todo \ {term[t].cur}
              /\ term[t].cur \in lost' \/ Propagate(t)

LEMMA TermRecord ==
  ASSUME RowInv, NEW t \in Terminators, TermStep(t)
  PROVE  Ends(t) \/ Begins(t) \/ Writes(t) \/ Lists(t) \/ Passes(t) \/ Updates(t) \/ FansOut(t)
<1>0. term \in [Terminators -> Term] /\ term[t] \in Term
  BY DEF RowInv, TypeOK
<1>1. ASSUME NEW x, StartTerm(t, x), x.pc \in {"write", "list", "loop"}, x.old = {},
             x.kind = "deactivate" => x.pc = "write"
      PROVE  Begins(t)
  BY <1>0, <1>1 DEF StartTerm, Begins
<1>2. ASSUME NEW ids, StartTerm(t, [NoTerm EXCEPT !.pc = "loop", !.todo = ids]) PROVE Begins(t)
  <2> DEFINE x == [NoTerm EXCEPT !.pc = "loop", !.todo = ids]
  <2>1. x.pc = "loop" /\ x.old = {} /\ x.kind = "sessions"
    BY DEF NoTerm
  <2> HIDE DEF x
  <2>2. StartTerm(t, x)
    BY <1>2 DEF x
  <2> QED BY <1>1, <2>1, <2>2
<1>3. CASE \/ \E ids \in SUBSET Created : ids # {} /\ TerminateSessions(t, ids)
           \/ TerminateAllActive(t) \/ \E u \in Users : TerminateAllForUser(t, u)
  BY ONLY <1>2, <1>3 DEF TerminateSessions, TerminateAllActive, TerminateAllForUser
<1>4. ASSUME NEW u \in Managed, StartDeactivate(t, u) PROVE Begins(t)
  <2> DEFINE x == [NoTerm EXCEPT !.pc = "write", !.kind = "deactivate", !.user = u]
  <2>1. x.pc = "write" /\ x.old = {} /\ x.kind = "deactivate"
    BY DEF NoTerm
  <2> HIDE DEF x
  <2>2. StartTerm(t, x)
    BY <1>4 DEF x, StartDeactivate
  <2> QED BY <1>1, <2>1, <2>2
<1>5. ASSUME NEW u \in Managed, StartDelete(t, u) PROVE Begins(t)
  <2> DEFINE x == [NoTerm EXCEPT !.pc = "list", !.kind = "delete", !.user = u]
  <2>1. x.pc = "list" /\ x.old = {} /\ x.kind = "delete"
    BY DEF NoTerm
  <2> HIDE DEF x
  <2>2. StartTerm(t, x)
    BY <1>5 DEF x, StartDelete
  <2> QED BY <1>1, <2>1, <2>2
<1>6. ASSUME NEW i \in LogoutIds, ReceiveLogout(t, i) PROVE Begins(t)
  <2>1. PICK ids : StartTerm(t, [NoTerm EXCEPT !.pc = "loop", !.kind = "slo", !.id = i, !.todo = ids])
    BY ONLY <1>6 DEF ReceiveLogout
  <2> DEFINE x == [NoTerm EXCEPT !.pc = "loop", !.kind = "slo", !.id = i, !.todo = ids]
  <2>2. x.pc = "loop" /\ x.old = {} /\ x.kind = "slo"
    BY DEF NoTerm
  <2> HIDE DEF x
  <2>3. StartTerm(t, x)
    BY <2>1 DEF x
  <2> QED BY <1>1, <2>2, <2>3
<1>7. ASSUME term' = [term EXCEPT ![t] = NoTerm] PROVE term'[t].pc = "idle" /\ term'[t].kind = "sessions"
  BY <1>0, <1>7, RecordTypes
<1>8. CASE DeactivateUser(t)
  <2>1. CASE user[term[t].user] = "gone"
    BY <1>7, <1>8, <2>1 DEF DeactivateUser, Ends
  <2>2. CASE user[term[t].user] # "gone"
    <3>1. term' = [term EXCEPT ![t].pc = "list", ![t].old = ActiveOf(term[t].user)]
      BY <1>8, <2>2 DEF DeactivateUser
    <3>2. term'[t].pc = "list" /\ SameCall(t) /\ term'[t].old = ActiveOf(term[t].user)
      BY ONLY <1>0, <3>1, t \in Terminators DEF SameCall, Term
    <3> QED BY <1>8, <3>2 DEF DeactivateUser, Writes
  <2> QED BY <2>1, <2>2
<1>9. CASE ListSessions(t)
  <2>1. term' = [term EXCEPT ![t].pc = "loop", ![t].todo = ActiveOf(term[t].user)]
    BY <1>9 DEF ListSessions
  <2>2. /\ term'[t].pc = "loop" /\ SameCall(t) /\ term'[t].todo = ActiveOf(term[t].user)
        /\ term'[t].old = term[t].old
    BY ONLY <1>0, <2>1, t \in Terminators DEF SameCall, Term
  <2> QED BY <1>9, <2>2 DEF ListSessions, Lists
<1>10. ASSUME NEW s \in Sessions, ReadStatus(t, s) PROVE Passes(t)
  <2>1. CASE session[s].state = "active"
    <3>1. term' = [term EXCEPT ![t].pc = "update", ![t].cur = s]
      BY <1>10, <2>1 DEF ReadStatus
    <3>2. /\ term'[t].pc = "update" /\ SameCall(t) /\ term'[t].todo = term[t].todo
          /\ term'[t].old = term[t].old
      BY ONLY <1>0, <3>1, t \in Terminators DEF SameCall, Term
    <3> QED BY <1>10, <3>2 DEF ReadStatus, Passes
  <2>2. CASE session[s].state # "active"
    <3>1. term' = [term EXCEPT ![t].todo = @ \ {s}]
      BY <1>10, <2>2 DEF ReadStatus
    <3>2. /\ term'[t].pc = term[t].pc /\ SameCall(t) /\ term'[t].todo = term[t].todo \ {s}
          /\ term'[t].old = term[t].old
      BY ONLY <1>0, <3>1, t \in Terminators DEF SameCall, Term
    <3> QED BY <1>10, <2>2, <3>2 DEF ReadStatus, Passes
  <2> QED BY <2>1, <2>2
<1>11. CASE Terminate(t)
  <2>1. CASE session[term[t].cur].state = "gone"
    BY <1>7, <1>11, <2>1 DEF Terminate, Ends
  <2>2. CASE session[term[t].cur].state # "gone"
    <3>1. /\ term' = [term EXCEPT ![t].pc = "propagate"]
          /\ session' = [session EXCEPT ![term[t].cur].state = "terminated"]
          /\ spared' = spared \cup ({term[t].cur} \X Initiator(t))
      BY <1>11, <2>2 DEF Terminate
    <3>2. /\ term'[t].pc = "propagate" /\ SameCall(t) /\ term'[t].todo = term[t].todo
          /\ term'[t].old = term[t].old /\ term'[t].cur = term[t].cur
      BY ONLY <1>0, <3>1, t \in Terminators DEF SameCall, Term
    <3> QED BY <1>11, <3>1, <3>2 DEF Terminate, Updates
  <2> QED BY <2>1, <2>2
<1>12. ASSUME NextSession(t)
       PROVE  /\ term'[t].pc = "loop" /\ SameCall(t) /\ term'[t].todo = term[t].todo \ {term[t].cur}
              /\ term'[t].old = term[t].old
  BY ONLY <1>0, <1>12, t \in Terminators DEF NextSession, SameCall, Term
<1>13. CASE Propagate(t) \/ PropagateFails(t)
  BY <1>12, <1>13 DEF Propagate, PropagateFails, FansOut
<1>14. CASE Finish(t)
  BY <1>7, <1>14 DEF Finish, AllDone, Ends
<1>15. CASE AbandonTerm(t)
  BY <1>7, <1>15 DEF AbandonTerm, Ends
<1> QED BY <1>3, <1>4, <1>5, <1>6, <1>8, <1>9, <1>10, <1>11, <1>13, <1>14, <1>15 DEF TermStep

\* The same of any step of the system: it leaves t alone, or is one of its own.
LEMMA TermSteps ==
  ASSUME RowInv, [Next]_vars, NEW t \in Terminators
  PROVE  \/ term'[t] = term[t]
         \/ Ends(t) \/ Begins(t) \/ Writes(t) \/ Lists(t) \/ Passes(t) \/ Updates(t) \/ FansOut(t)
<1>0. term \in [Terminators -> Term]
  BY DEF RowInv, TypeOK
<1>1. ASSUME NEW o \in Terminators, TermStep(o), o # t PROVE term'[t] = term[t]
  <2>1. \E x : term' = [term EXCEPT ![o] = x]
    BY <1>1 DEF TermStep, TerminateSessions, TerminateAllActive, TerminateAllForUser, StartDeactivate,
                StartDelete, ReceiveLogout, StartTerm, DeactivateUser, ListSessions, ReadStatus, Terminate,
                Propagate, PropagateFails, NextSession, Finish, AbandonTerm
  <2> QED BY ONLY <1>0, <1>1, <2>1, t \in Terminators
<1>2. UNCHANGED term \/ \E o \in Terminators : TermStep(o)
  BY DEF Next, vars, handlers, ReceiveRequest, RequestExpires, LoginStep, StartLogin, Bind, CreateSession,
         AbandonLogin, CompleteStep, StartComplete, Recheck, ReadRequest, CompleteProfile, AbandonComplete,
         CompleteIf, Issue, UserChanges, SourceRemoved, EditSp, SessionExpires, Purge
<1> QED BY <1>1, <1>2, TermRecord

-----------------------------------------------------------------------------
(* Sessions, participations and what is recorded of them.                  *)

\* A session ends once: it becomes terminated only by a termination that goes on to propagate, is
\* active only while it never ended, and what was queued or recorded of it stays.
SessionsEnd ==
    /\ \A s \in Sessions :
         /\ session[s].state # "new" => session'[s].state # "new"
         /\ session'[s].state = "active" => session[s].state \in {"new", "active"}
         /\ session'[s].state = "terminated" =>
              \/ session[s].state = "terminated"
              \/ \E t \in Terminators : term'[t].pc = "propagate" /\ term'[t].cur = s
    /\ queued \subseteq queued' /\ spared \subseteq spared' /\ late \subseteq late' /\ lost \subseteq lost'

LEMMA SessionSteps ==
  ASSUME RowInv, [Next]_vars
  PROVE  SessionsEnd
<1>0. session \in [Sessions -> Session] /\ term \in [Terminators -> Term]
  BY DEF RowInv, TypeOK
<1>1. queued \subseteq queued' /\ spared \subseteq spared' /\ late \subseteq late' /\ lost \subseteq lost'
  BY DEF Next, vars, history, ReceiveRequest, RequestExpires, LoginStep, StartLogin, Bind, CreateSession,
         AbandonLogin, CompleteStep, StartComplete, Recheck, ReadRequest, CompleteProfile, AbandonComplete,
         CompleteIf, Issue, TermStep, TerminateSessions, TerminateAllActive, TerminateAllForUser,
         StartDeactivate, StartDelete, ReceiveLogout, StartTerm, DeactivateUser, ListSessions, ReadStatus,
         Terminate, Propagate, PropagateFails, Finish, AbandonTerm, UserChanges, SourceRemoved, EditSp,
         SessionExpires, Purge
<1>2. CASE UNCHANGED session
  BY <1>1, <1>2 DEF SessionsEnd
<1>3. ASSUME NEW l \in Logins, NEW s \in Sessions, CreateSession(l, s) PROVE SessionsEnd
  <2>1. \/ UNCHANGED session
        \/ /\ session' = [session EXCEPT ![s].state = "active", ![s].user = login[l].user]
           /\ session[s].state = "new"
    BY <1>3 DEF CreateSession
  <2> QED BY <1>0, <1>1, <2>1 DEF SessionsEnd, Session
<1>4. ASSUME NEW t \in Terminators, Terminate(t) PROVE SessionsEnd
  <2>1. CASE UNCHANGED session
    BY <1>2, <2>1
  <2>2. CASE session' # session
    <3>1. /\ session' = [session EXCEPT ![term[t].cur].state = "terminated"]
          /\ term' = [term EXCEPT ![t].pc = "propagate"] /\ term[t].pc = "update"
      BY <1>4, <2>2 DEF Terminate
    <3>2. term'[t].pc = "propagate" /\ term'[t].cur = term[t].cur
      BY ONLY <1>0, <3>1, t \in Terminators DEF Term
    <3>3. term[t].cur \in Sessions /\ session[term[t].cur].state # "new"
      BY <3>1 DEF RowInv, HandlersOK
    <3>4. \A s \in Sessions : session'[s].state = IF s = term[t].cur THEN "terminated" ELSE session[s].state
      BY <1>0, <3>1 DEF Session
    <3> QED BY <1>1, <3>2, <3>3, <3>4 DEF SessionsEnd
  <2> QED BY <2>1, <2>2
<1>5. ASSUME NEW s \in Sessions, SessionExpires(s) PROVE SessionsEnd
  <2>1. \A x \in Sessions : session'[x].state = session[x].state
    BY <1>0, <1>5 DEF SessionExpires, Session
  <2> QED BY <1>1, <2>1 DEF SessionsEnd
<1>6. CASE Purge
  <2>1. \A x \in Sessions : session'[x].state = session[x].state \/ session'[x].state = "gone"
    BY <1>0, <1>6 DEF Purge, Session
  <2> QED BY <1>1, <2>1 DEF SessionsEnd
<1>7. \/ UNCHANGED session \/ Purge
      \/ \E l \in Logins, s \in Sessions : CreateSession(l, s)
      \/ \E t \in Terminators : Terminate(t)
      \/ \E s \in Sessions : SessionExpires(s)
  BY DEF Next, vars, history, ReceiveRequest, RequestExpires, LoginStep, StartLogin, Bind,
         AbandonLogin, CompleteStep, StartComplete, Recheck, ReadRequest, CompleteProfile, AbandonComplete,
         CompleteIf, Issue, TermStep, TerminateSessions, TerminateAllActive, TerminateAllForUser,
         StartDeactivate, StartDelete, ReceiveLogout, StartTerm, DeactivateUser, ListSessions, ReadStatus,
         Propagate, PropagateFails, Finish, AbandonTerm, UserChanges, SourceRemoved, EditSp
<1> QED BY <1>2, <1>3, <1>4, <1>5, <1>6, <1>7

\* A new participation of a session that is terminated by then is recorded as late.
LEMMA NewParticipation ==
  ASSUME RowInv, [Next]_vars, NEW d \in part' \ part, session'[d[1]].state = "terminated"
  PROVE  d \in late'
<1>1. ASSUME NEW c \in Completions, Issue(c) PROVE d \in late'
  <2>1. /\ d = <<complete[c].session, complete[c].request, session[complete[c].session].user>>
        /\ UNCHANGED session
    BY <1>1 DEF Issue
  <2>2. session[complete[c].session].state = "terminated"
    BY <2>1
  <2> QED BY <1>1, <2>1, <2>2 DEF Issue
<1>2. part' \subseteq part \/ \E c \in Completions : Issue(c)
  BY DEF Next, vars, ReceiveRequest, RequestExpires, LoginStep, StartLogin, Bind, CreateSession,
         AbandonLogin, CompleteStep, StartComplete, Recheck, ReadRequest, CompleteProfile, AbandonComplete,
         CompleteIf, TermStep, TerminateSessions, TerminateAllActive, TerminateAllForUser, StartDeactivate,
         StartDelete, ReceiveLogout, StartTerm, DeactivateUser, ListSessions, ReadStatus, Terminate,
         Propagate, PropagateFails, Finish, AbandonTerm, UserChanges, SourceRemoved, EditSp, SessionExpires, Purge
<1> QED BY <1>1, <1>2

-----------------------------------------------------------------------------
(* Single logout reaches every SP of a terminated session.                 *)

\* Who propagates has ended the session and has recorded the initiator it leaves out.
SparedOK ==
    \A t \in Terminators : term[t].pc = "propagate" =>
        /\ {term[t].cur} \X Initiator(t) \subseteq spared
        /\ session[term[t].cur].state \notin {"new", "active"}

LEMMA SparedStep == RowInv /\ SparedOK /\ [Next]_vars => SparedOK'
<1> SUFFICES ASSUME RowInv, SparedOK, [Next]_vars, NEW t \in Terminators, term'[t].pc = "propagate"
             PROVE  /\ {term'[t].cur} \X Initiator(t)' \subseteq spared'
                    /\ session'[term'[t].cur].state \notin {"new", "active"}
  BY DEF SparedOK
<1>0. session \in [Sessions -> Session]
  BY DEF RowInv, TypeOK
<1>1. SessionsEnd
  BY SessionSteps
<1>2. CASE term'[t] = term[t]
  <2>1. Initiator(t)' = Initiator(t)
    BY <1>2 DEF Initiator
  <2>2. term[t].cur \in Sessions
    BY <1>2 DEF RowInv, HandlersOK
  <2> QED BY <1>1, <1>2, <2>1, <2>2 DEF SparedOK, SessionsEnd
<1>3. CASE Updates(t)
  <2>1. Initiator(t)' = Initiator(t)
    BY <1>3 DEF Initiator, Updates, SameCall
  <2>2. term[t].cur \in Sessions
    BY <1>3 DEF RowInv, HandlersOK, Updates
  <2>3. session'[term[t].cur].state = "terminated"
    BY <1>0, <1>3, <2>2 DEF Updates, Session
  <2> QED BY <1>3, <2>1, <2>3 DEF Updates
<1>4. term'[t] = term[t] \/ Updates(t)
  BY TermSteps DEF Ends, Begins, Writes, Lists, Passes, FansOut
<1> QED BY <1>2, <1>3, <1>4

\* What propagated a session goes on with it, has lost it, or has dealt with every SP of it.
LEMMA PropagationEnds ==
  ASSUME RowInv, SparedOK, [Next]_vars, NEW d \in part, NEW t \in Terminators,
         term[t].pc = "propagate", term[t].cur = d[1]
  PROVE  Propagating(d[1])' \/ d[1] \in lost' \/ Notified(d)'
<1>1. CASE term'[t] = term[t]
  BY <1>1 DEF Propagating
<1>2. CASE Ends(t)
  BY <1>2 DEF Ends
<1>3. ASSUME Propagate(t) PROVE Notified(d)'
  <2>1. d \in Sessions \X Requests \X Users
    BY DEF RowInv, TypeOK
  <2>2. d[2] \in Requests /\ d[3] \in Users /\ <<d[1], d[2], d[3]>> \in part
    BY <2>1
  <2>3. Target[d[2]] \in Participants(d[1])
    BY <2>2 DEF Participants
  <2>4. /\ queued' = queued \cup ({d[1]} \X ((Participants(d[1]) \cap active) \ Initiator(t)))
        /\ spared' = spared \cup ({d[1]} \X (Participants(d[1]) \ active))
    BY <1>3 DEF Propagate
  <2>5. {d[1]} \X Initiator(t) \subseteq spared
    BY DEF SparedOK
  <2>6. CASE Target[d[2]] \in Initiator(t)
    BY <2>4, <2>5, <2>6 DEF Notified
  <2>7. CASE Target[d[2]] \notin Initiator(t)
    BY <2>3, <2>4, <2>7 DEF Notified
  <2> QED BY <2>6, <2>7
<1>4. term'[t] = term[t] \/ Ends(t) \/ FansOut(t)
  BY TermSteps DEF Begins, Writes, Lists, Passes, Updates
<1> QED BY <1>1, <1>2, <1>3, <1>4 DEF FansOut

LEMMA FanOutStep == RowInv /\ SparedOK /\ FanOutComplete /\ [Next]_vars => FanOutComplete'
<1> SUFFICES ASSUME RowInv, SparedOK, FanOutComplete, [Next]_vars, NEW d \in part',
                    session'[d[1]].state = "terminated"
             PROVE  Notified(d)' \/ Propagating(d[1])' \/ d \in late' \/ d[1] \in lost'
  BY DEF FanOutComplete
<1>1. SessionsEnd
  BY SessionSteps
<1>2. CASE d \notin part
  BY <1>2, NewParticipation
<1>3. CASE d \in part
  <2>1. d[1] \in Sessions
    BY <1>3 DEF RowInv, TypeOK
  <2>2. CASE session[d[1]].state # "terminated"
    BY <1>1, <2>1, <2>2 DEF SessionsEnd, Propagating
  <2>3. CASE session[d[1]].state = "terminated"
    <3>1. CASE Notified(d) \/ d \in late \/ d[1] \in lost
      BY <1>1, <3>1 DEF SessionsEnd, Notified
    <3>2. CASE Propagating(d[1])
      BY <1>3, <3>2, PropagationEnds DEF Propagating
    <3> QED BY <1>3, <2>3, <3>1, <3>2 DEF FanOutComplete
  <2> QED BY <2>2, <2>3
<1> QED BY <1>2, <1>3

\* Every SP that held an assertion of a session when it was terminated is queued for logout, once the
\* propagation is over; unless it is the initiator, was inactive when the propagation read it, or the
\* propagation was lost on the way - whatever terminations, sign-ons, purges and edits of SPs overlap.
THEOREM LogoutReachesAll == Spec => []FanOutComplete
<1>1. Init => SparedOK /\ FanOutComplete
  BY RecordTypes DEF Init, SparedOK, FanOutComplete
<1> QED BY <1>1, SparedStep, FanOutStep, RowInvAlways, PTL DEF Spec

-----------------------------------------------------------------------------
(* Deactivation leaves no session.                                         *)

\* The sessions a deactivation found active were created before and are the user's; it still has to
\* deal with every one that is still active.
Revoking(t) ==
    term[t].kind = "deactivate" =>
        /\ \A s \in term[t].old : s \in Sessions /\ session[s].state # "new" /\ session[s].user = term[t].user
        /\ term[t].pc \in {"loop", "update", "propagate"} /\ user[term[t].user] # "gone" =>
              \A s \in term[t].old : session[s].state = "active" => s \in term[t].todo

RevokingAll == \A t \in Terminators : Revoking(t) /\ (term[t].kind = "deactivate" => term[t].user \in Users)

LEMMA RevokingStep == RowInv /\ SparedOK /\ RevokingAll /\ [Next]_vars => RevokingAll'
<1> SUFFICES ASSUME RowInv, SparedOK, RevokingAll, [Next]_vars, NEW t \in Terminators,
                    term'[t].kind = "deactivate"
             PROVE  Revoking(t)' /\ term'[t].user \in Users
  BY DEF RevokingAll, Revoking
<1>0. /\ user \in [Users -> {"active", "inactive", "gone"}] /\ session \in [Sessions -> Session]
  BY DEF RowInv, TypeOK
<1>1. SessionsEnd /\ OwnersKept
  BY SessionSteps, OwnerSteps
\* What was in old stays a session of the user that may only end.
<1>2. ASSUME NEW s \in Sessions, session[s].state # "new", session[s].user = term[t].user
      PROVE  /\ session'[s].state # "new" /\ session'[s].user = term[t].user
             /\ session'[s].state = "active" => session[s].state = "active"
  BY <1>1, <1>2 DEF SessionsEnd, OwnersKept
<1>3. ASSUME SameCall(t), term'[t].old = term[t].old
      PROVE  /\ term[t].kind = "deactivate" /\ term'[t].user = term[t].user /\ term[t].user \in Users
             /\ \A s \in term[t].old :
                  /\ s \in Sessions /\ session'[s].state # "new" /\ session'[s].user = term'[t].user
                  /\ session[s].state # "new" /\ session[s].user = term[t].user
                  /\ session'[s].state = "active" => session[s].state = "active"
             /\ user'[term[t].user] # "gone" => user[term[t].user] # "gone"
  BY <1>1, <1>2, <1>3 DEF SameCall, RevokingAll, Revoking, OwnersKept
\* A session passed over or terminated is not active.
<1>4. ASSUME SameCall(t), term'[t].old = term[t].old, term[t].pc \in {"loop", "update", "propagate"},
             \A s \in Sessions : s \in term[t].todo \ term'[t].todo => session[s].state # "active"
      PROVE  Revoking(t)' /\ term'[t].user \in Users
  <2>1. user'[term[t].user] # "gone" =>
          \A s \in term[t].old : session[s].state = "active" => s \in term[t].todo
    BY <1>3, <1>4 DEF RevokingAll, Revoking
  <2> QED BY <1>3, <1>4, <2>1 DEF Revoking
<1>5. CASE term'[t] = term[t]
  <2>1. SameCall(t) /\ term'[t].old = term[t].old
    BY <1>5 DEF SameCall
  <2>2. CASE term[t].pc \in {"loop", "update", "propagate"}
    BY <1>4, <1>5, <2>1, <2>2
  <2>3. CASE term[t].pc \notin {"loop", "update", "propagate"}
    BY <1>3, <1>5, <2>1, <2>3 DEF Revoking
  <2> QED BY <2>2, <2>3
<1>6. CASE Ends(t)
  BY <1>6 DEF Ends
<1>7. CASE Begins(t)
  <2>1. term'[t].pc = "write" /\ term'[t].old = {}
    BY <1>7 DEF Begins
  <2>2. RowInv'
    BY RowInvStep
  <2>3. term'[t].user \in Users
    BY <2>1, <2>2 DEF RowInv, HandlersOK
  <2> QED BY <2>1, <2>3 DEF Revoking
<1>8. CASE Writes(t)
  <2>1. term'[t].pc = "list" /\ term'[t].user = term[t].user /\ term[t].pc = "write"
    BY <1>8 DEF Writes, SameCall
  <2>2. \A s \in term'[t].old : s \in Sessions /\ session[s].state = "active" /\ session[s].user = term[t].user
    BY <1>8 DEF Writes, ActiveOf
  <2>3. UNCHANGED session
    BY <1>8 DEF Writes
  <2>4. term[t].user \in Users
    BY <2>1 DEF RowInv, HandlersOK
  <2> QED BY <2>1, <2>2, <2>3, <2>4 DEF Revoking
<1>9. CASE Lists(t)
  <2>1. SameCall(t) /\ term'[t].old = term[t].old /\ UNCHANGED <<user, session>>
    BY <1>9 DEF Lists
  <2>2. \A s \in term[t].old : session[s].state = "active" /\ user[term[t].user] # "gone" => s \in term'[t].todo
    BY <1>3, <1>9, <2>1 DEF Lists, ActiveOf
  <2> QED BY <1>3, <2>1, <2>2 DEF Revoking
<1>10. CASE Passes(t)
  BY <1>4, <1>10 DEF Passes
<1>11. CASE Updates(t)
  BY <1>4, <1>11 DEF Updates
<1>12. CASE FansOut(t)
  <2>1. session[term[t].cur].state # "active"
    BY <1>12 DEF FansOut, SparedOK
  <2>2. /\ SameCall(t) /\ term'[t].old = term[t].old /\ term[t].pc = "propagate"
        /\ term'[t].todo = term[t].todo \ {term[t].cur}
    BY <1>12 DEF FansOut
  <2>3. \A s \in Sessions : s \in term[t].todo \ term'[t].todo => session[s].state # "active"
    BY <2>1, <2>2
  <2> QED BY <1>4, <2>2, <2>3
<1> QED BY <1>5, <1>6, <1>7, <1>8, <1>9, <1>10, <1>11, <1>12, TermSteps

\* When the deactivation of a user returns, none of the sessions it found active is left, although
\* other terminations, purges, logins and deletions run between any two of its steps.
THEOREM DeactivationHolds == Spec => []DeactivationRevokes
<1>1. Init => SparedOK /\ RevokingAll
  BY RecordTypes DEF Init, SparedOK, RevokingAll, Revoking
<1>2. RowInv /\ RevokingAll => DeactivationRevokes
  <2> SUFFICES ASSUME RevokingAll, NEW t \in Terminators, term[t].kind = "deactivate", AllDone(t),
                      user[term[t].user] # "gone", NEW s \in term[t].old
               PROVE  session[s].state # "active"
    BY DEF DeactivationRevokes
  <2> QED BY DEF RevokingAll, Revoking, AllDone
<1> QED BY <1>1, <1>2, SparedStep, RevokingStep, RowInvAlways, PTL DEF Spec
=============================================================================
