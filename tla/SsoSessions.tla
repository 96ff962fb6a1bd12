---------------------------- MODULE SsoSessions ----------------------------
(***************************************************************************)
(* Single sign-on and single logout of NestIdP: the pending AuthnRequests  *)
(* (table SamlSession), the revocable SSO sessions behind the end user's   *)
(* cookie (SamlSsoSession) with the assertions issued under them           *)
(* (SamlSpParticipation), and everything that ends a session: logout by    *)
(* the user, an administrator or an SP, deactivation and deletion of the   *)
(* user, expiry.  What a termination hands to the back-channel queue is    *)
(* modelled by BackchannelLogout; here a row of that queue just exists.    *)
(*                                                                         *)
(* Every await of a handler is a step of its own.  A handler may stop at   *)
(* any of them (Abandon...): a check on something not modelled failed      *)
(* (signature, throttle), a database call rejected, or the process died -  *)
(* then all of them stop, nothing else is kept in memory.                  *)
(***************************************************************************)
EXTENDS Naturals, FiniteSets

CONSTANTS
    Users, SPs, None,
    Managed,       \* users that administrators and syncs deactivate, reactivate and delete
    Editable,      \* SPs that administrators switch off and on
    Requests,      \* AuthnRequests, by the row that holds them until they are answered
    Target,        \* Target[r]: the SP that sent r
    Sessions,      \* SSO sessions
    LogoutIds,     \* LogoutRequest IDs
    Asks,          \* Asks[i]: the SP, the principal and the SessionIndexes of a LogoutRequest
    Logins,        \* calls of login in progress at once (a bound, as the next two)
    Completions,   \* calls of complete-sso
    Terminators    \* calls that end sessions

\* A SessionIndex is made for one assertion, so the AuthnRequest it answers names it.
ASSUME SsoConstants ==
    /\ Managed \subseteq Users /\ Editable \subseteq SPs
    /\ Target \in [Requests -> SPs]
    /\ Asks \in [LogoutIds -> [sp: SPs, user: Users, index: SUBSET Requests]]
    /\ None \notin Users \cup Requests \cup Sessions \cup SPs \cup LogoutIds

VARIABLES
    user,      \* user[u]: the identity record
    request,   \* the SamlSession rows
    session,   \* the SamlSsoSession rows
    part,      \* the participations: session, request answered, user named in the assertion
    queued,    \* back-channel queue rows, by session and SP
    active,    \* the SPs that are active
    login, complete, term,   \* the handlers in progress
    issued,    \* history: assertions issued for a request
    late,      \* history: participations of sessions that were terminated when they were created
    lost,      \* history: sessions whose propagation was dropped on the way
    spared     \* history: SPs left out of a session's logout, as its initiator or inactive by then

handlers == <<login, complete, term>>
history == <<issued, late, lost, spared>>
vars == <<user, request, session, part, queued, active, handlers, history>>

-----------------------------------------------------------------------------
Request == [state: {"new", "pending", "gone"}, user: Users \cup {None}, expired: BOOLEAN]

\* user: the one named in the cookie; the column is null once the user is gone.
Session == [state: {"new", "active", "terminated", "gone"}, user: Users \cup {None}, expired: BOOLEAN]

Login == [pc: {"idle", "bind", "create"},
          user: Users \cup {None}, request: Requests \cup {None}]
NoLogin == [pc |-> "idle", user |-> None, request |-> None]

Complete == [pc: {"idle", "recheck", "read", "profile", "issue"},
             session: Sessions \cup {None}, request: Requests \cup {None}]
NoComplete == [pc |-> "idle", session |-> None, request |-> None]

\* todo: sessions still to terminate; cur: the one being terminated; id: the LogoutRequest, if any;
\* old: the user's sessions that were active when a deactivation wrote the user.
Term == [pc: {"idle", "write", "list", "loop", "update", "propagate"},
         kind: {"sessions", "deactivate", "delete", "slo"},
         user: Users \cup {None}, id: LogoutIds \cup {None},
         todo: SUBSET Sessions, cur: Sessions \cup {None}, old: SUBSET Sessions]
NoTerm == [pc |-> "idle", kind |-> "sessions", user |-> None, id |-> None,
           todo |-> {}, cur |-> None, old |-> {}]

IsActive(s) == session[s].state = "active" /\ ~session[s].expired
Pending(r) == request[r].state = "pending" /\ ~request[r].expired

\* terminateAllForUser's findMany.
ActiveOf(u) == {s \in Sessions : session[s].state = "active" /\ session[s].user = u /\ user[u] # "gone"}

\* The user's row is deleted: the references to it become null.
RemoveUser(u) ==
    /\ user' = [user EXCEPT ![u] = "gone"]
    /\ request' = [r \in Requests |-> IF request[r].user = u THEN [request[r] EXCEPT !.user = None]
                                      ELSE request[r]]

-----------------------------------------------------------------------------
(* An SP sends an AuthnRequest; the user logs in for it.                   *)

\* handleRedirectSso, handlePostSso: every check passed, the row is created unbound.
ReceiveRequest(r) ==
    /\ request[r].state = "new" /\ Target[r] \in active
    /\ request' = [request EXCEPT ![r].state = "pending"]
    /\ UNCHANGED <<user, session, part, queued, active, handlers, history>>

\* POST login: the password fits an active user.
StartLogin(l, u, r) ==
    /\ login[l].pc = "idle" /\ user[u] = "active"
    /\ login' = [login EXCEPT ![l] = [pc |-> IF r = None THEN "create" ELSE "bind",
                                      user |-> u, request |-> r]]
    /\ UNCHANGED <<user, request, session, part, queued, active, complete, term, history>>

\* Mutant: the update is not conditional on the row being unbound.
MutBind(l) ==
    /\ login[l].pc = "bind"
    /\ LET r == login[l].request IN
       IF Pending(r) /\ Target[r] \in active /\ user[login[l].user] # "gone"
       THEN /\ request' = [request EXCEPT ![r].user = login[l].user]
            /\ login' = [login EXCEPT ![l].pc = "create", ![l].request = None]
       ELSE /\ login' = [login EXCEPT ![l] = NoLogin]
            /\ UNCHANGED request
    /\ UNCHANGED <<user, session, part, queued, active, complete, term, history>>

\* bindUserToSession: one conditional update, which looks at everything but the SP again; whether that is
\* active is read just before, with the row.
Bind(l) ==
    /\ login[l].pc = "bind"
    /\ LET r == login[l].request IN
       IF Pending(r) /\ request[r].user = None /\ Target[r] \in active /\ user[login[l].user] # "gone"
       THEN /\ request' = [request EXCEPT ![r].user = login[l].user]
            /\ login' = [login EXCEPT ![l].pc = "create", ![l].request = None]
       ELSE /\ login' = [login EXCEPT ![l] = NoLogin]
            /\ UNCHANGED request
    /\ UNCHANGED <<user, session, part, queued, active, complete, term, history>>

\* The SSO session and its cookie, unless the user (active or not) is gone by now.
CreateSession(l, s) ==
    /\ login[l].pc = "create" /\ session[s].state = "new"
    /\ IF user[login[l].user] # "gone"
       THEN session' = [session EXCEPT ![s].state = "active", ![s].user = login[l].user]
       ELSE UNCHANGED session
    /\ login' = [login EXCEPT ![l] = NoLogin]
    /\ UNCHANGED <<user, request, part, queued, active, complete, term, history>>

AbandonLogin(l) ==
    /\ login[l].pc # "idle"
    /\ login' = [login EXCEPT ![l] = NoLogin]
    /\ UNCHANGED <<user, request, session, part, queued, active, complete, term, history>>

-----------------------------------------------------------------------------
(* complete-sso: EndUserAuthGuard, then completeSso.                       *)

\* Go on with the next await, or answer with an error.
CompleteIf(c, ok, pc) ==
    /\ complete' = [complete EXCEPT ![c] = IF ok THEN [@ EXCEPT !.pc = pc] ELSE NoComplete]
    /\ UNCHANGED <<user, request, session, part, queued, active, login, term, history>>

\* The guard finds the session of the cookie and its user active.
StartComplete(c, s, r) ==
    /\ complete[c].pc = "idle" /\ IsActive(s) /\ user[session[s].user] = "active"
    /\ complete' = [complete EXCEPT ![c] = [pc |-> "recheck", session |-> s, request |-> r]]
    /\ UNCHANGED <<user, request, session, part, queued, active, login, term, history>>

Recheck(c) ==
    /\ complete[c].pc = "recheck"
    /\ CompleteIf(c, IsActive(complete[c].session), "read")

ReadRequest(c) ==
    /\ complete[c].pc = "read"
    /\ LET r == complete[c].request IN
       CompleteIf(c, Pending(r) /\ Target[r] \in active /\ request[r].user = session[complete[c].session].user,
                  "profile")

CompleteProfile(c) ==
    /\ complete[c].pc = "profile"
    /\ CompleteIf(c, user[session[complete[c].session].user] = "active", "issue")

\* Mutant: a request that is already gone is not noticed (deleteMany instead of delete).
MutIssue(c) ==
    /\ complete[c].pc = "issue"
    /\ LET s == complete[c].session
           r == complete[c].request
       IN  IF session[s].state # "gone"
           THEN /\ part' = part \cup {<<s, r, session[s].user>>}
                /\ request' = [request EXCEPT ![r].state = "gone"]
                /\ issued' = [issued EXCEPT ![r] = IF @ = 2 THEN 2 ELSE @ + 1]
                /\ late' = IF session[s].state = "terminated"
                           THEN late \cup {<<s, r, session[s].user>>} ELSE late
           ELSE UNCHANGED <<part, request, issued, late>>
    /\ complete' = [complete EXCEPT ![c] = NoComplete]
    /\ UNCHANGED <<user, session, queued, active, login, term, lost, spared>>

\* One transaction creates the participation and deletes the request; it fails when either row is
\* missing.  Then the browser gets the assertion.
Issue(c) ==
    /\ complete[c].pc = "issue"
    /\ LET s == complete[c].session
           r == complete[c].request
       IN  IF session[s].state # "gone" /\ request[r].state = "pending"
           THEN /\ part' = part \cup {<<s, r, session[s].user>>}
                /\ request' = [request EXCEPT ![r].state = "gone"]
                /\ issued' = [issued EXCEPT ![r] = IF @ = 2 THEN 2 ELSE @ + 1]
                /\ late' = IF session[s].state = "terminated"
                           THEN late \cup {<<s, r, session[s].user>>} ELSE late
           ELSE UNCHANGED <<part, request, issued, late>>
    /\ complete' = [complete EXCEPT ![c] = NoComplete]
    /\ UNCHANGED <<user, session, queued, active, login, term, lost, spared>>

AbandonComplete(c) == complete[c].pc # "idle" /\ CompleteIf(c, FALSE, "idle")

-----------------------------------------------------------------------------
(* Whatever ends sessions: first the sessions are chosen ...               *)

StartTerm(t, new) ==
    /\ term[t].pc = "idle"
    /\ term' = [term EXCEPT ![t] = new]
    /\ UNCHANGED <<user, request, session, part, queued, active, login, complete, history>>

\* The user's logout, an administrator's terminate and bulk terminate.
TerminateSessions(t, ids) == StartTerm(t, [NoTerm EXCEPT !.pc = "loop", !.todo = ids])

\* The kill switch.
TerminateAllActive(t) ==
    StartTerm(t, [NoTerm EXCEPT !.pc = "loop", !.todo = {s \in Sessions : session[s].state = "active"}])

\* All sessions of a user; also of a sync source's users before they are deactivated or deleted.
TerminateAllForUser(t, u) ==
    user[u] # "gone" /\ StartTerm(t, [NoTerm EXCEPT !.pc = "loop", !.todo = ActiveOf(u)])

\* updateUser reads an active user it is to deactivate; deleteUser reads the user.
StartDeactivate(t, u) ==
    user[u] = "active" /\ StartTerm(t, [NoTerm EXCEPT !.pc = "write", !.kind = "deactivate", !.user = u])

StartDelete(t, u) ==
    user[u] # "gone" /\ StartTerm(t, [NoTerm EXCEPT !.pc = "list", !.kind = "delete", !.user = u])

\* findMatchingForLogout: some active session whose assertion names the principal at this SP.
Matches(i) ==
    {s \in Sessions : /\ session[s].state = "active"
                      /\ \E r \in Requests : /\ <<s, r, Asks[i].user>> \in part
                                             /\ Target[r] = Asks[i].sp
                                             /\ Asks[i].index = {} \/ r \in Asks[i].index}

\* An SP's LogoutRequest that passed its checks: matched first, recorded when all is done.
ReceiveLogout(t, i) ==
    /\ Asks[i].sp \in active
    /\ \E ids \in IF Matches(i) = {} THEN {{}} ELSE {{s} : s \in Matches(i)} :
          StartTerm(t, [NoTerm EXCEPT !.pc = "loop", !.kind = "slo", !.id = i, !.todo = ids])

DeactivateUser(t) ==
    /\ term[t].pc = "write"
    /\ LET u == term[t].user IN
       IF user[u] = "gone" THEN UNCHANGED user /\ term' = [term EXCEPT ![t] = NoTerm]
       ELSE /\ user' = [user EXCEPT ![u] = "inactive"]
            /\ term' = [term EXCEPT ![t].pc = "list", ![t].old = ActiveOf(u)]
    /\ UNCHANGED <<request, session, part, queued, active, login, complete, history>>

ListSessions(t) ==
    /\ term[t].pc = "list"
    /\ term' = [term EXCEPT ![t].pc = "loop", ![t].todo = ActiveOf(term[t].user)]
    /\ UNCHANGED <<user, request, session, part, queued, active, login, complete, history>>

-----------------------------------------------------------------------------
(* ... then terminate is called on each, one after the other.              *)

\* Mutant: an expired session is passed over too.
MutReadStatus(t, s) ==
    /\ term[t].pc = "loop" /\ s \in term[t].todo
    /\ term' = IF IsActive(s)
               THEN [term EXCEPT ![t].pc = "update", ![t].cur = s]
               ELSE [term EXCEPT ![t].todo = @ \ {s}]
    /\ UNCHANGED <<user, request, session, part, queued, active, login, complete, history>>

\* A session not found or already terminated is passed over.
ReadStatus(t, s) ==
    /\ term[t].pc = "loop" /\ s \in term[t].todo
    /\ term' = IF session[s].state = "active"
               THEN [term EXCEPT ![t].pc = "update", ![t].cur = s]
               ELSE [term EXCEPT ![t].todo = @ \ {s}]
    /\ UNCHANGED <<user, request, session, part, queued, active, login, complete, history>>

\* The initiator of an SP's logout, who is answered on the front channel instead.
Initiator(t) == IF term[t].kind = "slo" THEN {Asks[term[t].id].sp} ELSE {}

\* Mutant: the call of propagateLogout is missing.
MutTerminate(t) ==
    /\ term[t].pc = "update"
    /\ LET s == term[t].cur IN
       IF session[s].state = "gone"
       THEN term' = [term EXCEPT ![t] = NoTerm] /\ UNCHANGED <<session, spared>>
       ELSE /\ session' = [session EXCEPT ![s].state = "terminated"]
            /\ term' = [term EXCEPT ![t].pc = "loop", ![t].cur = None, ![t].todo = @ \ {s}]
            /\ spared' = spared \cup ({s} \X Initiator(t))
    /\ UNCHANGED <<user, request, part, queued, active, login, complete, issued, late, lost>>

\* update by id, whatever the status is by now; a purged row makes the whole call fail.
Terminate(t) ==
    /\ term[t].pc = "update"
    /\ LET s == term[t].cur IN
       IF session[s].state = "gone"
       THEN term' = [term EXCEPT ![t] = NoTerm] /\ UNCHANGED <<session, spared>>
       ELSE /\ session' = [session EXCEPT ![s].state = "terminated"]
            /\ term' = [term EXCEPT ![t].pc = "propagate"]
            /\ spared' = spared \cup ({s} \X Initiator(t))
    /\ UNCHANGED <<user, request, part, queued, active, login, complete, issued, late, lost>>

Participants(s) == {Target[r] : r \in {q \in Requests : \E u \in Users : <<s, q, u>> \in part}}

NextSession(t) == term' = [term EXCEPT ![t].pc = "loop", ![t].cur = None, ![t].todo = @ \ {term[t].cur}]

\* Mutant: the initiator ends the fan-out instead of being skipped.
MutPropagate(t) ==
    /\ term[t].pc = "propagate"
    /\ LET s == term[t].cur IN
       /\ queued' = IF Initiator(t) \subseteq Participants(s) /\ Initiator(t) # {} THEN queued
                    ELSE queued \cup ({s} \X (Participants(s) \cap active))
       /\ spared' = spared \cup ({s} \X (Participants(s) \ active))
    /\ NextSession(t)
    /\ UNCHANGED <<user, request, session, part, active, login, complete, issued, late, lost>>

\* propagateLogout: a queue row for every active participant but the initiator.
Propagate(t) ==
    /\ term[t].pc = "propagate"
    /\ LET s == term[t].cur IN
       /\ queued' = queued \cup ({s} \X ((Participants(s) \cap active) \ Initiator(t)))
       /\ spared' = spared \cup ({s} \X (Participants(s) \ active))
    /\ NextSession(t)
    /\ UNCHANGED <<user, request, session, part, active, login, complete, issued, late, lost>>

\* propagateLogout never throws: what it could not enqueue is only logged.
PropagateFails(t) ==
    /\ term[t].pc = "propagate"
    /\ lost' = lost \cup {term[t].cur}
    /\ NextSession(t)
    /\ UNCHANGED <<user, request, session, part, queued, active, login, complete, issued, late, spared>>

AllDone(t) == term[t].pc = "loop" /\ term[t].todo = {}

\* deleteUser deletes the row; a LogoutRequest is recorded, and one recorded before is refused only now.
Finish(t) ==
    /\ AllDone(t)
    /\ IF term[t].kind = "delete" THEN RemoveUser(term[t].user) ELSE UNCHANGED <<user, request>>
    /\ term' = [term EXCEPT ![t] = NoTerm]
    /\ UNCHANGED <<session, part, queued, active, login, complete, history>>

AbandonTerm(t) ==
    /\ term[t].pc # "idle"
    /\ term' = [term EXCEPT ![t] = NoTerm]
    /\ lost' = IF term[t].pc = "propagate" THEN lost \cup {term[t].cur} ELSE lost
    /\ UNCHANGED <<user, request, session, part, queued, active, login, complete, issued, late, spared>>

-----------------------------------------------------------------------------
(* The sync and the administrator on the rows of users and SPs, and time.   *)

\* Reactivated, or deactivated by a sync, which ends no session.
UserChanges(u) ==
    /\ user[u] # "gone"
    /\ user' = [user EXCEPT ![u] = IF @ = "active" THEN "inactive" ELSE "active"]
    /\ UNCHANGED <<request, session, part, queued, active, handlers, history>>

\* removeSourceIdentities deletes users whatever became of terminating their sessions.
SourceRemoved(u) ==
    /\ user[u] # "gone" /\ RemoveUser(u)
    /\ UNCHANGED <<session, part, queued, active, handlers, history>>

\* The update of an SP connection that switches it off or on.
EditSp(p) ==
    /\ active' = IF p \in active THEN active \ {p} ELSE active \cup {p}
    /\ UNCHANGED <<user, request, session, part, queued, handlers, history>>

RequestExpires(r) ==
    /\ Pending(r)
    /\ request' = [request EXCEPT ![r].expired = TRUE]
    /\ UNCHANGED <<user, session, part, queued, active, handlers, history>>

SessionExpires(s) ==
    /\ session[s].state \in {"active", "terminated"} /\ ~session[s].expired
    /\ session' = [session EXCEPT ![s].expired = TRUE]
    /\ UNCHANGED <<user, request, part, queued, active, handlers, history>>

\* Mutant: the participations of a purged session stay.
MutPurge ==
    /\ request' = [r \in Requests |-> IF request[r].state = "pending" /\ request[r].expired
                                      THEN [request[r] EXCEPT !.state = "gone"] ELSE request[r]]
    /\ session' = [s \in Sessions |-> IF session[s].expired THEN [session[s] EXCEPT !.state = "gone"]
                                      ELSE session[s]]
    /\ UNCHANGED <<user, part, queued, active, handlers, history>>

\* purgeExpiredSessions: one transaction; participations go with their session, IDs older than the
\* clock skew are forgotten.
Purge ==
    /\ request' = [r \in Requests |-> IF request[r].state = "pending" /\ request[r].expired
                                      THEN [request[r] EXCEPT !.state = "gone"] ELSE request[r]]
    /\ session' = [s \in Sessions |-> IF session[s].expired THEN [session[s] EXCEPT !.state = "gone"]
                                      ELSE session[s]]
    /\ part' = {d \in part : ~session[d[1]].expired}
    /\ UNCHANGED <<user, queued, active, handlers, history>>

-----------------------------------------------------------------------------
Init ==
    /\ user = [u \in Users |-> "active"]
    /\ request = [r \in Requests |-> [state |-> "new", user |-> None, expired |-> FALSE]]
    /\ session = [s \in Sessions |-> [state |-> "new", user |-> None, expired |-> FALSE]]
    /\ part = {} /\ queued = {} /\ active = SPs
    /\ login = [l \in Logins |-> NoLogin]
    /\ complete = [c \in Completions |-> NoComplete]
    /\ term = [t \in Terminators |-> NoTerm]
    /\ issued = [r \in Requests |-> 0]
    /\ late = {} /\ lost = {} /\ spared = {}

\* Rows a client can name.
Received == {r \in Requests : request[r].state # "new"}
Created == {s \in Sessions : session[s].state # "new"}

LoginStep(l) ==
    \/ \E u \in Users, r \in Received \cup {None} : StartLogin(l, u, r)
    \/ Bind(l)
    \/ \E s \in Sessions : CreateSession(l, s)
    \/ AbandonLogin(l)

CompleteStep(c) ==
    \/ \E s \in Sessions, r \in Received : StartComplete(c, s, r)
    \/ Recheck(c) \/ ReadRequest(c) \/ CompleteProfile(c) \/ Issue(c)
    \/ AbandonComplete(c)

TermStep(t) ==
    \/ \E ids \in SUBSET Created : ids # {} /\ TerminateSessions(t, ids)
    \/ TerminateAllActive(t)
    \/ \E u \in Users : TerminateAllForUser(t, u)
    \/ \E u \in Managed : StartDeactivate(t, u) \/ StartDelete(t, u)
    \/ \E i \in LogoutIds : ReceiveLogout(t, i)
    \/ DeactivateUser(t) \/ ListSessions(t)
    \/ \E s \in Sessions : ReadStatus(t, s)
    \/ Terminate(t) \/ Propagate(t) \/ PropagateFails(t) \/ Finish(t)
    \/ AbandonTerm(t)

Next ==
    \/ \E r \in Requests : ReceiveRequest(r) \/ RequestExpires(r)
    \/ \E l \in Logins : LoginStep(l)
    \/ \E c \in Completions : CompleteStep(c)
    \/ \E t \in Terminators : TermStep(t)
    \/ \E u \in Managed : UserChanges(u) \/ SourceRemoved(u)
    \/ \E p \in Editable : EditSp(p)
    \/ \E s \in Sessions : SessionExpires(s)
    \/ Purge

Spec == Init /\ [][Next]_vars

-----------------------------------------------------------------------------
(* Properties.                                                             *)

\* Foreign keys: what a row refers to exists.
ReferencesOK ==
    /\ \A r \in Requests : request[r].user # None => user[request[r].user] # "gone"
    /\ \A d \in part : session[d[1]].state \notin {"new", "gone"} /\ request[d[2]].state = "gone"

\* Types of all state, and the references between the tables stay intact through every order of
\* deletions, purges and sign-ons.
TypeOK ==
    /\ user \in [Users -> {"active", "inactive", "gone"}]
    /\ request \in [Requests -> Request]
    /\ session \in [Sessions -> Session]
    /\ part \subseteq Sessions \X Requests \X Users
    /\ late \subseteq Sessions \X Requests \X Users
    /\ queued \subseteq Sessions \X SPs /\ spared \subseteq Sessions \X SPs /\ active \subseteq SPs
    /\ lost \subseteq Sessions
    /\ login \in [Logins -> Login]
    /\ complete \in [Completions -> Complete]
    /\ term \in [Terminators -> Term]
    /\ issued \in [Requests -> 0..2]
    /\ ReferencesOK

\* An AuthnRequest is answered with at most one assertion, whatever tabs, sessions and logins race
\* for it: the deletion of its row decides.
OneAssertionPerRequest == \A r \in Requests : issued[r] <= 1

\* An assertion goes to the user who logged in for the request, although completeSso read that
\* binding two awaits before: nobody can bind the request again while its user exists.
AssertionMatchesBinding ==
    [][\A d \in part' \ part : request[d[2]].user = d[3] \/ user[d[3]] = "gone"]_vars

Propagating(s) == \E t \in Terminators : term[t].pc = "propagate" /\ term[t].cur = s

Notified(d) == <<d[1], Target[d[2]]>> \in queued \cup spared

\* Once a session is terminated and its propagation done, every SP that held an assertion of it by
\* then is queued for back-channel logout, is the initiator or was inactive when its turn came, however
\* many terminations, purges, completions of sign-ons and edits of SPs overlapped; except when the
\* propagation itself was lost.
FanOutComplete ==
    \A d \in part : session[d[1]].state = "terminated" =>
        Notified(d) \/ Propagating(d[1]) \/ d \in late \/ d[1] \in lost

\* When the deactivation of a user returns, no session the user had at that moment is left, although
\* others terminate, purge and delete the same sessions meanwhile.
DeactivationRevokes ==
    \A t \in Terminators :
        term[t].kind = "deactivate" /\ AllDone(t) /\ user[term[t].user] # "gone" =>
            \A s \in term[t].old : session[s].state # "active"

-----------------------------------------------------------------------------
(* What the documentation says and the interleavings above contradict.     *)

\* docs/development.md:567 "propagates ... to every other participating SP", if it is active (:575): also
\* one that got its assertion while the session was being terminated.
EveryParticipantNotified ==
    \A d \in part : session[d[1]].state = "terminated" =>
        Notified(d) \/ Propagating(d[1]) \/ d[1] \in lost
=============================================================================
