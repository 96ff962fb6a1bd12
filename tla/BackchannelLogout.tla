------------------------- MODULE BackchannelLogout -------------------------
(***************************************************************************)
(* The back-channel logout queue of NestIdP: one row per terminated SSO    *)
(* session and participating SP (LogoutPropagationService), delivered by   *)
(* passes that may overlap - the retry timer, the first passes kicked by   *)
(* propagateLogout and resend, and the operator's "process queue now".     *)
(*                                                                         *)
(* Every await is a step of its own.  The SOAP exchange is collapsed into  *)
(* its outcome, nextRetryAt into whether it has passed, and the order in   *)
(* which due rows are taken (oldest first) into a free choice.             *)
(***************************************************************************)
EXTENDS Naturals, FiniteSets, FiniteSetsExt

CONSTANTS
    Sessions,       \* SSO sessions
    SPs,            \* service providers
    Participation,  \* which SP holds an assertion of which session
    Edited,         \* SPs the administrator edits or deletes
    Calls,          \* calls of propagateLogout
    FirstPasses,    \* bound: passes outside the timer alive at once
    Timer,          \* the retry scheduler's tick
    MaxInFlight,    \* SAML_BACKCHANNEL_LOGOUT_MAX_INFLIGHT
    Concurrency,    \* SAML_BACKCHANNEL_LOGOUT_CONCURRENCY
    MaxRetries,     \* SAML_BACKCHANNEL_LOGOUT_MAX_RETRIES
    MaxFaults       \* bound: rejected database calls plus crashes of a behaviour

ASSUME QueueConstants ==
    /\ Participation \subseteq Sessions \X SPs /\ IsFiniteSet(Participation)
    /\ Edited \subseteq SPs
    /\ MaxInFlight \in Nat \ {0} /\ Concurrency \in Nat \ {0}
    /\ MaxRetries \in Nat /\ MaxFaults \in Nat
    /\ Timer \notin FirstPasses

VARIABLES
    sp,      \* the sp_connection rows
    queue,   \* the saml_backchannel_logout rows, by (session, SP)
    call,    \* call[c]: what a propagateLogout has read and still has to insert
    pass,    \* pass[p]: where each processDue is
    job,     \* job[p][d]: where pass p is in deliverRow of row d
    faults,  \* rejected database calls and crashes so far
    tries    \* history: deliveries begun of a row since it was created, counted up to MaxRetries + 1

vars == <<sp, queue, call, pass, job, faults, tries>>

-----------------------------------------------------------------------------
Pairs == Participation
Passes == FirstPasses \cup {Timer}

Status == {"absent", "pending", "in_flight", "succeeded", "partial", "failed",
           "given_up", "skipped_no_endpoint"}

\* Statuses processDue picks, and those prune deletes.
Waiting == {"pending", "failed"}
Prunable == {"succeeded", "given_up", "skipped_no_endpoint", "partial"}

Sp == [exists: BOOLEAN, active: BOOLEAN, soap: BOOLEAN]

\* due: nextRetryAt has passed; old: updatedAt lies before the retention cutoff.
Row == [status: Status, attempts: 0..(MaxRetries + 1), due: BOOLEAN, old: BOOLEAN]

NoRow == [status |-> "absent", attempts |-> 0, due |-> FALSE, old |-> FALSE]

Call == [pc: {"ready", "insert", "done"}, notify: SUBSET Pairs, skip: SUBSET Pairs]
CallDone == [pc |-> "done", notify |-> {}, skip |-> {}]

Pass == [pc: {"idle", "count", "find", "deliver", "prune"}, budget: 0..MaxInFlight]
IdlePass == [pc |-> "idle", budget |-> 0]

\* "rejected": finishFailure called where nothing catches a rejection of its own.
JobPC == {"none", "claim", "load", "send", "succeeded", "partial", "failed", "rejected"}
Job == [pc: JobPC, attempts: 0..MaxRetries]
NoJob == [pc |-> "none", attempts |-> 0]

\* Between a claim that succeeded and the write of its outcome.
Holding == JobPC \ {"none", "claim"}

InFlight == {d \in Pairs : queue[d].status = "in_flight"}

\* Mutant: only rows never tried are due.
MutDueRows == {d \in Pairs : queue[d].status = "pending" /\ queue[d].due}

\* What processDue's findMany selects.
DueRows == {d \in Pairs : queue[d].status \in Waiting /\ queue[d].due}

SetJob(p, d, pc) == job' = [job EXCEPT ![p][d].pc = pc]
EndJob(p, d) == job' = [job EXCEPT ![p][d] = NoJob]
SetPass(p, pc) == pass' = [pass EXCEPT ![p] = [IdlePass EXCEPT !.pc = pc]]

\* processDue has returned: the tick goes on to prune, the others are done.
AfterProcess(p) == IF p = Timer THEN "prune" ELSE "idle"

-----------------------------------------------------------------------------
(* propagateLogout and resend.                                             *)

\* The participations of the terminated session, without the initiator and inactive SPs.
Propagate(c, s, excluded) ==
    /\ call[c].pc = "ready"
    /\ LET targets == {d \in Pairs : d[1] = s /\ d[2] \notin excluded /\ sp[d[2]].exists /\ sp[d[2]].active}
       IN call' = [call EXCEPT ![c] = [pc |-> "insert",
                                       notify |-> {d \in targets : sp[d[2]].soap},
                                       skip |-> {d \in targets : ~sp[d[2]].soap}]]
    /\ UNCHANGED <<sp, queue, pass, job, faults, tries>>

\* Mutant: the upsert's update branch starts the delivery over.
MutInsert(c, d) ==
    /\ d \in call[c].notify \cup call[c].skip
    /\ IF sp[d[2]].exists
       THEN /\ queue' = [queue EXCEPT ![d] = [NoRow EXCEPT
                             !.status = IF d \in call[c].skip THEN "skipped_no_endpoint" ELSE "pending",
                             !.due = d \notin call[c].skip]]
            /\ tries' = [tries EXCEPT ![d] = 0]
       ELSE UNCHANGED <<queue, tries>>
    /\ call' = [call EXCEPT ![c].notify = @ \ {d}, ![c].skip = @ \ {d}]
    /\ UNCHANGED <<sp, pass, job, faults>>

\* One upsert: an existing row is left as it is; a failing one (the SP is gone) is swallowed.
Insert(c, d) ==
    /\ d \in call[c].notify \cup call[c].skip
    /\ IF queue[d].status = "absent" /\ sp[d[2]].exists
       THEN /\ queue' = [queue EXCEPT ![d] = [NoRow EXCEPT
                             !.status = IF d \in call[c].skip THEN "skipped_no_endpoint" ELSE "pending",
                             !.due = d \notin call[c].skip]]
            /\ tries' = [tries EXCEPT ![d] = 0]
       ELSE UNCHANGED <<queue, tries>>
    /\ call' = [call EXCEPT ![c].notify = @ \ {d}, ![c].skip = @ \ {d}]
    /\ UNCHANGED <<sp, pass, job, faults>>

\* void this.runFirstPass()
Kick(c, f) ==
    /\ call[c].pc = "insert" /\ call[c].notify = {} /\ call[c].skip = {}
    /\ pass[f].pc = "idle"
    /\ call' = [call EXCEPT ![c] = CallDone]
    /\ SetPass(f, "count")
    /\ UNCHANGED <<sp, queue, job, faults, tries>>

\* The operator's resend: a conditional update, then a first pass whatever it matched.
Resend(d, f) ==
    /\ pass[f].pc = "idle"
    /\ queue' = [queue EXCEPT ![d] =
          IF @.status \in {"failed", "given_up", "partial"}
          THEN [NoRow EXCEPT !.status = "pending", !.due = TRUE] ELSE @]
    /\ SetPass(f, "count")
    /\ UNCHANGED <<sp, call, job, faults, tries>>

-----------------------------------------------------------------------------
(* processDue, on behalf of a first pass, the timer or the operator.       *)

\* The timer fires, or the operator asks for "process queue now": a first pass of one round.
StartPass(p) ==
    /\ pass[p].pc = "idle"
    /\ SetPass(p, "count")
    /\ UNCHANGED <<sp, queue, call, job, faults, tries>>

\* count of in_flight rows; no budget left ends the pass.
CountInFlight(p) ==
    /\ pass[p].pc = "count"
    /\ LET n == Cardinality(InFlight) IN
       IF n >= MaxInFlight THEN SetPass(p, AfterProcess(p))
       ELSE pass' = [pass EXCEPT ![p] = [pc |-> "find", budget |-> MaxInFlight - n]]
    /\ UNCHANGED <<sp, queue, call, job, faults, tries>>

\* findMany with take; a pass that found nothing is over.
FindDue(p) ==
    /\ pass[p].pc = "find"
    /\ \E due \in kSubset(Min({Concurrency, pass[p].budget, Cardinality(DueRows)}), DueRows) :
          /\ job' = [job EXCEPT ![p] = [d \in Pairs |->
                        IF d \in due THEN [pc |-> "claim", attempts |-> queue[d].attempts] ELSE NoJob]]
          /\ SetPass(p, IF due = {} THEN AfterProcess(p) ELSE "deliver")
    /\ UNCHANGED <<sp, queue, call, faults, tries>>

\* Promise.all over the rows is settled: a first pass within its time box goes round again.
Delivered(p) ==
    /\ pass[p].pc = "deliver"
    /\ \A d \in Pairs : job[p][d] = NoJob
    /\ \/ SetPass(p, AfterProcess(p))
       \/ p \in FirstPasses /\ SetPass(p, "count")
    /\ UNCHANGED <<sp, queue, call, job, faults, tries>>

\* The rest of the tick: deleteMany of old resolved rows, when the prune interval has elapsed.  A
\* claim still pending on a deleted id matches nothing, also when the pair is inserted again.
Prune ==
    /\ pass[Timer].pc = "prune"
    /\ SetPass(Timer, "idle")
    /\ \/ UNCHANGED <<queue, job>>
       \/ LET pruned == {d \in Pairs : queue[d].status \in Prunable /\ queue[d].old} IN
          /\ queue' = [d \in Pairs |-> IF d \in pruned THEN NoRow ELSE queue[d]]
          /\ job' = [p \in Passes |-> [d \in Pairs |-> IF d \in pruned THEN NoJob ELSE job[p][d]]]
    /\ UNCHANGED <<sp, call, faults, tries>>

-----------------------------------------------------------------------------
(* deliverRow.                                                             *)

\* Mutant: the claim is an unconditional update.
MutClaim(p, d) ==
    /\ job[p][d].pc = "claim"
    /\ queue' = [queue EXCEPT ![d].status = "in_flight", ![d].old = FALSE]
    /\ SetJob(p, d, "load")
    /\ UNCHANGED <<sp, call, pass, faults, tries>>

\* updateMany on the status alone: what nextRetryAt and attempts are by now is not looked at.
Claim(p, d) ==
    /\ job[p][d].pc = "claim"
    /\ IF queue[d].status \in Waiting
       THEN /\ queue' = [queue EXCEPT ![d].status = "in_flight"]
            /\ SetJob(p, d, "load")
       ELSE /\ EndJob(p, d)
            /\ UNCHANGED queue
    /\ UNCHANGED <<sp, call, pass, faults, tries>>

\* The SP as it is now (the IdP settings exist since bootstrap); no endpoint counts as a failed attempt.
Load(p, d) ==
    /\ job[p][d].pc = "load"
    /\ SetJob(p, d, IF sp[d[2]].exists /\ sp[d[2]].soap THEN "send" ELSE "rejected")
    /\ tries' = [tries EXCEPT ![d] = IF @ > MaxRetries THEN @ ELSE @ + 1]
    /\ UNCHANGED <<sp, queue, call, pass, faults>>

\* Sign, POST, verify; what the exchange throws is caught and counts as failed.
Send(p, d, outcome) ==
    /\ job[p][d].pc = "send"
    /\ SetJob(p, d, outcome)
    /\ UNCHANGED <<sp, queue, call, pass, faults, tries>>

\* finishResolved: by id, with the attempts read before the claim.
FinishResolved(p, d) ==
    /\ job[p][d].pc \in {"succeeded", "partial"} /\ queue[d].status # "absent"
    /\ queue' = [queue EXCEPT ![d] = [status |-> job[p][d].pc, attempts |-> job[p][d].attempts + 1,
                                      due |-> FALSE, old |-> FALSE]]
    /\ EndJob(p, d)
    /\ UNCHANGED <<sp, call, pass, faults, tries>>

\* Mutant: never gives up.
MutNeverGivesUp(p, d) ==
    /\ job[p][d].pc \in {"failed", "rejected"} /\ queue[d].status # "absent"
    /\ queue' = [queue EXCEPT ![d] = [status |-> "failed", attempts |-> job[p][d].attempts + 1,
                                      due |-> FALSE, old |-> FALSE]]
    /\ EndJob(p, d)
    /\ UNCHANGED <<sp, call, pass, faults, tries>>

\* Mutant: gives up on reaching the limit instead of exceeding it.
MutFinishFailure(p, d) ==
    /\ job[p][d].pc \in {"failed", "rejected"} /\ queue[d].status # "absent"
    /\ LET attempts == job[p][d].attempts + 1 IN
       queue' = [queue EXCEPT ![d] = [status |-> IF attempts >= MaxRetries THEN "given_up" ELSE "failed",
                                      attempts |-> attempts, due |-> FALSE, old |-> FALSE]]
    /\ EndJob(p, d)
    /\ UNCHANGED <<sp, call, pass, faults, tries>>

\* finishFailure: given up once the attempts exceed MaxRetries, otherwise due again after a backoff.
FinishFailure(p, d) ==
    /\ job[p][d].pc \in {"failed", "rejected"} /\ queue[d].status # "absent"
    /\ LET attempts == job[p][d].attempts + 1 IN
       queue' = [queue EXCEPT ![d] = [status |-> IF attempts > MaxRetries THEN "given_up" ELSE "failed",
                                      attempts |-> attempts, due |-> FALSE, old |-> FALSE]]
    /\ EndJob(p, d)
    /\ UNCHANGED <<sp, call, pass, faults, tries>>

\* The row went with its SP: every update by id throws, and deliverRow's rejection is ignored.
FinishGone(p, d) ==
    /\ job[p][d].pc \in {"succeeded", "partial", "failed", "rejected"} /\ queue[d].status = "absent"
    /\ EndJob(p, d)
    /\ UNCHANGED <<sp, queue, call, pass, faults, tries>>

-----------------------------------------------------------------------------
(* The administrator's SP connections, time and failures.                  *)

EditSp(s, active, soap) ==
    /\ sp[s].exists
    /\ sp' = [sp EXCEPT ![s].active = active, ![s].soap = soap]
    /\ UNCHANGED <<queue, call, pass, job, faults, tries>>

\* Cascades to the queue; the participations go too, so nothing is inserted again.
DeleteSp(s) ==
    /\ sp[s].exists
    /\ sp' = [sp EXCEPT ![s] = [exists |-> FALSE, active |-> FALSE, soap |-> FALSE]]
    /\ queue' = [d \in Pairs |-> IF d[2] = s THEN NoRow ELSE queue[d]]
    /\ UNCHANGED <<call, pass, job, faults, tries>>

\* The backoff of a failed row is over.
RetryDue(d) ==
    /\ queue[d].status = "failed" /\ ~queue[d].due
    /\ queue' = [queue EXCEPT ![d].due = TRUE]
    /\ UNCHANGED <<sp, call, pass, job, faults, tries>>

Ages(d) ==
    /\ queue[d].status \in Prunable /\ ~queue[d].old
    /\ queue' = [queue EXCEPT ![d].old = TRUE]
    /\ UNCHANGED <<sp, call, pass, job, faults, tries>>

\* A database call of deliverRow rejects.  The outcome's write is retried as a failure by the catch
\* block; before and in the catch block nothing restores the claimed row.
JobFault(p, d) ==
    /\ faults < MaxFaults
    /\ faults' = faults + 1
    /\ \/ job[p][d].pc \in {"claim", "load", "rejected"} /\ EndJob(p, d)
       \/ job[p][d].pc \in {"succeeded", "partial", "failed"} /\ SetJob(p, d, "rejected")
    /\ UNCHANGED <<sp, queue, call, pass, tries>>

\* A database call of the pass itself rejects: caught and logged, or a 500 for the operator.
PassFault(p) ==
    /\ faults < MaxFaults
    /\ faults' = faults + 1
    /\ pass[p].pc \in {"count", "find", "prune"}
    /\ SetPass(p, "idle")
    /\ UNCHANGED <<sp, queue, call, job, tries>>

\* One upsert rejects and is swallowed: that SP is never notified.
InsertFault(c, d) ==
    /\ faults < MaxFaults
    /\ faults' = faults + 1
    /\ d \in call[c].notify \cup call[c].skip
    /\ call' = [call EXCEPT ![c].notify = @ \ {d}, ![c].skip = @ \ {d}]
    /\ UNCHANGED <<sp, queue, pass, job, tries>>

\* The process dies and comes back: nothing looks at in_flight rows at startup.
Crash ==
    /\ faults < MaxFaults
    /\ faults' = faults + 1
    /\ call' = [c \in Calls |-> IF call[c].pc = "insert" THEN CallDone ELSE call[c]]
    /\ pass' = [p \in Passes |-> IdlePass]
    /\ job' = [p \in Passes |-> [d \in Pairs |-> NoJob]]
    /\ UNCHANGED <<sp, queue, tries>>

-----------------------------------------------------------------------------
Init ==
    /\ sp \in [SPs -> {x \in Sp : x.exists /\ x.active}]
    /\ queue = [d \in Pairs |-> NoRow]
    /\ call = [c \in Calls |-> [CallDone EXCEPT !.pc = "ready"]]
    /\ pass = [p \in Passes |-> IdlePass]
    /\ job = [p \in Passes |-> [d \in Pairs |-> NoJob]]
    /\ faults = 0
    /\ tries = [d \in Pairs |-> 0]

CallStep(c) ==
    \/ \E d \in Pairs : Insert(c, d)
    \/ \E f \in FirstPasses : Kick(c, f)

JobStep(p, d) ==
    \/ Claim(p, d) \/ Load(p, d)
    \/ \E outcome \in {"succeeded", "partial", "failed"} : Send(p, d, outcome)
    \/ FinishResolved(p, d) \/ FinishFailure(p, d) \/ FinishGone(p, d)

PassStep(p) == CountInFlight(p) \/ FindDue(p) \/ Delivered(p)

Operator ==
    \/ \E c \in Calls, s \in Sessions, excluded \in SUBSET SPs :
          Cardinality(excluded) <= 1 /\ Propagate(c, s, excluded)
    \/ \E d \in Pairs, f \in FirstPasses : Resend(d, f)
    \/ \E f \in FirstPasses : StartPass(f)
    \/ \E s \in Edited : DeleteSp(s) \/ \E active, soap \in BOOLEAN : EditSp(s, active, soap)

Failure ==
    \/ \E p \in Passes : PassFault(p) \/ \E d \in Pairs : JobFault(p, d)
    \/ \E c \in Calls, d \in Pairs : InsertFault(c, d)
    \/ Crash

Next ==
    \/ \E c \in Calls : CallStep(c)
    \/ \E p \in Passes : PassStep(p) \/ \E d \in Pairs : JobStep(p, d)
    \/ StartPass(Timer) \/ Prune
    \/ \E d \in Pairs : RetryDue(d) \/ Ages(d)
    \/ Operator \/ Failure

Spec == Init /\ [][Next]_vars

(***************************************************************************)
(* Node resumes every continuation, the database and the SOAP request have *)
(* time limits, the retry timer is enabled (tick > 0) and keeps firing,    *)
(* and wall-clock time passes.  Nothing obliges an operator to act.        *)
(***************************************************************************)
Fairness ==
    /\ \A c \in Calls : WF_vars(CallStep(c))
    /\ \A p \in Passes : WF_vars(PassStep(p)) /\ \A d \in Pairs : WF_vars(JobStep(p, d))
    /\ WF_vars(StartPass(Timer)) /\ WF_vars(Prune)
    /\ \A d \in Pairs : WF_vars(RetryDue(d))

FairSpec == Spec /\ Fairness

-----------------------------------------------------------------------------
(* Properties.                                                             *)

TypeOK ==
    /\ sp \in [SPs -> Sp]
    /\ queue \in [Pairs -> Row]
    /\ \A d \in Pairs : queue[d].status \in Waiting => queue[d].attempts <= MaxRetries
    /\ call \in [Calls -> Call]
    /\ pass \in [Passes -> Pass]
    /\ job \in [Passes -> [Pairs -> Job]]
    /\ faults \in 0..MaxFaults
    /\ tries \in [Pairs -> 0..(MaxRetries + 1)]

\* One worker at a time delivers a row, however many passes found it due, and the row says in_flight
\* for as long (unless the SP was deleted): the LogoutRequest is never in two exchanges at once.
OneWorkerPerRow ==
    \A d \in Pairs :
        /\ \A p, r \in Passes : job[p][d].pc \in Holding /\ job[r][d].pc \in Holding => p = r
        /\ \A p \in Passes : job[p][d].pc \in Holding => queue[d].status \in {"in_flight", "absent"}

Delivering(d) == \E p \in Passes : job[p][d].pc \in Holding

\* Without a crash or a rejected database call an in_flight row is being worked on.
InFlightHasWorker ==
    faults = 0 => \A d \in InFlight : Delivering(d)

\* A row is given up only after MaxRetries + 1 deliveries were begun since it was created, however
\* stale the attempts are that the passes count with.
GivenUpAfterRetries ==
    \A d \in Pairs : queue[d].status = "given_up" => tries[d] = MaxRetries + 1

\* A logout the SP acknowledged is never sent again: no stale pass, failure or resend brings the row
\* back; it only disappears by prune or with its SP.
AcknowledgedIsFinal ==
    [][\A d \in Pairs : queue[d].status = "succeeded" => queue'[d].status \in {"succeeded", "absent"}]_vars

Contract == INSTANCE LogoutContract
    WITH Rows <- Pairs,
         status <- [d \in Pairs |-> queue[d].status],
         sending <- [d \in Pairs |-> Delivering(d)]

\* Overlapping passes, resends, prunes, SP deletions, rejected calls and crashes together give every
\* row the life LogoutContract describes: only the delivery that claimed a row answers it.
HonoursContract == Contract!Spec

\* Nobody keeps resending.
ResendsEnd == <>[][\A d \in Pairs, f \in FirstPasses : ~Resend(d, f)]_vars

Unresolved(d) == queue[d].status \in {"pending", "failed", "in_flight"}

Orphaned(d) == queue[d].status = "in_flight" /\ ~Delivering(d)

\* Every queued logout ends acknowledged, answered partially or given up, crashes and rejected calls
\* included, unless the row itself was left in_flight by one; other rows left so do not block it as
\* long as they do not use up MaxInFlight.
ResolvedUnlessOrphaned ==
    ResendsEnd => \A d \in Pairs : Unresolved(d) ~> (~Unresolved(d) \/ Orphaned(d))

-----------------------------------------------------------------------------
(* What the documentation says and the interleavings above contradict.     *)

\* schema.prisma:210 "Persistent so retries survive restart".
EveryLogoutResolves ==
    ResendsEnd => \A d \in Pairs : Unresolved(d) ~> ~Unresolved(d)

\* backchannel-logout.config.ts:45 "Global cap on in-flight deliveries".
InFlightCapped == Cardinality(InFlight) <= MaxInFlight
=============================================================================
