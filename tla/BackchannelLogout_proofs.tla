---------------------- MODULE BackchannelLogout_proofs ----------------------
(* Types, safety and refinement of BackchannelLogout, for every set of sessions, SPs and passes and every limit. *)
EXTENDS BackchannelLogout, FiniteSetTheorems, TLAPS

USE QueueConstants

LEMMA RecordTypes ==
    NoRow \in Row /\ NoJob \in Job /\ IdlePass \in Pass /\ CallDone \in Call
  BY DEF NoRow, Row, Status, NoJob, Job, JobPC, IdlePass, Pass, CallDone, Call

\* SetJob moves one job to another await and leaves the attempts it read alone.
LEMMA JobSet ==
  ASSUME TypeOK, NEW p \in Passes, NEW d \in Pairs, NEW pc \in JobPC, SetJob(p, d, pc)
  PROVE  /\ job' \in [Passes -> [Pairs -> Job]]
         /\ \A q \in Passes, e \in Pairs :
               /\ job'[q][e].attempts = job[q][e].attempts
               /\ job'[q][e].pc = IF q = p /\ e = d THEN pc ELSE job[q][e].pc
<1>1. job \in [Passes -> [Pairs -> Job]]
  BY DEF TypeOK
<1>2. job[p] \in [Pairs -> Job] /\ job[p][d] \in Job
  BY <1>1
<1>3. [job[p][d] EXCEPT !.pc = pc] \in Job
  BY <1>2 DEF Job
<1>4. job' = [job EXCEPT ![p] = [job[p] EXCEPT ![d] = [job[p][d] EXCEPT !.pc = pc]]]
  BY <1>1 DEF SetJob
<1> QED BY <1>1, <1>2, <1>3, <1>4 DEF Job

LEMMA JobEnd ==
  ASSUME TypeOK, NEW p \in Passes, NEW d \in Pairs, EndJob(p, d)
  PROVE  /\ job' \in [Passes -> [Pairs -> Job]]
         /\ \A q \in Passes, e \in Pairs : job'[q][e] = IF q = p /\ e = d THEN NoJob ELSE job[q][e]
<1>1. job \in [Passes -> [Pairs -> Job]] /\ NoJob \in Job
  BY RecordTypes DEF TypeOK
<1> QED BY <1>1 DEF EndJob

LEMMA PassSet ==
  ASSUME TypeOK, NEW p \in Passes, NEW pc \in {"idle", "count", "find", "deliver", "prune"}, SetPass(p, pc)
  PROVE  /\ pass' \in [Passes -> Pass]
         /\ pass'[p].pc = pc
         /\ \A q \in Passes : q # p => pass'[q] = pass[q]
<1>1. pass \in [Passes -> Pass]
  BY DEF TypeOK
<1>2. [IdlePass EXCEPT !.pc = pc] \in Pass /\ [IdlePass EXCEPT !.pc = pc].pc = pc
  BY RecordTypes DEF Pass, IdlePass
<1> QED BY <1>1, <1>2 DEF SetPass

LEMMA AfterProcessType ==
  \A p : AfterProcess(p) \in {"idle", "count", "find", "deliver", "prune"}
  BY DEF AfterProcess

\* One row is replaced by a well-typed one.
LEMMA RowSet ==
  ASSUME TypeOK, NEW d \in Pairs, NEW x \in Row, queue' = [queue EXCEPT ![d] = x]
  PROVE  /\ queue' \in [Pairs -> Row]
         /\ (x.status \in Waiting => x.attempts <= MaxRetries)
               => \A e \in Pairs : queue'[e].status \in Waiting => queue'[e].attempts <= MaxRetries
         /\ queue'[d] = x
         /\ \A e \in Pairs : e # d => queue'[e] = queue[e]
  BY DEF TypeOK

\* The rows the actions write.
LEMMA RowsWritten ==
  /\ \A s \in Status, b \in BOOLEAN : [NoRow EXCEPT !.status = s, !.due = b] \in Row
  /\ \A s \in Status, n \in 0..(MaxRetries + 1), b \in BOOLEAN :
        [status |-> s, attempts |-> n, due |-> b, old |-> b] \in Row
  /\ \A x \in Row, s \in Status : [x EXCEPT !.status = s] \in Row
  /\ \A x \in Row, b \in BOOLEAN : [x EXCEPT !.due = b] \in Row /\ [x EXCEPT !.old = b] \in Row
<1>0. \A x \in Row, s \in Status, b \in BOOLEAN : [x EXCEPT !.status = s, !.due = b] \in Row
  BY DEF Row
<1>1. \A s \in Status, b \in BOOLEAN : [NoRow EXCEPT !.status = s, !.due = b] \in Row
  BY <1>0, RecordTypes
<1>2. \A s \in Status, n \in 0..(MaxRetries + 1), b \in BOOLEAN :
        [status |-> s, attempts |-> n, due |-> b, old |-> b] \in Row
  BY DEF Row
<1>3. \A x \in Row, s \in Status : [x EXCEPT !.status = s] \in Row
  BY DEF Row
<1>4. \A x \in Row, b \in BOOLEAN : [x EXCEPT !.due = b] \in Row /\ [x EXCEPT !.old = b] \in Row
  BY DEF Row
<1> QED BY <1>1, <1>2, <1>3, <1>4

LEMMA InFlightCount == Cardinality(InFlight) \in Nat
<1>1. InFlight \subseteq Participation /\ IsFiniteSet(Participation)
  BY DEF InFlight, Pairs
<1>2. IsFiniteSet(InFlight)
  BY <1>1, FS_Subset
<1> QED BY <1>2, FS_CardinalityType

\* Time changes no status and no count.
LEMMA TimeKeepsRows ==
  ASSUME TypeOK, NEW d \in Pairs, RetryDue(d) \/ Ages(d)
  PROVE  /\ queue' \in [Pairs -> Row]
         /\ \A e \in Pairs : /\ queue'[e].status = queue[e].status
                             /\ queue'[e].attempts = queue[e].attempts
<1>0. queue[d] \in Row /\ queue \in [Pairs -> Row]
  BY DEF TypeOK
<1>1. PICK x \in {[queue[d] EXCEPT !.due = TRUE], [queue[d] EXCEPT !.old = TRUE]} :
         queue' = [queue EXCEPT ![d] = x]
  BY <1>0 DEF RetryDue, Ages
<1>2. x \in Row /\ x.status = queue[d].status /\ x.attempts = queue[d].attempts
  <2>1. \A y \in Row, b \in BOOLEAN :
           /\ [y EXCEPT !.due = b] \in Row /\ [y EXCEPT !.old = b] \in Row
           /\ [y EXCEPT !.due = b].status = y.status /\ [y EXCEPT !.old = b].status = y.status
           /\ [y EXCEPT !.due = b].attempts = y.attempts /\ [y EXCEPT !.old = b].attempts = y.attempts
    BY DEF Row
  <2>2. TRUE \in BOOLEAN
    OBVIOUS
  <2>3. CASE x = [queue[d] EXCEPT !.due = TRUE]
    BY ONLY <1>0, <2>1, <2>2, <2>3
  <2>4. CASE x = [queue[d] EXCEPT !.old = TRUE]
    BY ONLY <1>0, <2>1, <2>2, <2>4
  <2> QED BY <2>3, <2>4
<1> QED BY <1>0, <1>1, <1>2

-----------------------------------------------------------------------------
(* Types.                                                                  *)

LEMMA InitTypeOK == Init => TypeOK
<1> SUFFICES ASSUME Init PROVE TypeOK
  OBVIOUS
<1>1. queue \in [Pairs -> Row] /\ job \in [Passes -> [Pairs -> Job]] /\ pass \in [Passes -> Pass]
  BY RecordTypes DEF Init
<1>2. [CallDone EXCEPT !.pc = "ready"] \in Call
  BY RecordTypes DEF CallDone, Call
<1>3. call \in [Calls -> Call]
  BY <1>2 DEF Init
<1>4. sp \in [SPs -> Sp] /\ faults \in 0..MaxFaults /\ tries \in [Pairs -> 0..(MaxRetries + 1)]
  BY DEF Init
<1>5. \A d \in Pairs : queue[d].attempts <= MaxRetries
  BY DEF Init, NoRow
<1> QED BY <1>1, <1>3, <1>4, <1>5 DEF TypeOK

LEMMA CallTypeOK ==
  ASSUME TypeOK, NEW c \in Calls, CallStep(c)
  PROVE  TypeOK'
<1>0. call \in [Calls -> Call] /\ call[c] \in Call
  BY DEF TypeOK
<1>1. ASSUME NEW d \in Pairs, Insert(c, d)
      PROVE  TypeOK'
  <2>1. call' \in [Calls -> Call]
    BY <1>0, <1>1 DEF Insert, Call
  <2>2. /\ queue' \in [Pairs -> Row]
        /\ \A e \in Pairs : queue'[e].status \in Waiting => queue'[e].attempts <= MaxRetries
    <3>1. CASE UNCHANGED queue
      BY <3>1 DEF TypeOK
    <3>2. CASE queue' = [queue EXCEPT ![d] = [NoRow EXCEPT
                             !.status = IF d \in call[c].skip THEN "skipped_no_endpoint" ELSE "pending",
                             !.due = d \notin call[c].skip]]
      <4>1. \A st \in Status, b \in BOOLEAN : [NoRow EXCEPT !.status = st, !.due = b] \in Row
        BY RowsWritten
      <4>2. (IF d \in call[c].skip THEN "skipped_no_endpoint" ELSE "pending") \in Status
        BY DEF Status
      <4>3. (d \notin call[c].skip) \in BOOLEAN
        OBVIOUS
      <4>4. [NoRow EXCEPT !.status = IF d \in call[c].skip THEN "skipped_no_endpoint" ELSE "pending",
                          !.due = d \notin call[c].skip] \in Row
        BY ONLY <4>1, <4>2, <4>3
      <4>5. [NoRow EXCEPT !.status = IF d \in call[c].skip THEN "skipped_no_endpoint" ELSE "pending",
                          !.due = d \notin call[c].skip].attempts <= MaxRetries
        BY DEF NoRow
      <4> QED BY <3>2, <4>4, <4>5, RowSet
    <3> QED BY <1>1, <3>1, <3>2 DEF Insert
  <2>3. tries' \in [Pairs -> 0..(MaxRetries + 1)]
    BY <1>1 DEF Insert, TypeOK
  <2>4. UNCHANGED <<sp, pass, job, faults>>
    BY <1>1 DEF Insert
  <2> QED BY <2>1, <2>2, <2>3, <2>4 DEF TypeOK
<1>2. ASSUME NEW f \in FirstPasses, Kick(c, f)
      PROVE  TypeOK'
  <2>1. f \in Passes
    BY DEF Passes
  <2>2. call' \in [Calls -> Call]
    BY <1>0, <1>2, RecordTypes DEF Kick
  <2>3. pass' \in [Passes -> Pass]
    BY <1>2, <2>1, PassSet DEF Kick
  <2> QED BY <1>2, <2>2, <2>3 DEF Kick, TypeOK
<1> QED BY <1>1, <1>2 DEF CallStep

LEMMA PassTypeOK ==
  ASSUME TypeOK, NEW p \in Passes, PassStep(p) \/ StartPass(p)
  PROVE  TypeOK'
<1>1. CASE StartPass(p)
  BY <1>1, PassSet DEF StartPass, TypeOK
<1>2. CASE CountInFlight(p)
  <2> DEFINE n == Cardinality(InFlight)
  <2>1. CASE n >= MaxInFlight
    BY <1>2, <2>1, PassSet, AfterProcessType DEF CountInFlight, TypeOK
  <2>2. CASE ~(n >= MaxInFlight)
    <3>1. [pc |-> "find", budget |-> MaxInFlight - n] \in Pass
      BY <2>2, InFlightCount DEF Pass
    <3>2. pass' = [pass EXCEPT ![p] = [pc |-> "find", budget |-> MaxInFlight - n]]
      BY <1>2, <2>2 DEF CountInFlight
    <3>3. pass' \in [Passes -> Pass]
      BY <3>1, <3>2 DEF TypeOK
    <3> QED BY <1>2, <3>3 DEF CountInFlight, TypeOK
  <2> QED BY <2>1, <2>2
<1>3. CASE FindDue(p)
  <2>1. PICK due \in SUBSET DueRows :
          /\ job' = [job EXCEPT ![p] = [d \in Pairs |->
                        IF d \in due THEN [pc |-> "claim", attempts |-> queue[d].attempts] ELSE NoJob]]
          /\ SetPass(p, IF due = {} THEN AfterProcess(p) ELSE "deliver")
    BY <1>3 DEF FindDue, kSubset
  <2>2. \A d \in DueRows : [pc |-> "claim", attempts |-> queue[d].attempts] \in Job
    BY DEF DueRows, TypeOK, Row, Job, JobPC
  <2>3. job' \in [Passes -> [Pairs -> Job]]
    BY <2>1, <2>2, RecordTypes DEF TypeOK
  <2>4. pass' \in [Passes -> Pass]
    BY <2>1, PassSet, AfterProcessType
  <2> QED BY <1>3, <2>3, <2>4 DEF FindDue, TypeOK
<1>4. CASE Delivered(p)
  <2>1. pass' \in [Passes -> Pass]
    BY <1>4, PassSet, AfterProcessType DEF Delivered
  <2> QED BY <1>4, <2>1 DEF Delivered, TypeOK
<1> QED BY <1>1, <1>2, <1>3, <1>4 DEF PassStep

LEMMA JobTypeOK ==
  ASSUME TypeOK, NEW p \in Passes, NEW d \in Pairs, JobStep(p, d)
  PROVE  TypeOK'
<1>0. /\ job[p][d] \in Job /\ queue[d] \in Row
      /\ {"load", "send", "rejected", "succeeded", "partial", "failed"} \subseteq JobPC
      /\ {"in_flight", "given_up", "failed", "succeeded", "partial"} \subseteq Status
  BY DEF TypeOK, JobPC, Status
<1>1. CASE Claim(p, d)
  <2>1. CASE queue[d].status \in Waiting
    <3>1. queue' = [queue EXCEPT ![d] = [queue[d] EXCEPT !.status = "in_flight"]]
      BY <1>1, <2>1 DEF Claim, TypeOK
    <3>2. [queue[d] EXCEPT !.status = "in_flight"] \in Row
      BY <1>0, RowsWritten
    <3>3. [queue[d] EXCEPT !.status = "in_flight"].status \notin Waiting
      BY <1>0 DEF Row, Waiting
    <3>4. /\ queue' \in [Pairs -> Row]
          /\ \A e \in Pairs : queue'[e].status \in Waiting => queue'[e].attempts <= MaxRetries
      BY <3>1, <3>2, <3>3, RowSet
    <3>5. job' \in [Passes -> [Pairs -> Job]]
      BY <1>0, <1>1, <2>1, JobSet DEF Claim
    <3> QED BY <1>1, <3>4, <3>5 DEF Claim, TypeOK
  <2>2. CASE queue[d].status \notin Waiting
    <3>1. job' \in [Passes -> [Pairs -> Job]] /\ UNCHANGED queue
      BY <1>1, <2>2, JobEnd DEF Claim
    <3> QED BY <1>1, <3>1 DEF Claim, TypeOK
  <2> QED BY <2>1, <2>2
<1>2. CASE Load(p, d)
  <2>1. job' \in [Passes -> [Pairs -> Job]]
    BY <1>0, <1>2, JobSet DEF Load
  <2>2. tries' \in [Pairs -> 0..(MaxRetries + 1)]
    BY <1>2 DEF Load, TypeOK
  <2> QED BY <1>2, <2>1, <2>2 DEF Load, TypeOK
<1>3. ASSUME NEW outcome \in {"succeeded", "partial", "failed"}, Send(p, d, outcome)
      PROVE  TypeOK'
  <2>1. job' \in [Passes -> [Pairs -> Job]]
    BY <1>0, <1>3, JobSet DEF Send
  <2> QED BY <1>3, <2>1 DEF Send, TypeOK
<1>4. CASE FinishResolved(p, d)
  <2> DEFINE x == [status |-> job[p][d].pc, attempts |-> job[p][d].attempts + 1, due |-> FALSE, old |-> FALSE]
  <2>1. job[p][d].pc \in Status \ Waiting /\ job[p][d].attempts + 1 \in 0..(MaxRetries + 1)
    BY <1>0, <1>4 DEF FinishResolved, Job, Status, Waiting
  <2>2. x \in Row
    BY <2>1, RowsWritten
  <2>3. /\ queue' \in [Pairs -> Row]
        /\ \A e \in Pairs : queue'[e].status \in Waiting => queue'[e].attempts <= MaxRetries
    <3>1. queue' = [queue EXCEPT ![d] = x]
      BY <1>4 DEF FinishResolved
    <3>2. x.status \notin Waiting
      BY <2>1
    <3> QED BY <2>2, <3>1, <3>2, RowSet
  <2>4. job' \in [Passes -> [Pairs -> Job]]
    BY <1>4, JobEnd DEF FinishResolved
  <2> QED BY <1>4, <2>3, <2>4 DEF FinishResolved, TypeOK
<1>5. CASE FinishFailure(p, d)
  <2> DEFINE attempts == job[p][d].attempts + 1
             st == IF attempts > MaxRetries THEN "given_up" ELSE "failed"
             x == [status |-> st, attempts |-> attempts, due |-> FALSE, old |-> FALSE]
  <2>1. attempts \in 0..(MaxRetries + 1) /\ st \in Status /\ (st \in Waiting => attempts <= MaxRetries)
    BY <1>0 DEF Job, Status, Waiting
  <2>2. x \in Row
    BY <2>1, RowsWritten
  <2>3. queue' = [queue EXCEPT ![d] = x]
    BY <1>5 DEF FinishFailure
  <2>4. x.status \in Waiting => x.attempts <= MaxRetries
    BY <2>1
  <2>5. /\ queue' \in [Pairs -> Row]
        /\ \A e \in Pairs : queue'[e].status \in Waiting => queue'[e].attempts <= MaxRetries
    BY <2>2, <2>3, <2>4, RowSet
  <2>6. job' \in [Passes -> [Pairs -> Job]]
    BY <1>5, JobEnd DEF FinishFailure
  <2> QED BY <1>5, <2>5, <2>6 DEF FinishFailure, TypeOK
<1>6. CASE FinishGone(p, d)
  <2>1. job' \in [Passes -> [Pairs -> Job]]
    BY <1>6, JobEnd DEF FinishGone
  <2> QED BY <1>6, <2>1 DEF FinishGone, TypeOK
<1> QED BY <1>1, <1>2, <1>3, <1>4, <1>5, <1>6 DEF JobStep

LEMMA TimerTypeOK ==
  ASSUME TypeOK, Prune \/ \E d \in Pairs : RetryDue(d) \/ Ages(d)
  PROVE  TypeOK'
<1>1. CASE Prune
  <2>1. pass' \in [Passes -> Pass]
    BY <1>1, PassSet DEF Prune, Passes
  <2>2. NoRow.status \notin Waiting
    BY DEF NoRow, Waiting
  <2> DEFINE pruned == {d \in Pairs : queue[d].status \in Prunable /\ queue[d].old}
  <2>3. CASE UNCHANGED <<queue, job>>
    BY <1>1, <2>1, <2>3 DEF Prune, TypeOK
  <2>4. CASE /\ queue' = [d \in Pairs |-> IF d \in pruned THEN NoRow ELSE queue[d]]
             /\ job' = [p \in Passes |-> [d \in Pairs |-> IF d \in pruned THEN NoJob ELSE job[p][d]]]
    <3> HIDE DEF pruned
    <3>1. /\ queue' \in [Pairs -> Row]
          /\ \A e \in Pairs : queue'[e].status \in Waiting => queue'[e].attempts <= MaxRetries
      BY <2>2, <2>4, RecordTypes DEF TypeOK
    <3>2. job' \in [Passes -> [Pairs -> Job]]
      BY <2>4, RecordTypes DEF TypeOK
    <3> QED BY <1>1, <2>1, <3>1, <3>2 DEF Prune, TypeOK
  <2> QED BY <1>1, <2>3, <2>4 DEF Prune
<1>2. ASSUME NEW d \in Pairs, RetryDue(d) \/ Ages(d)
      PROVE  TypeOK'
  <2>1. /\ queue' \in [Pairs -> Row]
        /\ \A e \in Pairs : queue'[e].status \in Waiting => queue'[e].attempts <= MaxRetries
    BY <1>2, TimeKeepsRows DEF TypeOK
  <2> QED BY <1>2, <2>1 DEF RetryDue, Ages, TypeOK
<1> QED BY <1>1, <1>2

LEMMA OperatorTypeOK ==
  ASSUME TypeOK, Operator
  PROVE  TypeOK'
<1>1. ASSUME NEW c \in Calls, NEW s \in Sessions, NEW excluded \in SUBSET SPs, Propagate(c, s, excluded)
      PROVE  TypeOK'
  <2>1. PICK n \in SUBSET Pairs, k \in SUBSET Pairs :
           call' = [call EXCEPT ![c] = [pc |-> "insert", notify |-> n, skip |-> k]]
    BY <1>1 DEF Propagate
  <2>2. call' \in [Calls -> Call]
    BY <2>1 DEF TypeOK, Call
  <2> QED BY <1>1, <2>2 DEF Propagate, TypeOK
<1>2. ASSUME NEW d \in Pairs, NEW f \in FirstPasses, Resend(d, f)
      PROVE  TypeOK'
  <2>1. pass' \in [Passes -> Pass]
    BY <1>2, PassSet DEF Resend, Passes
  <2>2. "pending" \in Status /\ TRUE \in BOOLEAN
    BY DEF Status
  <2>3. [NoRow EXCEPT !.status = "pending", !.due = TRUE] \in Row
    BY <2>2, RowsWritten
  <2>4. [NoRow EXCEPT !.status = "pending", !.due = TRUE].attempts <= MaxRetries
    BY DEF NoRow
  <2>5. UNCHANGED queue \/ queue' = [queue EXCEPT ![d] = [NoRow EXCEPT !.status = "pending", !.due = TRUE]]
    BY <1>2 DEF Resend, TypeOK
  <2>6. /\ queue' \in [Pairs -> Row]
        /\ \A e \in Pairs : queue'[e].status \in Waiting => queue'[e].attempts <= MaxRetries
    BY <2>3, <2>4, <2>5, RowSet DEF TypeOK
  <2> QED BY <1>2, <2>1, <2>6 DEF Resend, TypeOK
<1>3. ASSUME NEW f \in FirstPasses, StartPass(f)
      PROVE  TypeOK'
  BY <1>3, PassTypeOK DEF Passes
<1>4. ASSUME NEW s \in Edited, DeleteSp(s) \/ \E active, soap \in BOOLEAN : EditSp(s, active, soap)
      PROVE  TypeOK'
  <2>0. sp \in [SPs -> Sp] /\ s \in SPs
    BY DEF TypeOK
  <2>1. CASE DeleteSp(s)
    <3>1. sp' \in [SPs -> Sp]
      BY <2>0, <2>1 DEF DeleteSp, Sp
    <3>2. NoRow.status \notin Waiting
      BY DEF NoRow, Waiting
    <3>3. /\ queue' \in [Pairs -> Row]
          /\ \A e \in Pairs : queue'[e].status \in Waiting => queue'[e].attempts <= MaxRetries
      BY <2>1, <3>2, RecordTypes DEF DeleteSp, TypeOK
    <3> QED BY <2>1, <3>1, <3>3 DEF DeleteSp, TypeOK
  <2>2. ASSUME NEW active \in BOOLEAN, NEW soap \in BOOLEAN, EditSp(s, active, soap)
        PROVE  TypeOK'
    <3>1. sp' \in [SPs -> Sp]
      BY <2>0, <2>2 DEF EditSp, Sp
    <3> QED BY <2>2, <3>1 DEF EditSp, TypeOK
  <2> QED BY <1>4, <2>1, <2>2
<1> QED BY <1>1, <1>2, <1>3, <1>4 DEF Operator

LEMMA FailureTypeOK ==
  ASSUME TypeOK, Failure
  PROVE  TypeOK'
<1>1. ASSUME NEW p \in Passes, PassFault(p)
      PROVE  TypeOK'
  <2>1. pass' \in [Passes -> Pass] /\ faults' \in 0..MaxFaults
    BY <1>1, PassSet DEF PassFault, TypeOK
  <2> QED BY <1>1, <2>1 DEF PassFault, TypeOK
<1>2. ASSUME NEW p \in Passes, NEW d \in Pairs, JobFault(p, d)
      PROVE  TypeOK'
  <2>1. job' \in [Passes -> [Pairs -> Job]]
    BY <1>2, JobEnd, JobSet DEF JobFault, JobPC
  <2>2. faults' \in 0..MaxFaults
    BY <1>2 DEF JobFault, TypeOK
  <2> QED BY <1>2, <2>1, <2>2 DEF JobFault, TypeOK
<1>3. ASSUME NEW c \in Calls, NEW d \in Pairs, InsertFault(c, d)
      PROVE  TypeOK'
  <2>0. call \in [Calls -> Call] /\ call[c] \in Call
    BY DEF TypeOK
  <2>1. call' \in [Calls -> Call]
    BY <1>3, <2>0 DEF InsertFault, Call
  <2>2. faults' \in 0..MaxFaults
    BY <1>3 DEF InsertFault, TypeOK
  <2> QED BY <1>3, <2>1, <2>2 DEF InsertFault, TypeOK
<1>4. CASE Crash
  <2>1. call' \in [Calls -> Call]
    BY <1>4, RecordTypes DEF Crash, TypeOK
  <2>2. pass' \in [Passes -> Pass] /\ job' \in [Passes -> [Pairs -> Job]] /\ faults' \in 0..MaxFaults
    BY <1>4, RecordTypes DEF Crash, TypeOK
  <2> QED BY <1>4, <2>1, <2>2 DEF Crash, TypeOK
<1> QED BY <1>1, <1>2, <1>3, <1>4 DEF Failure

\* Every reachable state is well typed, whatever the limits: in particular a row that can still be
\* picked never has more than MaxRetries attempts behind it.
THEOREM QueueTypeCorrect == Spec => []TypeOK
<1>1. ASSUME TypeOK, [Next]_vars
      PROVE  TypeOK'
  <2>1. ASSUME NEW c \in Calls, CallStep(c)
        PROVE  TypeOK'
    BY <1>1, <2>1, CallTypeOK
  <2>2. ASSUME NEW p \in Passes, PassStep(p) \/ \E d \in Pairs : JobStep(p, d)
        PROVE  TypeOK'
    BY <1>1, <2>2, PassTypeOK, JobTypeOK
  <2>3. CASE StartPass(Timer)
    BY <1>1, <2>3, PassTypeOK DEF Passes
  <2>4. CASE UNCHANGED vars
    BY <1>1, <2>4 DEF vars, TypeOK
  <2> QED BY <1>1, <2>1, <2>2, <2>3, <2>4, TimerTypeOK, OperatorTypeOK, FailureTypeOK DEF Next
<1> QED BY <1>1, InitTypeOK, PTL DEF Spec

-----------------------------------------------------------------------------
(***************************************************************************)
(* The inductive invariant.  A worker holds its row from a successful      *)
(* claim to the write of the outcome; a row that is gone while some pass   *)
(* still names it went with its SP, so it cannot be inserted again.        *)
(***************************************************************************)
GoneForGood ==
    \A p \in Passes, d \in Pairs :
        job[p][d].pc # "none" /\ queue[d].status = "absent" => ~sp[d[2]].exists

WorkerInv == OneWorkerPerRow /\ GoneForGood

LEMMA JobPCs ==
    /\ Holding = {"load", "send", "succeeded", "partial", "failed", "rejected"}
    /\ NoJob.pc = "none" /\ NoRow.status = "absent" /\ NoRow.attempts = 0
  BY DEF Holding, JobPC, NoJob, NoRow

LEMMA SecondIsSP == \A d \in Pairs : d[2] \in SPs
  BY DEF Pairs

\* A step of one job: the others stay, and the row is only rewritten by the job that holds it.
LEMMA WorkerJobStep ==
  ASSUME TypeOK, WorkerInv, NEW p \in Passes, NEW d \in Pairs, JobStep(p, d)
  PROVE  WorkerInv'
<1> USE DEF WorkerInv, OneWorkerPerRow, GoneForGood
<1>0. /\ queue \in [Pairs -> Row] /\ job[p][d] \in Job /\ queue[d] \in Row
      /\ {"load", "send", "rejected", "succeeded", "partial", "failed"} \subseteq JobPC
  BY DEF TypeOK, JobPC
<1>1. CASE Claim(p, d)
  <2>1. CASE queue[d].status \in Waiting
    <3>1. /\ queue'[d].status = "in_flight"
          /\ \A e \in Pairs : e # d => queue'[e] = queue[e]
      BY <1>0, <1>1, <2>1 DEF Claim, Row
    <3>2. \A q \in Passes, e \in Pairs : job'[q][e].pc = IF q = p /\ e = d THEN "load" ELSE job[q][e].pc
      BY <1>0, <1>1, <2>1, JobSet DEF Claim
    <3>3. UNCHANGED sp
      BY <1>1 DEF Claim
    <3> QED BY <2>1, <3>1, <3>2, <3>3, JobPCs DEF Waiting
  <2>2. CASE queue[d].status \notin Waiting
    <3>1. \A q \in Passes, e \in Pairs : job'[q][e] = IF q = p /\ e = d THEN NoJob ELSE job[q][e]
      BY <1>1, <2>2, JobEnd DEF Claim
    <3>2. UNCHANGED <<sp, queue>>
      BY <1>1, <2>2 DEF Claim
    <3> QED BY <3>1, <3>2, JobPCs
  <2> QED BY <2>1, <2>2
<1>2. ASSUME NEW pc \in Holding, SetJob(p, d, pc), job[p][d].pc \in Holding, UNCHANGED <<sp, queue>>
      PROVE  WorkerInv'
  <2>1. \A q \in Passes, e \in Pairs : job'[q][e].pc = IF q = p /\ e = d THEN pc ELSE job[q][e].pc
    BY <1>2, JobSet DEF Holding
  <2> QED BY <1>2, <2>1, JobPCs
<1>3. CASE Load(p, d)
  <2>1. (IF sp[d[2]].exists /\ sp[d[2]].soap THEN "send" ELSE "rejected") \in Holding
    BY JobPCs
  <2> QED BY <1>2, <1>3, <2>1, JobPCs DEF Load
<1>4. ASSUME NEW outcome \in {"succeeded", "partial", "failed"}, Send(p, d, outcome)
      PROVE  WorkerInv'
  <2>1. outcome \in Holding
    BY JobPCs
  <2> QED BY <1>2, <1>4, <2>1, JobPCs DEF Send
<1>5. ASSUME EndJob(p, d), job[p][d].pc \in Holding, UNCHANGED sp, queue'[d].status # "absent",
             \A e \in Pairs : e # d => queue'[e] = queue[e]
      PROVE  WorkerInv'
  <2>1. \A q \in Passes, e \in Pairs : job'[q][e] = IF q = p /\ e = d THEN NoJob ELSE job[q][e]
    BY <1>5, JobEnd
  <2>2. \A q \in Passes : job'[q][d].pc \notin Holding
    BY <1>5, <2>1, JobPCs
  <2> QED BY <1>5, <2>1, <2>2, JobPCs
<1>6. CASE FinishResolved(p, d)
  <2>1. /\ queue'[d].status = job[p][d].pc
        /\ \A e \in Pairs : e # d => queue'[e] = queue[e]
    BY <1>0, <1>6 DEF FinishResolved
  <2> QED BY <1>5, <1>6, <2>1, JobPCs DEF FinishResolved
<1>7. CASE FinishFailure(p, d)
  <2>1. /\ queue'[d].status \in {"given_up", "failed"}
        /\ \A e \in Pairs : e # d => queue'[e] = queue[e]
    BY <1>0, <1>7 DEF FinishFailure
  <2> QED BY <1>5, <1>7, <2>1, JobPCs DEF FinishFailure
<1>8. CASE FinishGone(p, d)
  <2>1. \A q \in Passes, e \in Pairs : job'[q][e] = IF q = p /\ e = d THEN NoJob ELSE job[q][e]
    BY <1>8, JobEnd DEF FinishGone
  <2> QED BY <1>8, <2>1, JobPCs DEF FinishGone
<1> QED BY <1>1, <1>3, <1>4, <1>6, <1>7, <1>8 DEF JobStep

LEMMA WorkerPassStep ==
  ASSUME TypeOK, WorkerInv, NEW p \in Passes, PassStep(p) \/ StartPass(p)
  PROVE  WorkerInv'
<1> USE DEF WorkerInv, OneWorkerPerRow, GoneForGood
<1>1. CASE FindDue(p)
  <2>1. PICK due \in SUBSET DueRows :
          job' = [job EXCEPT ![p] = [d \in Pairs |->
                    IF d \in due THEN [pc |-> "claim", attempts |-> queue[d].attempts] ELSE NoJob]]
    BY <1>1 DEF FindDue, kSubset
  <2>2. \A q \in Passes, d \in Pairs :
           job'[q][d].pc = IF q # p THEN job[q][d].pc ELSE IF d \in due THEN "claim" ELSE "none"
    BY <2>1, JobPCs DEF TypeOK
  <2>3. \A d \in due : queue[d].status # "absent"
    BY DEF DueRows, Waiting
  <2> QED BY <1>1, <2>2, <2>3, JobPCs DEF FindDue
<1>2. CASE StartPass(p) \/ CountInFlight(p) \/ Delivered(p)
  <2>1. UNCHANGED <<sp, queue, job>>
    BY <1>2 DEF StartPass, CountInFlight, Delivered
  <2> QED BY <2>1
<1> QED BY <1>1, <1>2 DEF PassStep

\* Steps that leave the jobs alone and neither take a row from a worker nor bring back a lost one.
LEMMA WorkerRowStep ==
  ASSUME TypeOK, WorkerInv, UNCHANGED job,
         \A d \in Pairs :
            \/ queue'[d].status = queue[d].status /\ sp'[d[2]].exists = sp[d[2]].exists
            \/ queue[d].status \notin {"in_flight", "absent"} /\ queue'[d].status # "absent"
            \/ queue[d].status = "absent" /\ sp[d[2]].exists
            \/ queue'[d].status = "absent" /\ ~sp'[d[2]].exists
  PROVE  WorkerInv'
  BY JobPCs DEF WorkerInv, OneWorkerPerRow, GoneForGood

LEMMA WorkerStep ==
  ASSUME TypeOK, WorkerInv, [Next]_vars
  PROVE  WorkerInv'
<1>0. /\ queue \in [Pairs -> Row] /\ job \in [Passes -> [Pairs -> Job]] /\ sp \in [SPs -> Sp]
      /\ \A d \in Pairs : queue[d] \in Row
  BY DEF TypeOK
<1>1. ASSUME NEW c \in Calls, CallStep(c)
      PROVE  WorkerInv'
  <2>1. ASSUME NEW d \in Pairs, Insert(c, d)
        PROVE  WorkerInv'
    <3>1. \A e \in Pairs : e # d => queue'[e] = queue[e]
      BY <1>0, <2>1 DEF Insert
    <3>2. queue'[d] = queue[d] \/ (queue[d].status = "absent" /\ sp[d[2]].exists)
      BY <2>1 DEF Insert
    <3>3. UNCHANGED <<sp, job>>
      BY <2>1 DEF Insert
    <3> QED BY <3>1, <3>2, <3>3, WorkerRowStep
  <2>2. CASE \E f \in FirstPasses : Kick(c, f)
    BY <2>2, WorkerRowStep DEF Kick
  <2> QED BY <1>1, <2>1, <2>2 DEF CallStep
<1>2. ASSUME NEW p \in Passes, PassStep(p) \/ \E d \in Pairs : JobStep(p, d)
      PROVE  WorkerInv'
  BY <1>2, WorkerPassStep, WorkerJobStep
<1>3. CASE StartPass(Timer)
  BY <1>3, WorkerPassStep DEF Passes
<1>4. CASE Prune
  <2> DEFINE pruned == {d \in Pairs : queue[d].status \in Prunable /\ queue[d].old}
  <2>1. CASE UNCHANGED <<queue, job>>
    BY <1>4, <2>1, WorkerRowStep DEF Prune
  <2>2. CASE /\ queue' = [d \in Pairs |-> IF d \in pruned THEN NoRow ELSE queue[d]]
             /\ job' = [p \in Passes |-> [d \in Pairs |-> IF d \in pruned THEN NoJob ELSE job[p][d]]]
    <3> HIDE DEF pruned
    <3>1. \A p \in Passes, d \in Pairs :
             /\ d \in pruned => job'[p][d].pc = "none"
             /\ d \notin pruned => queue'[d] = queue[d] /\ job'[p][d] = job[p][d]
      BY <2>2, JobPCs
    <3>2. UNCHANGED sp
      BY <1>4 DEF Prune
    <3> QED BY <3>1, <3>2, JobPCs DEF WorkerInv, OneWorkerPerRow, GoneForGood
  <2> QED BY <1>4, <2>1, <2>2 DEF Prune
<1>5. ASSUME NEW d \in Pairs, RetryDue(d) \/ Ages(d)
      PROVE  WorkerInv'
  <2>1. \A e \in Pairs : queue'[e].status = queue[e].status
    BY <1>5, TimeKeepsRows
  <2> QED BY <1>5, <2>1, WorkerRowStep DEF RetryDue, Ages
<1>6. CASE Operator
  <2>1. ASSUME NEW c \in Calls, NEW s \in Sessions, NEW excluded \in SUBSET SPs, Propagate(c, s, excluded)
        PROVE  WorkerInv'
    BY <2>1, WorkerRowStep DEF Propagate
  <2>2. ASSUME NEW d \in Pairs, NEW f \in FirstPasses, Resend(d, f)
        PROVE  WorkerInv'
    <3>1. \A e \in Pairs : e # d => queue'[e] = queue[e]
      BY <1>0, <2>2 DEF Resend
    <3>2. \/ queue'[d] = queue[d]
          \/ queue[d].status \in {"failed", "given_up", "partial"} /\ queue'[d].status = "pending"
      BY <1>0, <2>2 DEF Resend, NoRow
    <3>3. UNCHANGED <<sp, job>>
      BY <2>2 DEF Resend
    <3> QED BY <3>1, <3>2, <3>3, WorkerRowStep
  <2>3. ASSUME NEW f \in FirstPasses, StartPass(f)
        PROVE  WorkerInv'
    BY <2>3, WorkerPassStep DEF Passes
  <2>4. ASSUME NEW s \in Edited, DeleteSp(s)
        PROVE  WorkerInv'
    <3>1. \A d \in Pairs : IF d[2] = s THEN queue'[d].status = "absent" /\ ~sp'[d[2]].exists
                           ELSE queue'[d] = queue[d] /\ sp'[d[2]] = sp[d[2]]
      BY <1>0, <2>4, SecondIsSP, JobPCs DEF DeleteSp
    <3> QED BY <2>4, <3>1, WorkerRowStep DEF DeleteSp
  <2>5. ASSUME NEW s \in Edited, NEW active \in BOOLEAN, NEW soap \in BOOLEAN, EditSp(s, active, soap)
        PROVE  WorkerInv'
    <3>1. \A d \in Pairs : sp'[d[2]].exists = sp[d[2]].exists
      BY <1>0, <2>5, SecondIsSP DEF EditSp, Sp
    <3> QED BY <2>5, <3>1, WorkerRowStep DEF EditSp
  <2> QED BY <1>6, <2>1, <2>2, <2>3, <2>4, <2>5 DEF Operator
<1>7. CASE Failure
  <2>1. ASSUME NEW p \in Passes, NEW d \in Pairs, JobFault(p, d)
        PROVE  WorkerInv'
    <3>1. UNCHANGED <<sp, queue>>
      BY <2>1 DEF JobFault
    <3>2. CASE EndJob(p, d)
      <4>1. \A q \in Passes, e \in Pairs : job'[q][e] = IF q = p /\ e = d THEN NoJob ELSE job[q][e]
        BY <3>2, JobEnd
      <4> QED BY <3>1, <4>1, JobPCs DEF WorkerInv, OneWorkerPerRow, GoneForGood
    <3>3. CASE job[p][d].pc \in Holding /\ SetJob(p, d, "rejected")
      <4>1. \A q \in Passes, e \in Pairs : job'[q][e].pc = IF q = p /\ e = d THEN "rejected" ELSE job[q][e].pc
        BY <3>3, JobSet DEF JobPC
      <4> QED BY <3>1, <3>3, <4>1, JobPCs DEF WorkerInv, OneWorkerPerRow, GoneForGood
    <3> QED BY <2>1, <3>2, <3>3, JobPCs DEF JobFault
  <2>2. CASE \E p \in Passes : PassFault(p)
    BY <2>2, WorkerRowStep DEF PassFault
  <2>3. CASE \E c \in Calls, d \in Pairs : InsertFault(c, d)
    BY <2>3, WorkerRowStep DEF InsertFault
  <2>4. CASE Crash
    <3>1. \A p \in Passes, d \in Pairs : job'[p][d].pc = "none"
      BY <2>4, JobPCs DEF Crash
    <3> QED BY <3>1, JobPCs DEF WorkerInv, OneWorkerPerRow, GoneForGood
  <2> QED BY <1>7, <2>1, <2>2, <2>3, <2>4 DEF Failure
<1>8. CASE UNCHANGED vars
  BY <1>8, WorkerRowStep DEF vars
<1> QED BY <1>1, <1>2, <1>3, <1>4, <1>5, <1>6, <1>7, <1>8 DEF Next

LEMMA WorkerInit == Init => WorkerInv
  BY JobPCs DEF Init, WorkerInv, OneWorkerPerRow, GoneForGood

\* However many passes overlap, at most one of them is between claiming a row and writing its
\* outcome, and the row is in_flight for as long (deliverRow: "no double-send").
THEOREM NoDoubleSend == Spec => []OneWorkerPerRow
<1>1. WorkerInv => OneWorkerPerRow
  BY DEF WorkerInv
<1> QED BY <1>1, WorkerInit, WorkerStep, QueueTypeCorrect, PTL DEF Spec

-----------------------------------------------------------------------------
(* A pass has jobs only while it waits for them.                           *)

JobsInPass ==
    \A p \in Passes, d \in Pairs : job[p][d].pc # "none" => pass[p].pc = "deliver"

LEMMA JobsInPassInit == Init => JobsInPass
  BY JobPCs DEF Init, JobsInPass

\* One pass without jobs moves on, and no pass gets a new job.
LEMMA PassMoves ==
  ASSUME TypeOK, JobsInPass, NEW p \in Passes, NEW pc \in {"idle", "count", "find", "deliver", "prune"},
         SetPass(p, pc), \A d \in Pairs : job'[p][d].pc = "none",
         \A q \in Passes, d \in Pairs : job'[q][d].pc # "none" => job[q][d].pc # "none"
  PROVE  JobsInPass'
  BY PassSet DEF JobsInPass

LEMMA JobsInPassStep ==
  ASSUME TypeOK, JobsInPass, [Next]_vars
  PROVE  JobsInPass'
<1>1. ASSUME UNCHANGED pass,
             \A q \in Passes, e \in Pairs : job'[q][e].pc # "none" => job[q][e].pc # "none"
      PROVE  JobsInPass'
  BY <1>1 DEF JobsInPass
<1>2. ASSUME NEW p \in Passes, pass[p].pc # "deliver"
      PROVE  \A d \in Pairs : job[p][d].pc = "none"
  BY <1>2 DEF JobsInPass
<1>f. FirstPasses \subseteq Passes /\ Timer \in Passes
  BY DEF Passes
<1>3. ASSUME NEW p \in Passes, NEW d \in Pairs, NEW pc \in JobPC, SetJob(p, d, pc), job[p][d].pc # "none",
             UNCHANGED pass
      PROVE  JobsInPass'
  <2>1. \A q \in Passes, e \in Pairs : job'[q][e].pc = IF q = p /\ e = d THEN pc ELSE job[q][e].pc
    BY <1>3, JobSet
  <2> QED BY <1>1, <1>3, <2>1
<1>4. ASSUME NEW p \in Passes, NEW d \in Pairs, EndJob(p, d), UNCHANGED pass
      PROVE  JobsInPass'
  <2>1. \A q \in Passes, e \in Pairs : job'[q][e] = IF q = p /\ e = d THEN NoJob ELSE job[q][e]
    BY <1>4, JobEnd
  <2> QED BY <1>1, <1>4, <2>1, JobPCs
<1>5. ASSUME NEW c \in Calls, CallStep(c)
      PROVE  JobsInPass'
  <2>1. ASSUME NEW f \in FirstPasses, Kick(c, f)
        PROVE  JobsInPass'
    BY <1>2, <1>f, <2>1, PassMoves DEF Kick
  <2>2. CASE \E d \in Pairs : Insert(c, d)
    BY <1>1, <2>2 DEF Insert
  <2> QED BY <1>5, <2>1, <2>2 DEF CallStep
<1>6. ASSUME NEW p \in Passes, StartPass(p) \/ PassStep(p)
      PROVE  JobsInPass'
  <2>1. CASE StartPass(p)
    BY <1>2, <2>1, PassMoves DEF StartPass
  <2>2. CASE CountInFlight(p)
    <3>1. UNCHANGED job /\ \A d \in Pairs : job[p][d].pc = "none"
      BY <1>2, <2>2 DEF CountInFlight
    <3>2. \A q \in Passes : q # p => pass'[q] = pass[q]
      BY <2>2, PassSet, AfterProcessType DEF CountInFlight, TypeOK
    <3> QED BY <3>1, <3>2 DEF JobsInPass
  <2>3. CASE FindDue(p)
    <3>1. PICK due \in SUBSET DueRows :
            /\ job' = [job EXCEPT ![p] = [d \in Pairs |->
                          IF d \in due THEN [pc |-> "claim", attempts |-> queue[d].attempts] ELSE NoJob]]
            /\ SetPass(p, IF due = {} THEN AfterProcess(p) ELSE "deliver")
      BY <2>3 DEF FindDue, kSubset
    <3>2. /\ \A q \in Passes : q # p => job'[q] = job[q]
          /\ \A d \in Pairs : d \notin due => job'[p][d].pc = "none"
      BY <3>1, JobPCs DEF TypeOK
    <3>3. CASE due = {}
      BY <3>1, <3>2, <3>3, AfterProcessType, PassMoves
    <3>4. CASE due # {}
      <4>1. pass'[p].pc = "deliver" /\ \A q \in Passes : q # p => pass'[q] = pass[q]
        BY <3>1, <3>4, PassSet
      <4> QED BY <3>2, <4>1 DEF JobsInPass
    <3> QED BY <3>3, <3>4
  <2>4. CASE Delivered(p)
    BY <2>4, AfterProcessType, JobPCs, PassMoves DEF Delivered
  <2> QED BY <1>6, <2>1, <2>2, <2>3, <2>4 DEF PassStep
<1>7. ASSUME NEW p \in Passes, NEW d \in Pairs, JobStep(p, d)
      PROVE  JobsInPass'
  <2>0. {"load", "send", "rejected", "succeeded", "partial", "failed"} \subseteq JobPC
    BY DEF JobPC
  <2>1. CASE Claim(p, d)
    BY <1>3, <1>4, <2>0, <2>1 DEF Claim
  <2>2. CASE Load(p, d)
    BY <1>3, <2>0, <2>2 DEF Load
  <2>3. CASE \E outcome \in {"succeeded", "partial", "failed"} : Send(p, d, outcome)
    BY <1>3, <2>0, <2>3 DEF Send
  <2>4. CASE FinishResolved(p, d) \/ FinishFailure(p, d) \/ FinishGone(p, d)
    BY <1>4, <2>4 DEF FinishResolved, FinishFailure, FinishGone
  <2> QED BY <1>7, <2>1, <2>2, <2>3, <2>4 DEF JobStep
<1>8. CASE Prune
  <2> DEFINE pruned == {d \in Pairs : queue[d].status \in Prunable /\ queue[d].old}
  <2>1. \A q \in Passes, d \in Pairs : job'[q][d].pc # "none" => job[q][d].pc # "none"
    <3>1. CASE UNCHANGED job
      BY <3>1
    <3>2. CASE job' = [p \in Passes |-> [d \in Pairs |-> IF d \in pruned THEN NoJob ELSE job[p][d]]]
      <4> HIDE DEF pruned
      <4> QED BY <3>2, JobPCs
    <3> QED BY <1>8, <3>1, <3>2 DEF Prune
  <2>2. \A d \in Pairs : job[Timer][d].pc = "none"
    BY <1>2, <1>8, <1>f DEF Prune
  <2> QED BY <1>8, <1>f, <2>1, <2>2, PassMoves DEF Prune
<1>9. CASE Operator
  <2>1. CASE \E c \in Calls, s \in Sessions, excluded \in SUBSET SPs : Propagate(c, s, excluded)
    BY <1>1, <2>1 DEF Propagate
  <2>2. ASSUME NEW d \in Pairs, NEW f \in FirstPasses, Resend(d, f)
        PROVE  JobsInPass'
    BY <1>2, <1>f, <2>2, PassMoves DEF Resend
  <2>3. CASE \E f \in FirstPasses : StartPass(f)
    BY <1>6, <1>f, <2>3
  <2>4. CASE \E s \in Edited : DeleteSp(s) \/ \E active, soap \in BOOLEAN : EditSp(s, active, soap)
    BY <1>1, <2>4 DEF DeleteSp, EditSp
  <2> QED BY <1>9, <2>1, <2>2, <2>3, <2>4 DEF Operator
<1>10. CASE Failure
  <2>1. ASSUME NEW p \in Passes, NEW d \in Pairs, JobFault(p, d)
        PROVE  JobsInPass'
    BY <1>3, <1>4, <2>1 DEF JobFault, JobPC
  <2>2. ASSUME NEW p \in Passes, PassFault(p)
        PROVE  JobsInPass'
    BY <1>2, <2>2, PassMoves DEF PassFault
  <2>3. CASE \E c \in Calls, d \in Pairs : InsertFault(c, d)
    BY <1>1, <2>3 DEF InsertFault
  <2>4. CASE Crash
    BY <2>4, JobPCs DEF Crash, JobsInPass
  <2> QED BY <1>10, <2>1, <2>2, <2>3, <2>4 DEF Failure
<1>11. CASE \E d \in Pairs : RetryDue(d) \/ Ages(d)
  BY <1>1, <1>11 DEF RetryDue, Ages
<1>12. CASE UNCHANGED vars
  BY <1>1, <1>12 DEF vars
<1> QED BY <1>5, <1>6, <1>7, <1>8, <1>9, <1>10, <1>11, <1>12, <1>f DEF Next

-----------------------------------------------------------------------------
(* The queue implements its contract.                                      *)

\* LogoutContract's step of one row, with the refinement mapping spelled out.
Now(d) == queue[d].status
Later(d) == queue'[d].status

RowMoves(d) ==
    \/ /\ Now(d) = "absent" /\ ~Delivering(d)
       /\ Later(d) \in {"pending", "skipped_no_endpoint"} /\ ~Delivering(d)'
    \/ /\ Now(d) \in {"pending", "failed"} /\ ~Delivering(d)
       /\ Later(d) = "in_flight" /\ Delivering(d)'
    \/ /\ Now(d) = "in_flight" /\ Delivering(d)
       /\ Later(d) \in {"succeeded", "partial", "failed", "given_up"} /\ ~Delivering(d)'
    \/ /\ Now(d) \in {"failed", "partial", "given_up"} /\ ~Delivering(d)
       /\ Later(d) = "pending" /\ ~Delivering(d)'
    \/ Later(d) = "absent" /\ Delivering(d)' = Delivering(d)
    \/ /\ Delivering(d) /\ ~Delivering(d)'
       /\ Now(d) \in {"in_flight", "absent"} /\ Later(d) = Now(d)
    \/ Later(d) = Now(d) /\ Delivering(d)' = Delivering(d)

\* A row whose jobs and status are left alone stays.
LEMMA RowStays ==
  ASSUME NEW d \in Pairs, queue'[d].status = queue[d].status,
         \A p \in Passes : job'[p][d].pc \in Holding <=> job[p][d].pc \in Holding
  PROVE  RowMoves(d)
  BY DEF RowMoves, Now, Later, Delivering

\* Only the status changes, nobody delivers the row.
LEMMA RowRewritten ==
  ASSUME NEW d \in Pairs, WorkerInv, UNCHANGED job,
         \/ queue[d].status = "absent" /\ sp[d[2]].exists
              /\ queue'[d].status \in {"pending", "skipped_no_endpoint"}
         \/ queue[d].status \in {"failed", "partial", "given_up"} /\ queue'[d].status = "pending"
         \/ queue'[d].status = "absent"
  PROVE  RowMoves(d)
<1>1. Delivering(d)' = Delivering(d)
  BY DEF Delivering
<1>2. Delivering(d) => queue[d].status = "in_flight" \/ (queue[d].status = "absent" /\ ~sp[d[2]].exists)
  BY JobPCs DEF Delivering, WorkerInv, OneWorkerPerRow, GoneForGood
<1> QED BY <1>1, <1>2 DEF RowMoves, Now, Later

LEMMA JobMovesRows ==
  ASSUME TypeOK, WorkerInv, NEW p \in Passes, NEW d \in Pairs, JobStep(p, d), NEW e \in Pairs
  PROVE  RowMoves(e)
<1>0. /\ queue \in [Pairs -> Row] /\ queue[d] \in Row /\ job[p][d] \in Job
      /\ {"load", "send", "rejected", "succeeded", "partial", "failed"} \subseteq JobPC
  BY DEF TypeOK, JobPC
<1>1. ASSUME NEW pc \in JobPC, SetJob(p, d, pc)
      PROVE  \A q \in Passes, f \in Pairs : job'[q][f].pc = IF q = p /\ f = d THEN pc ELSE job[q][f].pc
  BY <1>1, JobSet
<1>2. ASSUME EndJob(p, d)
      PROVE  /\ \A q \in Passes, f \in Pairs : ~(q = p /\ f = d) => job'[q][f] = job[q][f]
             /\ job'[p][d].pc = "none"
  BY <1>2, JobEnd, JobPCs
<1>3. CASE Claim(p, d)
  <2>1. CASE queue[d].status \in Waiting
    <3>1. /\ queue'[d].status = "in_flight"
          /\ \A f \in Pairs : f # d => queue'[f] = queue[f]
      BY <1>0, <1>3, <2>1 DEF Claim, Row
    <3>2. \A q \in Passes, f \in Pairs : job'[q][f].pc = IF q = p /\ f = d THEN "load" ELSE job[q][f].pc
      BY <1>0, <1>1, <1>3, <2>1 DEF Claim
    <3>3. CASE e # d
      BY <3>1, <3>2, <3>3, RowStays
    <3>4. ~Delivering(d)
      BY <2>1 DEF Delivering, WorkerInv, OneWorkerPerRow, Waiting
    <3>5. Delivering(d)'
      BY <3>2, JobPCs DEF Delivering
    <3> QED BY <2>1, <3>1, <3>3, <3>4, <3>5 DEF RowMoves, Now, Later, Waiting
  <2>2. CASE queue[d].status \notin Waiting
    <3>1. UNCHANGED queue /\ EndJob(p, d) /\ job[p][d].pc = "claim"
      BY <1>3, <2>2 DEF Claim
    <3> QED BY <1>2, <3>1, JobPCs, RowStays
  <2> QED BY <2>1, <2>2
<1>4. CASE Load(p, d)
  <2>1. PICK pc \in {"send", "rejected"} : SetJob(p, d, pc)
    BY <1>4 DEF Load
  <2> QED BY <1>0, <1>1, <1>4, <2>1, JobPCs, RowStays DEF Load
<1>5. ASSUME NEW outcome \in {"succeeded", "partial", "failed"}, Send(p, d, outcome)
      PROVE  RowMoves(e)
  BY <1>0, <1>1, <1>5, JobPCs, RowStays DEF Send
<1>6. CASE FinishResolved(p, d) \/ FinishFailure(p, d)
  <2>1. EndJob(p, d) /\ job[p][d].pc \in Holding /\ queue[d].status # "absent"
    BY <1>6, JobPCs DEF FinishResolved, FinishFailure
  <2>2. /\ queue'[d].status \in {"succeeded", "partial", "failed", "given_up"}
        /\ \A f \in Pairs : f # d => queue'[f] = queue[f]
    BY <1>0, <1>6 DEF FinishResolved, FinishFailure
  <2>3. CASE e # d
    BY <1>2, <2>1, <2>2, <2>3, RowStays
  <2>4. Delivering(d) /\ queue[d].status = "in_flight"
    BY <2>1 DEF Delivering, WorkerInv, OneWorkerPerRow
  <2>5. ~Delivering(d)'
    BY <1>2, <2>1, JobPCs DEF Delivering, WorkerInv, OneWorkerPerRow
  <2> QED BY <2>2, <2>3, <2>4, <2>5 DEF RowMoves, Now, Later
<1>7. CASE FinishGone(p, d)
  <2>1. EndJob(p, d) /\ UNCHANGED queue /\ job[p][d].pc \in Holding /\ queue[d].status = "absent"
    BY <1>7, JobPCs DEF FinishGone
  <2>2. CASE e # d
    BY <1>2, <2>1, <2>2, RowStays
  <2>3. Delivering(d) /\ ~Delivering(d)'
    BY <1>2, <2>1, JobPCs DEF Delivering, WorkerInv, OneWorkerPerRow
  <2> QED BY <2>1, <2>2, <2>3 DEF RowMoves, Now, Later
<1> QED BY <1>3, <1>4, <1>5, <1>6, <1>7 DEF JobStep

LEMMA FailureMovesRows ==
  ASSUME TypeOK, WorkerInv, Failure, NEW e \in Pairs
  PROVE  RowMoves(e)
<1>1. ASSUME NEW p \in Passes, NEW d \in Pairs, JobFault(p, d)
      PROVE  RowMoves(e)
  <2>1. UNCHANGED queue
    BY <1>1 DEF JobFault
  <2>2. CASE EndJob(p, d)
    <3>1. /\ \A q \in Passes, f \in Pairs : ~(q = p /\ f = d) => job'[q][f] = job[q][f]
          /\ job'[p][d].pc = "none"
      BY <2>2, JobEnd, JobPCs
    <3>2. CASE e # d \/ job[p][d].pc \notin Holding
      BY <2>1, <3>1, <3>2, JobPCs, RowStays
    <3>3. CASE job[p][d].pc \in Holding
      <4>1. Delivering(d) /\ ~Delivering(d)' /\ queue[d].status \in {"in_flight", "absent"}
        BY <3>1, <3>3, JobPCs DEF Delivering, WorkerInv, OneWorkerPerRow
      <4> QED BY <2>1, <3>2, <4>1 DEF RowMoves, Now, Later
    <3> QED BY <3>2, <3>3
  <2>3. CASE job[p][d].pc \in Holding /\ SetJob(p, d, "rejected")
    <3>1. \A q \in Passes, f \in Pairs : job'[q][f].pc = IF q = p /\ f = d THEN "rejected" ELSE job[q][f].pc
      BY <2>3, JobSet DEF JobPC
    <3> QED BY <2>1, <2>3, <3>1, JobPCs, RowStays
  <2> QED BY <1>1, <2>2, <2>3, JobPCs DEF JobFault
<1>2. CASE \E p \in Passes : PassFault(p)
  BY <1>2, RowStays DEF PassFault
<1>3. CASE \E c \in Calls, d \in Pairs : InsertFault(c, d)
  BY <1>3, RowStays DEF InsertFault
<1>4. CASE Crash
  <2>1. UNCHANGED queue /\ ~Delivering(e)'
    BY <1>4, JobPCs DEF Crash, Delivering
  <2>2. Delivering(e) => queue[e].status \in {"in_flight", "absent"}
    BY DEF Delivering, WorkerInv, OneWorkerPerRow
  <2> QED BY <2>1, <2>2 DEF RowMoves, Now, Later, Delivering
<1> QED BY <1>1, <1>2, <1>3, <1>4 DEF Failure

LEMMA StepMovesRows ==
  ASSUME TypeOK, WorkerInv, JobsInPass, [Next]_vars, NEW e \in Pairs
  PROVE  RowMoves(e)
<1>0. /\ queue \in [Pairs -> Row] /\ job \in [Passes -> [Pairs -> Job]]
      /\ \A d \in Pairs : queue[d] \in Row
  BY DEF TypeOK
<1>1. ASSUME NEW c \in Calls, CallStep(c)
      PROVE  RowMoves(e)
  <2>1. ASSUME NEW d \in Pairs, Insert(c, d)
        PROVE  RowMoves(e)
    <3>1. UNCHANGED job
      BY <2>1 DEF Insert
    <3>2. \/ queue'[e] = queue[e]
          \/ /\ queue[e].status = "absent" /\ sp[e[2]].exists
             /\ queue'[e].status \in {"pending", "skipped_no_endpoint"}
      <4> DEFINE st == IF d \in call[c].skip THEN "skipped_no_endpoint" ELSE "pending"
                 due == d \notin call[c].skip
      <4>1. CASE UNCHANGED queue
        BY <4>1
      <4>2. CASE /\ queue[d].status = "absent" /\ sp[d[2]].exists
                 /\ queue' = [queue EXCEPT ![d] = [NoRow EXCEPT !.status = st, !.due = due]]
        <5>1. \A b \in BOOLEAN : [NoRow EXCEPT !.status = st, !.due = b].status = st
          BY DEF NoRow
        <5>2. due \in BOOLEAN /\ st \in {"pending", "skipped_no_endpoint"}
          OBVIOUS
        <5> HIDE DEF st, due
        <5>3. [NoRow EXCEPT !.status = st, !.due = due].status = st
          BY ONLY <5>1, <5>2
        <5>4. CASE e = d
          <6>1. queue'[d] = [NoRow EXCEPT !.status = st, !.due = due]
            BY <1>0, <4>2
          <6> QED BY <4>2, <5>2, <5>3, <5>4, <6>1
        <5>5. CASE e # d
          BY <1>0, <4>2, <5>5
        <5> QED BY <5>4, <5>5
      <4> QED BY <2>1, <4>1, <4>2 DEF Insert
    <3> QED BY <3>1, <3>2, RowStays, RowRewritten
  <2>2. CASE \E f \in FirstPasses : Kick(c, f)
    BY <2>2, RowStays DEF Kick
  <2> QED BY <1>1, <2>1, <2>2 DEF CallStep
<1>2. ASSUME NEW p \in Passes, StartPass(p) \/ PassStep(p)
      PROVE  RowMoves(e)
  <2>1. CASE FindDue(p)
    <3>1. PICK due \in SUBSET DueRows :
            job' = [job EXCEPT ![p] = [d \in Pairs |->
                      IF d \in due THEN [pc |-> "claim", attempts |-> queue[d].attempts] ELSE NoJob]]
      BY <2>1 DEF FindDue, kSubset
    <3>2. /\ \A q \in Passes : q # p => job'[q] = job[q]
          /\ job'[p][e].pc \notin Holding
      BY <1>0, <3>1, JobPCs
    <3>3. UNCHANGED queue /\ pass[p].pc = "find"
      BY <2>1 DEF FindDue
    <3>4. job[p][e].pc \notin Holding
      BY <3>3, JobPCs DEF JobsInPass
    <3> QED BY <3>2, <3>3, <3>4, RowStays
  <2>2. CASE StartPass(p) \/ CountInFlight(p) \/ Delivered(p)
    BY <2>2, RowStays DEF StartPass, CountInFlight, Delivered
  <2> QED BY <1>2, <2>1, <2>2 DEF PassStep
<1>3. ASSUME NEW p \in Passes, NEW d \in Pairs, JobStep(p, d)
      PROVE  RowMoves(e)
  BY <1>3, JobMovesRows
<1>4. CASE Prune
  <2> DEFINE pruned == {d \in Pairs : queue[d].status \in Prunable /\ queue[d].old}
  <2>1. CASE UNCHANGED <<queue, job>>
    BY <2>1, RowStays
  <2>2. CASE /\ queue' = [d \in Pairs |-> IF d \in pruned THEN NoRow ELSE queue[d]]
             /\ job' = [p \in Passes |-> [d \in Pairs |-> IF d \in pruned THEN NoJob ELSE job[p][d]]]
    <3>1. e \in pruned => ~Delivering(e)
      BY DEF Delivering, WorkerInv, OneWorkerPerRow, Prunable
    <3> HIDE DEF pruned
    <3>2. /\ e \in pruned => queue'[e].status = "absent" /\ \A p \in Passes : job'[p][e].pc = "none"
          /\ e \notin pruned => queue'[e] = queue[e] /\ \A p \in Passes : job'[p][e] = job[p][e]
      BY <2>2, JobPCs
    <3>3. CASE e \in pruned
      <4>1. ~Delivering(e)'
        BY <3>2, <3>3, JobPCs DEF Delivering
      <4> QED BY <3>1, <3>2, <3>3, <4>1 DEF RowMoves, Now, Later, Delivering
    <3> QED BY <3>2, <3>3, RowStays
  <2> QED BY <1>4, <2>1, <2>2 DEF Prune
<1>5. ASSUME NEW d \in Pairs, RetryDue(d) \/ Ages(d)
      PROVE  RowMoves(e)
  <2>1. queue'[e].status = queue[e].status
    BY <1>5, TimeKeepsRows
  <2> QED BY <1>5, <2>1, RowStays DEF RetryDue, Ages
<1>6. CASE Operator
  <2>1. CASE \E c \in Calls, s \in Sessions, excluded \in SUBSET SPs : Propagate(c, s, excluded)
    BY <2>1, RowStays DEF Propagate
  <2>2. ASSUME NEW d \in Pairs, NEW f \in FirstPasses, Resend(d, f)
        PROVE  RowMoves(e)
    <3>1. UNCHANGED job
      BY <2>2 DEF Resend
    <3>2. \/ queue'[e] = queue[e]
          \/ queue[e].status \in {"failed", "given_up", "partial"} /\ queue'[e].status = "pending"
      BY <1>0, <2>2 DEF Resend, NoRow
    <3> QED BY <3>1, <3>2, RowStays, RowRewritten
  <2>3. CASE \E f \in FirstPasses : StartPass(f)
    BY <1>2, <2>3 DEF Passes
  <2>4. ASSUME NEW s \in Edited, DeleteSp(s)
        PROVE  RowMoves(e)
    <3>1. UNCHANGED job /\ (queue'[e] = queue[e] \/ queue'[e].status = "absent")
      BY <2>4, JobPCs DEF DeleteSp
    <3> QED BY <3>1, RowStays, RowRewritten
  <2>5. CASE \E s \in Edited : \E active, soap \in BOOLEAN : EditSp(s, active, soap)
    BY <2>5, RowStays DEF EditSp
  <2> QED BY <1>6, <2>1, <2>2, <2>3, <2>4, <2>5 DEF Operator
<1>7. CASE UNCHANGED vars
  BY <1>7, RowStays DEF vars
<1> QED BY <1>1, <1>2, <1>3, <1>4, <1>5, <1>6, <1>7, FailureMovesRows DEF Next, Passes

LEMMA QueueInvariants == Spec => [](TypeOK /\ WorkerInv /\ JobsInPass)
BY QueueTypeCorrect, WorkerInit, WorkerStep, JobsInPassInit, JobsInPassStep, PTL DEF Spec

\* A logout the SP acknowledged is never sent again, for any number of passes, resends and failures.
THEOREM AcknowledgedForGood == Spec => AcknowledgedIsFinal
<1>1. ASSUME TypeOK, WorkerInv, JobsInPass, [Next]_vars
      PROVE  \A d \in Pairs : queue[d].status = "succeeded" => queue'[d].status \in {"succeeded", "absent"}
  BY <1>1, StepMovesRows DEF RowMoves, Now, Later
<1> QED BY <1>1, QueueInvariants, PTL DEF Spec, AcknowledgedIsFinal

\* Every behaviour of the queue is one LogoutContract allows, for every instance.
THEOREM QueueHonoursContract == Spec => HonoursContract
<1>1. Init => Contract!Init
  BY JobPCs DEF Init, Contract!Init, Delivering
<1>2. ASSUME TypeOK, WorkerInv, JobsInPass, [Next]_vars
      PROVE  Contract!Next
  <2>1. ASSUME NEW d \in Pairs PROVE Contract!RowNext(d)
    <3>1. RowMoves(d)
      BY <1>2, StepMovesRows
    <3> QED BY <3>1 DEF RowMoves, Now, Later, Contract!RowNext, Contract!Enqueue, Contract!Begin,
               Contract!Answer, Contract!Resend, Contract!Remove, Contract!Abandon, Contract!Stay
  <2> QED BY <2>1 DEF Contract!Next
<1> QED BY <1>1, <1>2, QueueInvariants, PTL DEF Spec, HonoursContract, Contract!Spec
-----------------------------------------------------------------------------
(***************************************************************************)
(* Why a row is given up late enough.  No count of attempts, neither the   *)
(* row's nor the one a pass read and may count on with long after, exceeds *)
(* the deliveries begun; a delivery that began is not in the count it      *)
(* carries yet.                                                            *)
(***************************************************************************)
Begun == {"send", "succeeded", "partial", "failed", "rejected"}

Counted ==
    /\ GivenUpAfterRetries
    /\ \A d \in Pairs : queue[d].attempts <= tries[d]
    /\ \A p \in Passes, d \in Pairs :
          /\ job[p][d].pc # "none" => job[p][d].attempts <= tries[d]
          /\ job[p][d].pc \in Begun => job[p][d].attempts < tries[d]

LEMMA CountedInit == Init => Counted
  BY JobPCs DEF Init, Counted, GivenUpAfterRetries, Begun

\* Steps that begin no delivery and raise no count.
LEMMA CountedStays ==
  ASSUME TypeOK, Counted, UNCHANGED tries,
         \A d \in Pairs : /\ queue'[d].attempts <= tries[d]
                          /\ queue'[d].status = "given_up" => queue[d].status = "given_up",
         \A p \in Passes, d \in Pairs :
            \/ job'[p][d].pc = "none"
            \/ /\ job[p][d].pc # "none" /\ job'[p][d].attempts = job[p][d].attempts
               /\ job'[p][d].pc \in Begun => job[p][d].pc \in Begun
  PROVE  Counted'
<1>1. GivenUpAfterRetries'
  BY DEF Counted, GivenUpAfterRetries
<1>2. \A d \in Pairs : queue'[d].attempts <= tries'[d]
  OBVIOUS
<1>3. ASSUME NEW p \in Passes, NEW d \in Pairs
      PROVE  /\ job'[p][d].pc # "none" => job'[p][d].attempts <= tries'[d]
             /\ job'[p][d].pc \in Begun => job'[p][d].attempts < tries'[d]
  <2>1. CASE job'[p][d].pc = "none"
    BY <2>1 DEF Begun
  <2>2. CASE job[p][d].pc # "none" /\ job'[p][d].attempts = job[p][d].attempts
             /\ (job'[p][d].pc \in Begun => job[p][d].pc \in Begun)
    BY <2>2 DEF Counted
  <2> QED BY <2>1, <2>2
<1> QED BY <1>1, <1>2, <1>3 DEF Counted

\* Steps of a job.
LEMMA CountedJobStep ==
  ASSUME TypeOK, WorkerInv, Counted, NEW p \in Passes, NEW d \in Pairs, JobStep(p, d)
  PROVE  Counted'
<1>0. /\ queue \in [Pairs -> Row] /\ job[p][d] \in Job /\ queue[d] \in Row
      /\ tries \in [Pairs -> 0..(MaxRetries + 1)]
      /\ Begun \subseteq JobPC /\ "load" \in JobPC /\ "none" \notin Begun
  BY DEF TypeOK, JobPC, Begun
<1>1. \A e \in Pairs : queue[e].attempts <= tries[e]
  BY DEF Counted
<1>2. ASSUME EndJob(p, d), UNCHANGED <<queue, tries>>
      PROVE  Counted'
  <2>1. \A q \in Passes, e \in Pairs : job'[q][e] = IF q = p /\ e = d THEN NoJob ELSE job[q][e]
    BY <1>2, JobEnd
  <2> QED BY <1>1, <1>2, <2>1, JobPCs, CountedStays
<1>3. CASE Claim(p, d)
  <2>1. CASE queue[d].status \in Waiting
    <3>1. \A e \in Pairs : /\ queue'[e].attempts = queue[e].attempts
                           /\ queue'[e].status = "given_up" => queue[e].status = "given_up"
      BY <1>0, <1>3, <2>1 DEF Claim, Row
    <3>2. \A q \in Passes, e \in Pairs :
             /\ job'[q][e].attempts = job[q][e].attempts
             /\ job'[q][e].pc = IF q = p /\ e = d THEN "load" ELSE job[q][e].pc
      BY <1>0, <1>3, <2>1, JobSet DEF Claim
    <3> QED BY <1>1, <1>3, <3>1, <3>2, CountedStays DEF Claim, Begun
  <2>2. CASE queue[d].status \notin Waiting
    BY <1>2, <1>3, <2>2 DEF Claim
  <2> QED BY <2>1, <2>2
<1>4. CASE Load(p, d)
  <2>1. PICK pc \in {"send", "rejected"} : SetJob(p, d, pc)
    BY <1>4 DEF Load
  <2>2. \A q \in Passes, e \in Pairs :
           /\ job'[q][e].attempts = job[q][e].attempts
           /\ job'[q][e].pc = IF q = p /\ e = d THEN pc ELSE job[q][e].pc
    BY <1>0, <2>1, JobSet DEF Begun
  <2>3. /\ \A e \in Pairs : e # d => tries'[e] = tries[e]
        /\ tries'[d] = IF tries[d] > MaxRetries THEN tries[d] ELSE tries[d] + 1
    BY <1>0, <1>4 DEF Load
  <2>4. job[p][d].attempts \in 0..MaxRetries /\ tries[d] \in 0..(MaxRetries + 1)
    BY <1>0 DEF Job
  <2>5. job[p][d].attempts <= tries[d]
    BY <1>4 DEF Counted, Load
  <2>6. /\ tries'[d] >= tries[d] /\ job[p][d].attempts < tries'[d]
        /\ tries[d] = MaxRetries + 1 => tries'[d] = tries[d]
    BY <2>3, <2>4, <2>5
  <2>7. \A e \in Pairs : queue[e].attempts \in Nat /\ tries[e] \in Nat /\ tries'[e] \in Nat
    BY <1>0, <2>3, <2>4 DEF TypeOK, Row
  <2>8. \A q \in Passes, e \in Pairs : job[q][e].attempts \in Nat
    BY DEF TypeOK, Job
  <2>9. UNCHANGED queue
    BY <1>4 DEF Load
  <2>10. GivenUpAfterRetries'
    BY <2>3, <2>6, <2>9 DEF Counted, GivenUpAfterRetries
  <2>11. \A e \in Pairs : queue'[e].attempts <= tries'[e]
    BY <1>1, <2>3, <2>6, <2>7, <2>9
  <2>12. ASSUME NEW q \in Passes, NEW e \in Pairs
         PROVE  /\ job'[q][e].pc # "none" => job'[q][e].attempts <= tries'[e]
                /\ job'[q][e].pc \in Begun => job'[q][e].attempts < tries'[e]
    <3>1. CASE e = d
      BY <2>2, <2>4, <2>5, <2>6, <2>7, <2>8, <3>1 DEF Counted
    <3>2. CASE e # d
      BY <2>2, <2>3, <3>2 DEF Counted
    <3> QED BY <3>1, <3>2
  <2> QED BY <2>10, <2>11, <2>12 DEF Counted
<1>5. ASSUME NEW outcome \in {"succeeded", "partial", "failed"}, Send(p, d, outcome)
      PROVE  Counted'
  <2>1. \A q \in Passes, e \in Pairs :
           /\ job'[q][e].attempts = job[q][e].attempts
           /\ job'[q][e].pc = IF q = p /\ e = d THEN outcome ELSE job[q][e].pc
    BY <1>0, <1>5, JobSet DEF Send, Begun
  <2> QED BY <1>1, <1>5, <2>1, CountedStays DEF Send, Begun
<1>6. ASSUME NEW x \in Row, queue' = [queue EXCEPT ![d] = x], EndJob(p, d), UNCHANGED tries,
             x.attempts = job[p][d].attempts + 1, job[p][d].pc \in Begun,
             x.status = "given_up" => x.attempts > MaxRetries
      PROVE  Counted'
  <2>1. \A q \in Passes, e \in Pairs : job'[q][e] = IF q = p /\ e = d THEN NoJob ELSE job[q][e]
    BY <1>6, JobEnd
  <2>2. job[p][d].attempts \in 0..MaxRetries /\ tries[d] \in 0..(MaxRetries + 1) /\ job[p][d].attempts < tries[d]
    BY <1>0, <1>6 DEF Job, Counted
  <2>3. x.attempts <= tries[d] /\ (x.status = "given_up" => tries[d] = MaxRetries + 1)
    BY <1>6, <2>2
  <2>4. \A e \in Pairs : queue'[e] = IF e = d THEN x ELSE queue[e]
    BY <1>0, <1>6
  <2>5. GivenUpAfterRetries'
    BY <1>6, <2>3, <2>4 DEF Counted, GivenUpAfterRetries
  <2>6. \A e \in Pairs : queue'[e].attempts <= tries'[e]
    BY <1>1, <1>6, <2>3, <2>4
  <2>7. \A q \in Passes, e \in Pairs :
           /\ job'[q][e].pc # "none" => job'[q][e].attempts <= tries'[e]
           /\ job'[q][e].pc \in Begun => job'[q][e].attempts < tries'[e]
    BY <1>0, <1>6, <2>1, JobPCs DEF Counted
  <2> QED BY <2>5, <2>6, <2>7 DEF Counted
<1>7. CASE FinishResolved(p, d)
  <2> DEFINE n == job[p][d].attempts + 1
             s == job[p][d].pc
             x == [status |-> s, attempts |-> n, due |-> FALSE, old |-> FALSE]
  <2>1. n \in 0..(MaxRetries + 1) /\ s \in {"succeeded", "partial"}
    BY <1>0, <1>7 DEF Job, FinishResolved
  <2>2. x \in Row
    BY <2>1, RowsWritten DEF Status
  <2> QED BY <1>6, <1>7, <2>1, <2>2 DEF FinishResolved, Begun
<1>8. CASE FinishFailure(p, d)
  <2> DEFINE n == job[p][d].attempts + 1
             s == IF n > MaxRetries THEN "given_up" ELSE "failed"
             x == [status |-> s, attempts |-> n, due |-> FALSE, old |-> FALSE]
  <2>1. n \in 0..(MaxRetries + 1) /\ s \in {"given_up", "failed"} /\ (s = "given_up" => n > MaxRetries)
    BY <1>0 DEF Job
  <2>2. x \in Row
    BY <2>1, RowsWritten DEF Status
  <2>3. queue' = [queue EXCEPT ![d] = x] /\ EndJob(p, d) /\ UNCHANGED tries /\ job[p][d].pc \in Begun
    BY <1>8 DEF FinishFailure, Begun
  <2> QED BY <1>6, <2>1, <2>2, <2>3
<1>9. CASE FinishGone(p, d)
  BY <1>2, <1>9 DEF FinishGone
<1> QED BY <1>3, <1>4, <1>5, <1>7, <1>8, <1>9 DEF JobStep

\* A pass takes rows with the count they have.
LEMMA CountedFindDue ==
  ASSUME TypeOK, Counted, NEW p \in Passes, FindDue(p)
  PROVE  Counted'
<1>1. PICK due \in SUBSET DueRows :
        job' = [job EXCEPT ![p] = [d \in Pairs |->
                  IF d \in due THEN [pc |-> "claim", attempts |-> queue[d].attempts] ELSE NoJob]]
  BY DEF FindDue, kSubset
<1>2. \A q \in Passes, d \in Pairs :
         /\ q # p => job'[q][d] = job[q][d]
         /\ d \notin due => job'[p][d].pc = "none"
         /\ d \in due => job'[p][d].pc = "claim" /\ job'[p][d].attempts = queue[d].attempts
  BY <1>1, JobPCs DEF TypeOK
<1>3. UNCHANGED <<queue, tries>>
  BY DEF FindDue
<1>4. \A q \in Passes, d \in Pairs :
         /\ job'[q][d].pc # "none" => job'[q][d].attempts <= tries'[d]
         /\ job'[q][d].pc \in Begun => job'[q][d].attempts < tries'[d]
  BY <1>2, <1>3 DEF Counted, Begun
<1> QED BY <1>3, <1>4 DEF Counted, GivenUpAfterRetries

\* A row is inserted: nothing still counts on an earlier one.
LEMMA CountedInsert ==
  ASSUME TypeOK, WorkerInv, Counted, NEW c \in Calls, NEW d \in Pairs, Insert(c, d)
  PROVE  Counted'
<1>1. CASE UNCHANGED <<queue, tries>>
  BY <1>1 DEF Insert, Counted, GivenUpAfterRetries
<1>2. CASE queue[d].status = "absent" /\ sp[d[2]].exists
  <2>1. /\ \A e \in Pairs : e # d => queue'[e] = queue[e] /\ tries'[e] = tries[e]
        /\ queue'[d].attempts = 0 /\ queue'[d].status # "given_up" /\ tries'[d] = 0
        /\ UNCHANGED job
    <3>1. queue \in [Pairs -> Row] /\ tries \in [Pairs -> 0..(MaxRetries + 1)]
      BY DEF TypeOK
    <3>2. PICK s \in {"skipped_no_endpoint", "pending"}, b \in BOOLEAN :
             queue' = [queue EXCEPT ![d] = [NoRow EXCEPT !.status = s, !.due = b]]
      BY <1>2 DEF Insert
    <3>3. [NoRow EXCEPT !.status = s, !.due = b].attempts = 0 /\ [NoRow EXCEPT !.status = s, !.due = b].status = s
      BY DEF NoRow
    <3>4. tries' = [tries EXCEPT ![d] = 0] /\ UNCHANGED job
      BY <1>2 DEF Insert
    <3> QED BY <3>1, <3>2, <3>3, <3>4
  <2>2. \A p \in Passes : job[p][d].pc = "none"
    BY <1>2 DEF WorkerInv, GoneForGood
  <2> QED BY <2>1, <2>2 DEF Counted, GivenUpAfterRetries, Begun
<1> QED BY <1>1, <1>2 DEF Insert

LEMMA CountedStep ==
  ASSUME TypeOK, WorkerInv, Counted, [Next]_vars
  PROVE  Counted'
<1>0. /\ queue \in [Pairs -> Row] /\ \A d \in Pairs : queue[d] \in Row /\ tries[d] \in Nat
      /\ \A d \in Pairs : queue[d].attempts <= tries[d]
  BY DEF TypeOK, Counted
<1>1. ASSUME UNCHANGED <<job, tries>>,
             \A d \in Pairs : \/ queue'[d].attempts = queue[d].attempts /\ queue'[d].status = queue[d].status
                              \/ queue'[d].attempts = 0 /\ queue'[d].status # "given_up"
      PROVE  Counted'
  BY <1>0, <1>1, CountedStays
<1>2. ASSUME NEW c \in Calls, CallStep(c)
      PROVE  Counted'
  <2>1. CASE \E f \in FirstPasses : Kick(c, f)
    BY <1>1, <2>1 DEF Kick
  <2> QED BY <1>2, <2>1, CountedInsert DEF CallStep
<1>3. ASSUME NEW p \in Passes, StartPass(p) \/ PassStep(p)
      PROVE  Counted'
  <2>1. CASE StartPass(p) \/ CountInFlight(p) \/ Delivered(p)
    BY <1>1, <2>1 DEF StartPass, CountInFlight, Delivered
  <2> QED BY <1>3, <2>1, CountedFindDue DEF PassStep
<1>4. CASE Prune
  <2> DEFINE pruned == {d \in Pairs : queue[d].status \in Prunable /\ queue[d].old}
  <2>1. CASE UNCHANGED <<queue, job>>
    BY <1>1, <1>4, <2>1 DEF Prune
  <2>2. CASE /\ queue' = [d \in Pairs |-> IF d \in pruned THEN NoRow ELSE queue[d]]
             /\ job' = [p \in Passes |-> [d \in Pairs |-> IF d \in pruned THEN NoJob ELSE job[p][d]]]
    <3> HIDE DEF pruned
    <3>1. \A p \in Passes, d \in Pairs : job'[p][d].pc = "none" \/ job'[p][d] = job[p][d]
      BY <2>2, JobPCs
    <3>2. \A d \in Pairs : queue'[d] = NoRow \/ queue'[d] = queue[d]
      BY <2>2
    <3>3. \A d \in Pairs : /\ queue'[d].attempts <= tries[d]
                           /\ queue'[d].status = "given_up" => queue[d].status = "given_up"
      BY <1>0, <3>2, JobPCs
    <3>4. UNCHANGED tries
      BY <1>4 DEF Prune
    <3> QED BY <3>1, <3>3, <3>4, CountedStays
  <2> QED BY <1>4, <2>1, <2>2 DEF Prune
<1>5. ASSUME NEW d \in Pairs, RetryDue(d) \/ Ages(d)
      PROVE  Counted'
  <2>1. \A e \in Pairs : queue'[e].status = queue[e].status /\ queue'[e].attempts = queue[e].attempts
    BY <1>5, TimeKeepsRows
  <2> QED BY <1>1, <1>5, <2>1 DEF RetryDue, Ages
<1>6. CASE Operator
  <2>1. CASE \E c \in Calls, s \in Sessions, excluded \in SUBSET SPs : Propagate(c, s, excluded)
    BY <1>1, <2>1 DEF Propagate
  <2>2. ASSUME NEW d \in Pairs, NEW f \in FirstPasses, Resend(d, f)
        PROVE  Counted'
    <3>1. \A e \in Pairs : e # d => queue'[e] = queue[e]
      BY <1>0, <2>2 DEF Resend
    <3>2. queue'[d] = queue[d] \/ (queue'[d].status = "pending" /\ queue'[d].attempts = 0)
      BY <1>0, <2>2 DEF Resend, NoRow
    <3> QED BY <1>1, <2>2, <3>1, <3>2 DEF Resend
  <2>3. CASE \E f \in FirstPasses : StartPass(f)
    BY <1>3, <2>3 DEF Passes
  <2>4. ASSUME NEW s \in Edited, DeleteSp(s)
        PROVE  Counted'
    <3>1. \A d \in Pairs : queue'[d] = NoRow \/ queue'[d] = queue[d]
      BY <2>4 DEF DeleteSp
    <3> QED BY <1>1, <2>4, <3>1, JobPCs DEF DeleteSp
  <2>5. CASE \E s \in Edited, active, soap \in BOOLEAN : EditSp(s, active, soap)
    BY <1>1, <2>5 DEF EditSp
  <2> QED BY <1>6, <2>1, <2>2, <2>3, <2>4, <2>5 DEF Operator
<1>7. CASE Failure
  <2>1. ASSUME NEW p \in Passes, NEW d \in Pairs, JobFault(p, d)
        PROVE  Counted'
    <3>0. UNCHANGED <<queue, tries>>
      BY <2>1 DEF JobFault
    <3>1. CASE EndJob(p, d)
      <4>1. \A q \in Passes, e \in Pairs : job'[q][e] = IF q = p /\ e = d THEN NoJob ELSE job[q][e]
        BY <3>1, JobEnd
      <4> QED BY <1>0, <3>0, <4>1, JobPCs, CountedStays
    <3>2. CASE job[p][d].pc \in {"succeeded", "partial", "failed"} /\ SetJob(p, d, "rejected")
      <4>1. \A q \in Passes, e \in Pairs :
               /\ job'[q][e].attempts = job[q][e].attempts
               /\ job'[q][e].pc = IF q = p /\ e = d THEN "rejected" ELSE job[q][e].pc
        BY <3>2, JobSet DEF JobPC
      <4> QED BY <1>0, <3>0, <3>2, <4>1, CountedStays DEF Begun
    <3> QED BY <2>1, <3>1, <3>2 DEF JobFault
  <2>2. CASE \E p \in Passes : PassFault(p)
    BY <1>1, <2>2 DEF PassFault
  <2>3. CASE \E c \in Calls, d \in Pairs : InsertFault(c, d)
    BY <1>1, <2>3 DEF InsertFault
  <2>4. CASE Crash
    <3>1. /\ \A p \in Passes, d \in Pairs : job'[p][d].pc = "none"
          /\ UNCHANGED <<queue, tries>>
      BY <2>4, JobPCs DEF Crash
    <3> QED BY <1>0, <3>1, CountedStays
  <2> QED BY <1>7, <2>1, <2>2, <2>3, <2>4 DEF Failure
<1>8. CASE UNCHANGED vars
  BY <1>1, <1>8 DEF vars
<1> QED BY <1>2, <1>3, <1>4, <1>5, <1>6, <1>7, <1>8, CountedJobStep DEF Next, Passes

\* A row is given up only after the retries the configuration grants were really begun, however many
\* overlapping passes carried an outdated count of them (deliverRow, finishFailure).
THEOREM RetriesBeforeGivingUp == Spec => []GivenUpAfterRetries
<1>1. Counted => GivenUpAfterRetries
  BY DEF Counted
<1> QED BY <1>1, CountedInit, CountedStep, QueueInvariants, PTL DEF Spec
=============================================================================
