----------------------- MODULE SyncScheduler_proofs -----------------------
(* Types and safety of SyncScheduler, for every set of connections, callers, logs and slots. *)
EXTENDS SyncScheduler, TLAPS

USE SyncConstants

(* Types.  Every action gives one caller a new record, so TypeOK is split by variable. *)

RunOK(x) == x \in Run /\ (x.pc # "idle" => x.conn \in Conns)

RowOK(x) == x \in Row

LEMMA RecordTypes ==
    NoRow \in Row /\ NoLog \in Log /\ IdleRun \in Run
  BY DEF NoRow, Row, NoLog, Log, IdleRun, Run, RunPC, SyncStatus

LEMMA NextOccurrenceType ==
    \A c : NextOccurrence(c) \subseteq Slots
  BY DEF NextOccurrence

\* A step that only gives caller r the record x keeps the type of run.
LEMMA RunUpdate ==
  ASSUME TypeOK, NEW r \in Runners, NEW x, RunOK(x), run' = [run EXCEPT ![r] = x]
  PROVE  /\ run' \in [Runners -> Run]
         /\ \A q \in Runners : run'[q].pc # "idle" => run'[q].conn \in Conns
  BY DEF TypeOK, RunOK

LEMMA RowUpdate ==
  ASSUME TypeOK, NEW c \in Conns, NEW x \in Row, row' = [row EXCEPT ![c] = x]
  PROVE  row' \in [Conns -> Row]
  BY DEF TypeOK

\* triggerSync's return gives the caller a well-typed record.
LEMMA ReturnType ==
  ASSUME TypeOK, NEW r \in Runners, NEW result \in {"none", "SUCCESS", "FAILED", "threw"},
         run[r].pc # "idle", Return(r, result)
  PROVE  /\ run' \in [Runners -> Run]
         /\ \A q \in Runners : run'[q].pc # "idle" => run'[q].conn \in Conns
<1> DEFINE back == [IdleRun EXCEPT !.conn = run[r].conn, !.result = result,
                                   !.pc = IF result = "SUCCESS" THEN "recordOk" ELSE "failRead"]
<1>1. RunOK(IdleRun)
  BY RecordTypes DEF RunOK, IdleRun
<1>2. back \in Run /\ back.conn = run[r].conn
  BY RecordTypes DEF TypeOK, Run, RunPC, IdleRun
<1>3. RunOK(back)
  BY <1>2 DEF RunOK, TypeOK
<1> QED BY <1>1, <1>3, RunUpdate DEF Return

LEMMA InitTypeOK == Init => TypeOK
<1> SUFFICES ASSUME Init PROVE TypeOK
  OBVIOUS
<1>2. InitialRows \subseteq Row
  BY RecordTypes DEF InitialRows
<1>3. /\ run \in [Runners -> Run]
      /\ \A r \in Runners : run[r].pc = "idle"
  BY RecordTypes DEF Init, IdleRun
<1>4. /\ edit \in [Admins -> [conn: Conns \cup {None}, saw: Row]]
      /\ \A a \in Admins : edit[a] = NoEdit
  BY RecordTypes DEF Init, NoEdit
<1>5. /\ row \in [Conns -> Row] /\ log \in [Logs -> Log]
  BY <1>2, RecordTypes DEF Init
<1> QED
<2>1. due \in [Ticks -> SUBSET Due] /\ fired \in [Conns -> Slots \cup {None}]
  BY DEF Init
<2>2. faults \in 0..MaxFaults
  BY DEF Init
<2>3. up \in BOOLEAN /\ ticking \in BOOLEAN /\ looping \in [Ticks -> BOOLEAN]
  BY DEF Init
<2> QED BY <1>3, <1>4, <1>5, <2>1, <2>2, <2>3 DEF TypeOK

\* A step that touches neither the rows nor the scheduler's own state, and gives r the record x.
LEMMA RunOnlyTypeOK ==
  ASSUME TypeOK, NEW r \in Runners, NEW x, RunOK(x), run' = [run EXCEPT ![r] = x],
         UNCHANGED <<rows, tickVars, edit, up, faults, fired>>
  PROVE  TypeOK'
  BY RunUpdate DEF TypeOK, rows, tickVars

\* The steps of triggerSync that only read.
LEMMA ReadStepsTypeOK ==
  ASSUME TypeOK, NEW r \in Runners,
         \/ PreRead(r) \/ PreCheckBusy(r) \/ PreCheckFree(r) \/ Load(r)
         \/ GuardFree(r) \/ GuardStuck(r) \/ GuardStale(r)
         \/ \E result \in {"SUCCESS", "FAILED"} : Work(r, result)
  PROVE  TypeOK'
<1>0. run[r] \in Run /\ (run[r].pc # "idle" => run[r].conn \in Conns)
  BY DEF TypeOK
<1>1. CASE PreRead(r)
  <2>1. run[r].conn \in Conns /\ row[run[r].conn] \in Row
    BY <1>0, <1>1 DEF PreRead, TypeOK
  <2>2. RunOK([run[r] EXCEPT !.pc = "precheck", !.status = row[run[r].conn].status])
    BY <1>0, <2>1 DEF RunOK, Run, RunPC, Row
  <2> QED BY <1>1, <2>2, RunOnlyTypeOK DEF PreRead
<1>2. CASE PreCheckBusy(r)
  <2>1. RunOK(IdleRun)
    BY RecordTypes DEF RunOK, IdleRun
  <2> QED BY <1>2, <2>1, RunOnlyTypeOK DEF PreCheckBusy
<1>3. CASE PreCheckFree(r)
  <2>1. RunOK([run[r] EXCEPT !.pc = IF r \in Ticks THEN "advance" ELSE "load", !.status = "NEVER"])
    BY <1>0, <1>3 DEF PreCheckFree, RunOK, Run, RunPC, SyncStatus
  <2> QED BY <1>3, <2>1, RunOnlyTypeOK DEF PreCheckFree
<1>4. CASE Load(r)
  <2>1. run[r].conn \in Conns /\ row[run[r].conn] \in Row
    BY <1>0, <1>4 DEF Load, TypeOK
  <2>2. RunOK([run[r] EXCEPT !.pc = IF run[r].dry THEN "create" ELSE "guard",
                             !.status = IF run[r].dry THEN "NEVER" ELSE row[run[r].conn].status,
                             !.auto = ~run[r].dry /\ row[run[r].conn].auto])
    <3>1. \A p \in RunPC, st \in SyncStatus, b \in BOOLEAN :
             RunOK([run[r] EXCEPT !.pc = p, !.status = st, !.auto = b])
      BY <1>0, <2>1 DEF RunOK, Run
    <3>2. (IF run[r].dry THEN "create" ELSE "guard") \in RunPC
      BY DEF RunPC
    <3>3. (IF run[r].dry THEN "NEVER" ELSE row[run[r].conn].status) \in SyncStatus
      BY <2>1 DEF Row, SyncStatus
    <3>4. (~run[r].dry /\ row[run[r].conn].auto) \in BOOLEAN
      OBVIOUS
    <3> QED BY ONLY <3>1, <3>2, <3>3, <3>4
  <2> QED BY <1>4, <2>2, RunOnlyTypeOK DEF Load
<1>5. CASE GuardFree(r)
  <2>1. RunOK([run[r] EXCEPT !.pc = "create", !.status = "NEVER"])
    BY <1>0, <1>5 DEF GuardFree, RunOK, Run, RunPC, SyncStatus
  <2> QED BY <1>5, <2>1, RunOnlyTypeOK DEF GuardFree
<1>6. CASE GuardStuck(r)
  <2>1. RunOK([run[r] EXCEPT !.pc = "reset", !.status = "NEVER"])
    BY <1>0, <1>6 DEF GuardStuck, RunOK, Run, RunPC, SyncStatus
  <2> QED BY <1>6, <2>1, RunOnlyTypeOK DEF GuardStuck
<1>7. CASE GuardStale(r)
  <2>1. PICK l \in Logs : run' = [run EXCEPT ![r] = [@ EXCEPT !.pc = "reclaim", !.status = "NEVER", !.stale = l]]
    BY <1>7 DEF GuardStale, NewestOpenLog, OpenLogs
  <2>2. RunOK([run[r] EXCEPT !.pc = "reclaim", !.status = "NEVER", !.stale = l])
    BY <1>0, <1>7 DEF GuardStale, RunOK, Run, RunPC, SyncStatus
  <2> QED BY <1>7, <2>1, <2>2, RunOnlyTypeOK DEF GuardStale
<1>8. ASSUME NEW result \in {"SUCCESS", "FAILED"}, Work(r, result)
      PROVE  TypeOK'
  <2>1. RunOK([run[r] EXCEPT !.pc = "finish", !.result = result])
    BY <1>0, <1>8 DEF Work, RunOK, Run, RunPC
  <2> QED BY <1>8, <2>1, RunOnlyTypeOK DEF Work
<1> QED BY <1>1, <1>2, <1>3, <1>4, <1>5, <1>6, <1>7, <1>8

LEMMA StatusUpdate ==
  ASSUME TypeOK, NEW c \in Conns, NEW st \in SyncStatus, row' = [row EXCEPT ![c].status = st]
  PROVE  row' \in [Conns -> Row]
<1>1. row \in [Conns -> Row]
  BY DEF TypeOK
<1> QED BY <1>1 DEF Row

LEMMA CloseType ==
  ASSUME TypeOK, NEW l
  PROVE  Close(l) \in [Logs -> Log]
<1>1. ASSUME NEW m \in Logs PROVE [log[m] EXCEPT !.older = @ \ {l}] \in Log
  <2>1. log[m] \in Log
    BY DEF TypeOK
  <2> QED BY <2>1 DEF Log
<1> QED BY <1>1, RecordTypes DEF Close

\* The steps of triggerSync that write a row.
LEMMA WriteStepsTypeOK ==
  ASSUME TypeOK, NEW r \in Runners,
         \/ GuardBusy(r) \/ Reclaim(r) \/ ResetStatus(r) \/ CreateLog(r) \/ MarkInProgress(r)
         \/ FinishLog(r) \/ SettleSuccess(r) \/ SettleFailed(r)
  PROVE  TypeOK'
<1>0. run[r] \in Run /\ (run[r].pc # "idle" => run[r].conn \in Conns)
  BY DEF TypeOK
<1>1. CASE GuardBusy(r)
  BY <1>1, ReturnType DEF GuardBusy, TypeOK, rows, tickVars
<1>2. CASE Reclaim(r)
  <2>1. RunOK([run[r] EXCEPT !.pc = "reset", !.stale = None])
    BY <1>0, <1>2 DEF Reclaim, RunOK, Run, RunPC
  <2> QED BY <1>2, <2>1, RunUpdate, CloseType DEF Reclaim, TypeOK, tickVars
<1>3. CASE ResetStatus(r)
  <2>1. RunOK([run[r] EXCEPT !.pc = "create"])
    BY <1>0, <1>3 DEF ResetStatus, RunOK, Run, RunPC
  <2>2. row' \in [Conns -> Row]
    BY <1>0, <1>3, StatusUpdate DEF ResetStatus, SyncStatus
  <2> QED BY <1>3, <2>1, <2>2, RunUpdate DEF ResetStatus, Step, TypeOK, tickVars
<1>4. CASE CreateLog(r)
  <2>1. PICK l \in Logs \ HeldLogs :
           /\ log' = [log EXCEPT ![l] = [state |-> "RUNNING", conn |-> run[r].conn,
                                         stale |-> FALSE, older |-> OpenLogs(run[r].conn)]]
           /\ run' = [run EXCEPT ![r] = [@ EXCEPT !.pc = IF run[r].dry THEN "work" ELSE "mark", !.log = l]]
    BY <1>4 DEF CreateLog
  <2>2. RunOK([run[r] EXCEPT !.pc = IF run[r].dry THEN "work" ELSE "mark", !.log = l])
    BY <1>0, <1>4 DEF CreateLog, RunOK, Run, RunPC
  <2>3. [state |-> "RUNNING", conn |-> run[r].conn, stale |-> FALSE, older |-> OpenLogs(run[r].conn)] \in Log
    BY <1>0, <1>4 DEF CreateLog, Log, OpenLogs
  <2>4. log' \in [Logs -> Log]
    BY <2>1, <2>3 DEF TypeOK
  <2> QED BY <1>4, <2>1, <2>2, <2>4, RunUpdate DEF CreateLog, TypeOK, tickVars
<1>5. CASE MarkInProgress(r)
  <2>1. RunOK([run[r] EXCEPT !.pc = "work"])
    BY <1>0, <1>5 DEF MarkInProgress, RunOK, Run, RunPC
  <2>2. row' \in [Conns -> Row]
    BY <1>0, <1>5, StatusUpdate DEF MarkInProgress, SyncStatus
  <2> QED BY <1>5, <2>1, <2>2, RunUpdate DEF MarkInProgress, Step, TypeOK, tickVars
<1>6. CASE FinishLog(r)
  <2>1. RunOK([run[r] EXCEPT !.pc = "settle", !.log = None])
    BY <1>0, <1>6 DEF FinishLog, RunOK, Run, RunPC
  <2>2. CASE run[r].dry
    <3>1. run[r].result \in {"none", "SUCCESS", "FAILED", "threw"}
      BY <1>0 DEF Run
    <3>2. Return(r, run[r].result) /\ run[r].pc # "idle"
      BY <1>6, <2>2 DEF FinishLog
    <3> QED BY <1>6, <3>1, <3>2, ReturnType, CloseType DEF FinishLog, TypeOK, tickVars
  <2>3. CASE ~run[r].dry
    BY <1>6, <2>1, <2>3, RunUpdate, CloseType DEF FinishLog, TypeOK, tickVars
  <2> QED BY <2>2, <2>3
<1>7. CASE SettleSuccess(r)
  <2> DEFINE c == run[r].conn
  <2>1. c \in Conns /\ row[c] \in Row
    BY <1>0, <1>7 DEF SettleSuccess, TypeOK
  <2>2. \A p \in BOOLEAN : [row[c] EXCEPT !.status = "SUCCESS", !.failures = 0, !.auto = FALSE, !.paused = p] \in Row
    <3>1. 0 \in 0..FailureCap /\ "SUCCESS" \in SyncStatus
      BY DEF SyncStatus
    <3>2. row[c] \in Row
      BY <2>1
    <3> QED BY ONLY <3>1, <3>2 DEF Row
  <2>3. (row[c].paused /\ ~run[r].auto) \in BOOLEAN
    OBVIOUS
  <2>4. row' = [row EXCEPT ![c] = [row[c] EXCEPT !.status = "SUCCESS", !.failures = 0, !.auto = FALSE,
                                                 !.paused = row[c].paused /\ ~run[r].auto]]
    BY <1>7, <2>1 DEF SettleSuccess, TypeOK
  <2>5. row' \in [Conns -> Row]
    BY <2>1, <2>2, <2>3, <2>4, RowUpdate
  <2> QED BY <1>7, <2>5, ReturnType DEF SettleSuccess, TypeOK, tickVars
<1>8. CASE SettleFailed(r)
  <2>1. row' \in [Conns -> Row]
    BY <1>0, <1>8, StatusUpdate DEF SettleFailed, SyncStatus
  <2> QED BY <1>8, <2>1, ReturnType DEF SettleFailed, TypeOK, tickVars
<1> QED BY <1>1, <1>2, <1>3, <1>4, <1>5, <1>6, <1>7, <1>8

\* What FailWrite makes of a row.
LEMMA FailureCountedType ==
  ASSUME TypeOK, NEW c \in Conns, NEW read \in 0..FailureCap, FailureCounted(c, read, Threshold)
  PROVE  row' \in [Conns -> Row]
<1> DEFINE count == IF read < FailureCap THEN read + 1 ELSE FailureCap
           pause == Threshold > 0 /\ count >= Threshold
           x == [row[c] EXCEPT !.failures = count, !.paused = row[c].paused \/ pause,
                               !.auto = row[c].auto \/ pause]
<1>1. row[c] \in Row
  BY DEF TypeOK
<1>2. \A n \in 0..FailureCap, p, a \in BOOLEAN :
         [row[c] EXCEPT !.failures = n, !.paused = p, !.auto = a] \in Row
  BY <1>1 DEF Row
<1>3. count \in 0..FailureCap
  OBVIOUS
<1>4. (row[c].paused \/ pause) \in BOOLEAN /\ (row[c].auto \/ pause) \in BOOLEAN
  OBVIOUS
<1>5. row' = [row EXCEPT ![c] = x]
  BY DEF FailureCounted, TypeOK
<1>6. x \in Row
  BY ONLY <1>2, <1>3, <1>4
<1> QED BY <1>5, <1>6, RowUpdate

LEMMA TickTypeOK ==
  ASSUME TypeOK, NEW t \in Ticks, TickStart(t) \/ TickStep(t)
  PROVE  TypeOK'
<1>0. t \in Runners /\ run[t] \in Run /\ (run[t].pc # "idle" => run[t].conn \in Conns)
  BY DEF TypeOK, Runners
<1>1. RunOK(IdleRun)
  BY RecordTypes DEF RunOK, IdleRun
<1>2. CASE TickStart(t)
  <2>1. ASSUME NEW c \in Conns, Eligible(c)
        PROVE  [conn |-> c, dry |-> row[c].dry, slot |-> row[c].next] \in Due
    BY <2>1 DEF Eligible, TypeOK, Row, Due
  <2>2. DueRows \subseteq Due
    BY <2>1 DEF DueRows
  <2> QED BY <1>2, <2>2 DEF TickStart, TypeOK, rows
<1>3. ASSUME NEW d \in due[t], TickNext(t, d)
      PROVE  TypeOK'
  <2>1. d \in Due
    BY DEF TypeOK
  <2>2. RunOK([IdleRun EXCEPT !.pc = "pre", !.conn = d.conn, !.dry = d.dry, !.slot = d.slot])
    BY <2>1, RecordTypes DEF Due, RunOK, Run, RunPC, IdleRun
  <2>3. due' \in [Ticks -> SUBSET Due]
    BY <1>3 DEF TickNext, TypeOK
  <2> QED BY <1>0, <1>3, <2>2, <2>3, RunUpdate DEF TickNext, TypeOK, rows
<1>4. CASE TickEnd(t)
  BY <1>4 DEF TickEnd, TypeOK, rows
<1>5. CASE Advance(t)
  <2>1. PICK s \in NextOccurrence(run[t].conn) :
             row' = [row EXCEPT ![run[t].conn].next = s, ![run[t].conn].when = "future"]
    BY <1>5 DEF Advance
  <2>2. s \in Slots
    BY <2>1, NextOccurrenceType
  <2>3. run[t].conn \in Conns /\ row \in [Conns -> Row]
    BY <1>0, <1>5 DEF Advance, TypeOK
  <2>4. row' \in [Conns -> Row]
    BY <2>1, <2>2, <2>3 DEF Row
  <2>5. RunOK([run[t] EXCEPT !.pc = "load", !.slot = None])
    BY <1>0, <2>3 DEF RunOK, Run, RunPC
  <2>6. fired' \in [Conns -> Slots \cup {None}]
    BY <1>0, <1>5 DEF Advance, TypeOK, Run
  <2> QED BY <1>0, <1>5, <2>4, <2>5, <2>6, RunUpdate DEF Advance, TypeOK, tickVars
<1>6. CASE RecordSuccess(t)
  BY <1>0, <1>1, <1>6, RunOnlyTypeOK DEF RecordSuccess
<1>7. CASE FailRead(t)
  <2>1. run[t].conn \in Conns /\ row[run[t].conn] \in Row
    BY <1>0, <1>7 DEF FailRead, TypeOK
  <2>2. RunOK([run[t] EXCEPT !.pc = "failWrite", !.failures = row[run[t].conn].failures])
    BY <1>0, <2>1 DEF RunOK, Run, RunPC, Row
  <2> QED BY <1>0, <1>7, <2>2, RunOnlyTypeOK DEF FailRead
<1>8. CASE FailWrite(t)
  <2>1. run[t].conn \in Conns /\ run[t].failures \in 0..FailureCap
    BY <1>0, <1>8 DEF FailWrite, Run
  <2>2. row' \in [Conns -> Row]
    BY <1>8, <2>1, FailureCountedType DEF FailWrite
  <2> QED BY <1>0, <1>1, <1>8, <2>2, RunUpdate DEF FailWrite, TypeOK, tickVars
<1> QED BY <1>2, <1>3, <1>4, <1>5, <1>6, <1>7, <1>8 DEF TickStep

LEMMA EditTypeOK ==
  ASSUME TypeOK, NEW a \in Admins, Edit(a)
  PROVE  TypeOK'
<1>0. edit[a].conn \in Conns \cup {None} /\ edit[a].saw \in Row /\ (edit[a] # NoEdit => edit[a].conn \in Conns)
  BY DEF TypeOK
<1>1. ASSUME NEW c \in Conns, AdminRead(a, c)
      PROVE  TypeOK'
  <2>1. [conn |-> c, saw |-> row[c]] \in [conn: Conns \cup {None}, saw: Row]
    BY DEF TypeOK
  <2> QED BY <1>1, <2>1 DEF AdminRead, TypeOK, rows, tickVars
<1>2. CASE AdminReject(a)
  BY <1>2, RecordTypes DEF AdminReject, TypeOK, rows, tickVars, NoEdit
<1>3. ASSUME NEW enabled \in BOOLEAN, NEW paused \in BOOLEAN, NEW dry \in BOOLEAN, NEW cronChanged \in BOOLEAN,
             AdminWrite(a, enabled, paused, dry, cronChanged)
      PROVE  TypeOK'
  <2> DEFINE c == edit[a].conn
             resuming == Resuming(edit[a].saw, enabled, paused)
             edited(next, when) ==
               [row[c] EXCEPT !.enabled = enabled, !.paused = paused, !.dry = dry,
                              !.next = next, !.when = when,
                              !.auto = row[c].auto /\ ~resuming,
                              !.failures = IF resuming THEN 0 ELSE row[c].failures]
  <2>1. c \in Conns /\ row[c] \in Row
    BY <1>0, <1>3 DEF AdminWrite, TypeOK
  <2>2. ASSUME NEW next \in Slots \cup {None}, NEW when \in {"future", "due"}
        PROVE  edited(next, when) \in Row
    <3>1. \A b \in BOOLEAN, n \in 0..FailureCap :
             [row[c] EXCEPT !.enabled = enabled, !.paused = paused, !.dry = dry,
                            !.next = next, !.when = when, !.auto = b, !.failures = n] \in Row
      BY <2>1 DEF Row
    <3>2. (row[c].auto /\ ~resuming) \in BOOLEAN
      OBVIOUS
    <3>3. (IF resuming THEN 0 ELSE row[c].failures) \in 0..FailureCap
      BY <2>1 DEF Row
    <3> QED BY ONLY <3>1, <3>2, <3>3
  <2>3. PICK next \in Slots \cup {None}, when \in {"future", "due"} :
            row' = [row EXCEPT ![c] = edited(next, when)]
    <3>1. edit[a].saw.next \in Slots \cup {None} /\ edit[a].saw.when \in {"future", "due"}
      BY <1>0 DEF Row
    <3>2. NextOccurrence(c) \subseteq Slots
      BY NextOccurrenceType
    <3>3. \/ row' = [row EXCEPT ![c] = edited(None, "future")]
          \/ row' = [row EXCEPT ![c] = edited(edit[a].saw.next, edit[a].saw.when)]
          \/ \E s \in NextOccurrence(c) : row' = [row EXCEPT ![c] = edited(s, "future")]
      BY <1>3 DEF AdminWrite
    <3> HIDE DEF edited, c
    <3> QED BY <3>1, <3>2, <3>3
  <2>4. row' \in [Conns -> Row]
    BY <2>1, <2>2, <2>3, RowUpdate
  <2>5. edit' = [edit EXCEPT ![a] = NoEdit] /\ UNCHANGED <<log, run, tickVars, up, faults, fired>>
    BY <1>3 DEF AdminWrite
  <2>6. edit' \in [Admins -> [conn: Conns \cup {None}, saw: Row]]
    BY <2>5, RecordTypes DEF NoEdit, TypeOK
  <2> QED BY <2>4, <2>5, <2>6 DEF TypeOK, tickVars
<1> QED BY <1>1, <1>2, <1>3 DEF Edit

LEMMA TimeTypeOK ==
  ASSUME TypeOK, Time
  PROVE  TypeOK'
<1>1. ASSUME NEW c \in Conns, SlotDue(c)
      PROVE  TypeOK'
  <2>0. row[c] \in Row
    BY DEF TypeOK
  <2>1. [row[c] EXCEPT !.when = "due"] \in Row
    BY <2>0 DEF Row
  <2>2. row' \in [Conns -> Row]
    BY <1>1, <2>1, RowUpdate DEF SlotDue, TypeOK
  <2> QED BY <1>1, <2>2 DEF SlotDue, TypeOK, tickVars
<1>2. ASSUME NEW l \in Logs, LogGoesStale(l)
      PROVE  TypeOK'
  <2>0. log[l] \in Log
    BY DEF TypeOK
  <2>1. [log[l] EXCEPT !.stale = TRUE] \in Log
    BY <2>0 DEF Log
  <2>2. log' \in [Logs -> Log]
    BY <1>2, <2>1 DEF LogGoesStale, TypeOK
  <2> QED BY <1>2, <2>2 DEF LogGoesStale, TypeOK, tickVars
<1> QED BY <1>1, <1>2 DEF Time

LEMMA ThrowTypeOK ==
  ASSUME TypeOK, NEW r \in Runners, Throw(r)
  PROVE  TypeOK'
<1>0. run[r] \in Run /\ (run[r].pc # "idle" => run[r].conn \in Conns)
  BY DEF TypeOK
<1>1. faults' \in 0..MaxFaults
  BY DEF Throw, TypeOK
<1>2. RunOK(IdleRun)
  BY RecordTypes DEF RunOK, IdleRun
<1>3. /\ run' \in [Runners -> Run]
      /\ \A q \in Runners : run'[q].pc # "idle" => run'[q].conn \in Conns
  <2>1. CASE run' = [run EXCEPT ![r] = IdleRun]
    BY <1>2, <2>1, RunUpdate
  <2>2. CASE run[r].pc # "idle" /\ Return(r, "threw")
    BY <2>2, ReturnType
  <2>3. CASE run[r].pc # "idle" /\ run' = [run EXCEPT ![r] = [@ EXCEPT !.pc = "failRead", !.result = "threw"]]
    <3>1. RunOK([run[r] EXCEPT !.pc = "failRead", !.result = "threw"])
      BY <1>0, <2>3 DEF RunOK, Run, RunPC
    <3> QED BY <2>3, <3>1, RunUpdate
  <2>4. CASE /\ run[r].pc # "idle"
             /\ run' = [run EXCEPT ![r] = [@ EXCEPT !.pc = "failRead", !.failures = 0, !.result = "threw"]]
    <3>1. RunOK([run[r] EXCEPT !.pc = "failRead", !.failures = 0, !.result = "threw"])
      <4>1. 0 \in 0..FailureCap /\ run[r] \in Run /\ run[r].conn \in Conns
        BY <1>0, <2>4
      <4> QED BY ONLY <4>1 DEF RunOK, Run, RunPC
    <3> QED BY <2>4, <3>1, RunUpdate
  <2> QED BY <2>1, <2>2, <2>3, <2>4 DEF Throw
<1> QED BY <1>1, <1>3 DEF Throw, TypeOK, rows, tickVars

LEMMA CrashTypeOK ==
  ASSUME TypeOK, Crash
  PROVE  TypeOK'
<1>1. /\ run' \in [Runners -> Run]
      /\ \A q \in Runners : run'[q].pc = "idle"
  BY RecordTypes DEF Crash, IdleRun
<1>2. edit' \in [Admins -> [conn: Conns \cup {None}, saw: Row]] /\ \A a \in Admins : edit'[a] = NoEdit
  BY RecordTypes DEF Crash, NoEdit
<1>3. due' \in [Ticks -> SUBSET Due] /\ looping' \in [Ticks -> BOOLEAN] /\ ticking' \in BOOLEAN /\ up' \in BOOLEAN
  BY DEF Crash
<1>4. faults' \in 0..MaxFaults
  BY DEF Crash, TypeOK
<1> QED BY <1>1, <1>2, <1>3, <1>4 DEF Crash, TypeOK, rows

LEMMA BootTypeOK ==
  ASSUME TypeOK, Boot
  PROVE  TypeOK'
<1>1. PICK next \in [Conns -> Slots \cup {None}] :
          row' = [c \in Conns |-> IF next[c] = None THEN row[c]
                                  ELSE [row[c] EXCEPT !.next = next[c], !.when = "future"]]
  BY DEF Boot
<1>2. ASSUME NEW c \in Conns PROVE row[c] \in Row /\ [row[c] EXCEPT !.next = next[c], !.when = "future"] \in Row
  <2>1. row[c] \in Row
    BY DEF TypeOK
  <2> QED BY <2>1 DEF Row
<1>3. row' \in [Conns -> Row]
  BY <1>1, <1>2
<1> QED BY <1>3 DEF Boot, TypeOK, tickVars

\* An outside caller that starts a sync.
LEMMA CallerTypeOK ==
  ASSUME TypeOK, NEW r \in Manual, Caller(r)
  PROVE  TypeOK'
<1>0. r \in Runners
  BY DEF Runners
<1>1. ASSUME NEW c \in Conns, StartSyncAll(r, c)
      PROVE  TypeOK'
  <2>1. RunOK([IdleRun EXCEPT !.pc = "pre", !.conn = c])
    BY RecordTypes DEF RunOK, Run, RunPC, IdleRun
  <2> QED BY <1>0, <1>1, <2>1, RunOnlyTypeOK DEF StartSyncAll
<1>2. ASSUME NEW c \in Conns, NEW dry \in BOOLEAN, StartManual(r, c, dry)
      PROVE  TypeOK'
  <2>1. RunOK([IdleRun EXCEPT !.pc = "load", !.conn = c, !.dry = dry])
    BY RecordTypes DEF RunOK, Run, RunPC, IdleRun
  <2> QED BY <1>0, <1>2, <2>1, RunOnlyTypeOK DEF StartManual
<1> QED BY <1>1, <1>2 DEF Caller

\* Every reachable state is well typed: every handler leaves rows, logs and callers in the shapes the
\* other handlers rely on, a busy caller names a connection, and the fault budget is kept.
THEOREM TypeCorrect == Spec => []TypeOK
<1>1. ASSUME TypeOK, [Next]_vars
      PROVE  TypeOK'
  <2>1. ASSUME NEW r \in Runners, RunStep(r)
        PROVE  TypeOK'
    BY <1>1, <2>1, ReadStepsTypeOK, WriteStepsTypeOK DEF RunStep
  <2>2. ASSUME NEW r \in Runners, Throw(r)
        PROVE  TypeOK'
    BY <1>1, <2>2, ThrowTypeOK
  <2>3. ASSUME NEW r \in Manual, Caller(r)
        PROVE  TypeOK'
    BY <1>1, <2>3, CallerTypeOK
  <2>4. ASSUME NEW t \in Ticks, TickStart(t) \/ TickStep(t)
        PROVE  TypeOK'
    BY <1>1, <2>4, TickTypeOK
  <2>5. ASSUME NEW a \in Admins, Edit(a)
        PROVE  TypeOK'
    BY <1>1, <2>5, EditTypeOK
  <2>6. CASE UNCHANGED vars
    BY <1>1, <2>6 DEF vars, TypeOK
  <2> QED BY <1>1, <2>1, <2>2, <2>3, <2>4, <2>5, <2>6, TimeTypeOK, CrashTypeOK, BootTypeOK DEF Next
<1> QED BY <1>1, InitTypeOK, PTL DEF Spec

-----------------------------------------------------------------------------
(* Frame facts: who changes what.                                          *)

\* A step of caller r leaves the other callers alone.
LEMMA OtherRunsKept ==
  ASSUME TypeOK, NEW r \in Runners,
         RunStep(r) \/ Throw(r) \/ (r \in Manual /\ Caller(r)) \/ (r \in Ticks /\ TickStep(r))
  PROVE  \A q \in Runners \ {r} : run'[q] = run[q]
<1>1. run \in [Runners -> Run]
  BY DEF TypeOK
<1>2. CASE RunStep(r)
  BY <1>1, <1>2 DEF RunStep, PreRead, PreCheckBusy, PreCheckFree, Load, GuardFree, GuardStuck, GuardStale,
     GuardBusy, Reclaim, ResetStatus, CreateLog, MarkInProgress, Work, FinishLog, SettleSuccess, SettleFailed,
     Return, Step
<1>3. CASE Throw(r)
  BY <1>1, <1>3 DEF Throw, Return
<1>4. CASE Caller(r)
  BY <1>1, <1>4 DEF Caller, StartSyncAll, StartManual
<1>5. CASE TickStep(r)
  BY <1>1, <1>5 DEF TickStep, TickNext, TickEnd, Advance, RecordSuccess, FailRead, FailWrite
<1> QED BY <1>2, <1>3, <1>4, <1>5

\* Only the scheduler's own steps and a crash touch the ticks.
LEMMA TicksKept ==
  ASSUME NEW r \in Runners, RunStep(r) \/ Throw(r) \/ Caller(r)
  PROVE  UNCHANGED tickVars
<1>1. CASE RunStep(r)
  BY <1>1 DEF RunStep, PreRead, PreCheckBusy, PreCheckFree, Load, GuardFree, GuardStuck, GuardStale,
     GuardBusy, Reclaim, ResetStatus, CreateLog, MarkInProgress, Work, FinishLog, SettleSuccess, SettleFailed
<1>2. CASE Throw(r)
  BY <1>2 DEF Throw
<1>3. CASE Caller(r)
  BY <1>3 DEF Caller, StartSyncAll, StartManual
<1> QED BY <1>1, <1>2, <1>3

-----------------------------------------------------------------------------
(* The re-entrancy flag.                                                   *)

\* The flag is set whenever some tick is under way; that makes TicksDoNotOverlap inductive.
FlagCoversTicks == \A t \in Ticks : looping[t] => ticking

TickInv == FlagCoversTicks /\ TicksDoNotOverlap

LEMMA TickInvStep ==
  ASSUME TypeOK, TickInv, [Next]_vars
  PROVE  TickInv'
<1> USE DEF TickInv, FlagCoversTicks, TicksDoNotOverlap
<1>0. looping \in [Ticks -> BOOLEAN]
  BY DEF TypeOK
<1>1. ASSUME NEW r \in Runners, RunStep(r) \/ Throw(r)
      PROVE  TickInv'
  BY <1>1, TicksKept DEF tickVars
<1>2. ASSUME NEW r \in Manual, Caller(r)
      PROVE  TickInv'
  BY <1>2, TicksKept DEF tickVars, Runners
<1>3. ASSUME NEW t \in Ticks, TickStart(t)
      PROVE  TickInv'
  BY <1>0, <1>3 DEF TickStart
<1>4. ASSUME NEW t \in Ticks, TickStep(t)
      PROVE  TickInv'
  <2>1. CASE TickEnd(t)
    BY <1>0, <2>1 DEF TickEnd
  <2>2. CASE ~TickEnd(t)
    <3>1. UNCHANGED <<looping, ticking>>
      BY <1>4, <2>2 DEF TickStep, TickNext, Advance, RecordSuccess, FailRead, FailWrite, tickVars
    <3> QED BY <3>1
  <2> QED BY <2>1, <2>2
<1>5. ASSUME NEW a \in Admins, Edit(a)
      PROVE  TickInv'
  <2>1. UNCHANGED <<looping, ticking>>
    BY <1>5 DEF Edit, AdminRead, AdminReject, AdminWrite, tickVars
  <2> QED BY <2>1
<1>6. CASE Time \/ Boot
  <2>1. UNCHANGED <<looping, ticking>>
    BY <1>6 DEF Time, SlotDue, LogGoesStale, Boot, tickVars
  <2> QED BY <2>1
<1>7. CASE Crash
  BY <1>7 DEF Crash
<1>8. CASE UNCHANGED vars
  BY <1>8 DEF vars, tickVars
<1> QED BY <1>1, <1>2, <1>3, <1>4, <1>5, <1>6, <1>7, <1>8 DEF Next

\* Two firings of the interval timer never process due connections at the same time, whatever the
\* number of timers, callers and restarts (the ticking flag of runTick).
THEOREM NoOverlappingTicks == Spec => []TicksDoNotOverlap
<1>1. Init => TickInv
  BY DEF Init, TickInv, FlagCoversTicks, TicksDoNotOverlap
<1>2. TickInv => TicksDoNotOverlap
  BY DEF TickInv
<1> QED BY <1>1, <1>2, TypeCorrect, TickInvStep, PTL DEF Spec

-----------------------------------------------------------------------------
(* Who holds which sync_log row.                                           *)

\* A caller only drops its log or takes one that nobody holds.
LEMMA LogTaken ==
  ASSUME TypeOK, NEW r \in Runners,
         RunStep(r) \/ Throw(r) \/ (r \in Manual /\ Caller(r)) \/ (r \in Ticks /\ TickStep(r))
  PROVE  run'[r].log \in {None, run[r].log} \/ run'[r].log \notin HeldLogs
<1>0. run \in [Runners -> Run] /\ run[r] \in Run
  BY DEF TypeOK
<1>1. CASE CreateLog(r)
  <2>1. PICK l \in Logs \ HeldLogs :
           run' = [run EXCEPT ![r] = [@ EXCEPT !.pc = IF run[r].dry THEN "work" ELSE "mark", !.log = l]]
    BY <1>1 DEF CreateLog
  <2>2. run'[r].log = l
    BY <1>0, <2>1 DEF Run
  <2> QED BY <2>1, <2>2
<1>r. ASSUME NEW result, Return(r, result)
      PROVE  run'[r].log = None
  BY <1>0, <1>r DEF Return, IdleRun
<1>2. CASE RunStep(r) /\ ~CreateLog(r)
  <2>1. CASE PreRead(r)
    BY <1>0, <2>1 DEF PreRead, Run
  <2>2. CASE PreCheckBusy(r)
    BY <1>0, <2>2 DEF PreCheckBusy, IdleRun
  <2>3. CASE PreCheckFree(r)
    BY <1>0, <2>3 DEF PreCheckFree, Run
  <2>4. CASE Load(r)
    BY <1>0, <2>4 DEF Load, Run
  <2>5. CASE GuardFree(r)
    BY <1>0, <2>5 DEF GuardFree, Run
  <2>6. CASE GuardStuck(r)
    BY <1>0, <2>6 DEF GuardStuck, Run
  <2>7. CASE GuardStale(r)
    BY <1>0, <2>7 DEF GuardStale, Run
  <2>8. CASE GuardBusy(r)
    BY <1>r, <2>8 DEF GuardBusy
  <2>9. CASE Reclaim(r)
    BY <1>0, <2>9 DEF Reclaim, Run
  <2>10. CASE ResetStatus(r)
    BY <1>0, <2>10 DEF ResetStatus, Step, Run
  <2>11. CASE MarkInProgress(r)
    BY <1>0, <2>11 DEF MarkInProgress, Step, Run
  <2>12. CASE FinishLog(r)
    <3>1. CASE run[r].dry
      BY <1>r, <2>12, <3>1 DEF FinishLog
    <3>2. CASE run' = [run EXCEPT ![r] = [@ EXCEPT !.pc = "settle", !.log = None]]
      BY <1>0, <3>2 DEF Run
    <3> QED BY <2>12, <3>1, <3>2 DEF FinishLog
  <2>13. CASE SettleSuccess(r)
    BY <1>r, <2>13 DEF SettleSuccess
  <2>14. CASE SettleFailed(r)
    BY <1>r, <2>14 DEF SettleFailed
  <2>15. ASSUME NEW result \in {"SUCCESS", "FAILED"}, Work(r, result)
        PROVE  run'[r].log = run[r].log
    BY <1>0, <2>15 DEF Work, Run
  <2> QED BY <1>2, <2>1, <2>2, <2>3, <2>4, <2>5, <2>6, <2>7, <2>8, <2>9, <2>10, <2>11, <2>12, <2>13, <2>14, <2>15 DEF RunStep
<1>3. CASE Throw(r)
  <2>1. CASE run' = [run EXCEPT ![r] = IdleRun]
    BY <1>0, <2>1 DEF IdleRun
  <2>2. CASE Return(r, "threw")
    BY <1>r, <2>2
  <2>3. CASE run' = [run EXCEPT ![r] = [@ EXCEPT !.pc = "failRead", !.result = "threw"]]
    BY <1>0, <2>3 DEF Run
  <2>4. CASE run' = [run EXCEPT ![r] = [@ EXCEPT !.pc = "failRead", !.failures = 0, !.result = "threw"]]
    BY <1>0, <2>4 DEF Run
  <2> QED BY <1>3, <2>1, <2>2, <2>3, <2>4 DEF Throw
<1>4. CASE Caller(r)
  <2>1. ASSUME NEW c \in Conns, StartSyncAll(r, c)
        PROVE  run'[r].log = None
    BY <1>0, <2>1 DEF StartSyncAll, IdleRun
  <2>2. ASSUME NEW c \in Conns, NEW dry \in BOOLEAN, StartManual(r, c, dry)
        PROVE  run'[r].log = None
    BY <1>0, <2>2 DEF StartManual, IdleRun
  <2> QED BY <1>4, <2>1, <2>2 DEF Caller
<1>5. CASE r \in Ticks /\ TickStep(r)
  <2>1. ASSUME NEW d \in due[r], TickNext(r, d)
        PROVE  run'[r].log = None
    BY <1>0, <2>1 DEF TickNext, IdleRun
  <2>2. CASE TickEnd(r)
    BY <2>2 DEF TickEnd
  <2>3. CASE Advance(r)
    BY <1>0, <2>3 DEF Advance, Run
  <2>4. CASE RecordSuccess(r) \/ FailWrite(r)
    BY <1>0, <2>4 DEF RecordSuccess, FailWrite, IdleRun
  <2>5. CASE FailRead(r)
    BY <1>0, <2>5 DEF FailRead, Run
  <2> QED BY <1>5, <2>1, <2>2, <2>3, <2>4, <2>5 DEF TickStep
<1> QED BY <1>1, <1>2, <1>3, <1>4, <1>5

\* The steps that belong to no caller of triggerSync: they leave run alone, or clear it.
LEMMA BackgroundSteps ==
  ASSUME \/ \E t \in Ticks : TickStart(t)
         \/ \E a \in Admins : Edit(a)
         \/ Time \/ Crash \/ Boot \/ UNCHANGED vars
  PROVE  run' = run \/ run' = [r \in Runners |-> IdleRun]
<1>1. CASE \E t \in Ticks : TickStart(t)
  BY <1>1 DEF TickStart
<1>2. ASSUME NEW a \in Admins, Edit(a)
      PROVE  run' = run
  <2>1. CASE \E c \in Conns : AdminRead(a, c)
    BY <2>1 DEF AdminRead
  <2>2. CASE AdminReject(a)
    BY <2>2 DEF AdminReject
  <2>3. ASSUME NEW enabled \in BOOLEAN, NEW paused \in BOOLEAN, NEW dry \in BOOLEAN, NEW cronChanged \in BOOLEAN,
               AdminWrite(a, enabled, paused, dry, cronChanged)
        PROVE  run' = run
    BY <2>3 DEF AdminWrite
  <2> QED BY <1>2, <2>1, <2>2, <2>3 DEF Edit
<1>3. CASE Time \/ Crash \/ Boot \/ UNCHANGED vars
  BY <1>3 DEF Time, SlotDue, LogGoesStale, Crash, Boot, vars
<1> QED BY <1>1, <1>2, <1>3

\* Two runs never write the outcome of the same sync_log row: createRunningLog inserts a new row, and
\* neither a stale reclaim nor a late finish hands a row to another run.
THEOREM DistinctLogs == Spec => []RunsHoldDistinctLogs
<1>1. Init => RunsHoldDistinctLogs
  BY DEF Init, RunsHoldDistinctLogs, IdleRun
<1>2. ASSUME TypeOK, RunsHoldDistinctLogs, [Next]_vars
      PROVE  RunsHoldDistinctLogs'
  <2>1. ASSUME NEW r \in Runners,
               RunStep(r) \/ Throw(r) \/ (r \in Manual /\ Caller(r)) \/ (r \in Ticks /\ TickStep(r))
        PROVE  RunsHoldDistinctLogs'
    <3>1. \A q \in Runners \ {r} : run'[q] = run[q]
      BY <1>2, <2>1, OtherRunsKept
    <3>2. run'[r].log \in {None, run[r].log} \/ run'[r].log \notin HeldLogs
      BY <1>2, <2>1, LogTaken
    <3>3. \A q \in Runners : run[q].log \in HeldLogs
      BY DEF HeldLogs
    <3> QED BY <1>2, <3>1, <3>2, <3>3 DEF RunsHoldDistinctLogs
  <2>2. CASE run' = run \/ run' = [r \in Runners |-> IdleRun]
    BY <1>2, <2>2 DEF RunsHoldDistinctLogs, IdleRun
  <2>3. \A r \in Manual \cup Ticks : r \in Runners
    BY DEF Runners
  <2> QED BY <1>2, <2>1, <2>2, <2>3, BackgroundSteps DEF Next
<1> QED BY <1>1, <1>2, TypeCorrect, PTL DEF Spec

-----------------------------------------------------------------------------
(* The cadence of an enabled schedule.                                     *)

\* The steps of a run leave the schedule's columns next and enabled alone.
LEMMA RunStepKeepsSchedule ==
  ASSUME TypeOK, NEW r \in Runners, RunStep(r)
  PROVE  \A c \in Conns : row'[c].next = row[c].next /\ row'[c].enabled = row[c].enabled
<1>0. row \in [Conns -> Row]
  BY DEF TypeOK
<1>1. CASE ResetStatus(r)
  BY <1>0, <1>1 DEF ResetStatus, Row
<1>2. CASE MarkInProgress(r)
  BY <1>0, <1>2 DEF MarkInProgress, Row
<1>3. CASE SettleSuccess(r)
  BY <1>0, <1>3 DEF SettleSuccess, Row
<1>4. CASE SettleFailed(r)
  BY <1>0, <1>4 DEF SettleFailed, Row
<1>5. CASE RunStep(r) /\ ~ResetStatus(r) /\ ~MarkInProgress(r) /\ ~SettleSuccess(r) /\ ~SettleFailed(r)
  <2>1. row' = row
    BY <1>5 DEF RunStep, PreRead, PreCheckBusy, PreCheckFree, Load, GuardFree, GuardStuck, GuardStale,
       GuardBusy, Reclaim, CreateLog, Work, FinishLog, rows
  <2> QED BY <2>1
<1> QED BY <1>1, <1>2, <1>3, <1>4, <1>5

\* What updateSchedule's write does to the columns the invariants are about.
LEMMA AdminWriteEffect ==
  ASSUME TypeOK, NEW a \in Admins, NEW enabled \in BOOLEAN, NEW paused \in BOOLEAN, NEW dry \in BOOLEAN,
         NEW cronChanged \in BOOLEAN, AdminWrite(a, enabled, paused, dry, cronChanged)
  PROVE  \A b \in Conns : /\ row'[b].status = row[b].status
                          /\ row'[b] = row[b] \/ (row'[b].enabled => row'[b].next # None)
<1> DEFINE c == edit[a].conn
           resuming == Resuming(edit[a].saw, enabled, paused)
           edited(next, when) ==
             [row[c] EXCEPT !.enabled = enabled, !.paused = paused, !.dry = dry,
                            !.next = next, !.when = when,
                            !.auto = row[c].auto /\ ~resuming,
                            !.failures = IF resuming THEN 0 ELSE row[c].failures]
<1>1. c \in Conns /\ row[c] \in Row /\ row \in [Conns -> Row]
  BY DEF AdminWrite, TypeOK
<1>2. \A next, when : /\ edited(next, when).enabled = enabled /\ edited(next, when).next = next
                      /\ edited(next, when).status = row[c].status
  BY <1>1 DEF Row
<1>3. \/ ~enabled /\ row' = [row EXCEPT ![c] = edited(None, "future")]
      \/ /\ edit[a].saw.next # None
         /\ row' = [row EXCEPT ![c] = edited(edit[a].saw.next, edit[a].saw.when)]
      \/ \E s \in NextOccurrence(c) : row' = [row EXCEPT ![c] = edited(s, "future")]
  BY DEF AdminWrite, KeepsNext
<1>4. \A s \in NextOccurrence(c) : s # None
  BY NextOccurrenceType
<1> HIDE DEF edited, c
<1>5. \E next, when : /\ row' = [row EXCEPT ![c] = edited(next, when)]
                      /\ enabled => next # None
  BY <1>3, <1>4
<1> QED BY <1>1, <1>2, <1>5

LEMMA EnabledHasNextRunStep ==
  ASSUME TypeOK, EnabledHasNextRun, [Next]_vars
  PROVE  EnabledHasNextRun'
<1> USE DEF EnabledHasNextRun
<1>0. row \in [Conns -> Row]
  BY DEF TypeOK
<1>1. ASSUME NEW r \in Runners, RunStep(r)
      PROVE  EnabledHasNextRun'
  BY <1>1, RunStepKeepsSchedule
<1>2. ASSUME row' = row
      PROVE  EnabledHasNextRun'
  BY <1>2
<1>3. ASSUME NEW r \in Runners, Throw(r) \/ (r \in Manual /\ Caller(r))
      PROVE  row' = row
  BY <1>3 DEF Throw, Caller, StartSyncAll, StartManual, rows
<1>4. ASSUME NEW t \in Ticks, TickStart(t) \/ TickStep(t)
      PROVE  EnabledHasNextRun'
  <2>1. CASE Advance(t)
    <3>1. PICK s \in NextOccurrence(run[t].conn) :
               row' = [row EXCEPT ![run[t].conn].next = s, ![run[t].conn].when = "future"]
      BY <2>1 DEF Advance
    <3>2. s # None
      BY <3>1, NextOccurrenceType
    <3> QED BY <1>0, <3>1, <3>2 DEF Row
  <2>2. CASE FailWrite(t)
    BY <1>0, <2>2 DEF FailWrite, FailureCounted, Row
  <2>3. CASE ~Advance(t) /\ ~FailWrite(t)
    <3>1. row' = row
      BY <1>4, <2>3 DEF TickStart, TickStep, TickNext, TickEnd, RecordSuccess, FailRead, rows
    <3> QED BY <3>1
  <2> QED BY <2>1, <2>2, <2>3
<1>5. ASSUME NEW a \in Admins, NEW enabled \in BOOLEAN, NEW paused \in BOOLEAN, NEW dry \in BOOLEAN,
             NEW cronChanged \in BOOLEAN, AdminWrite(a, enabled, paused, dry, cronChanged)
      PROVE  EnabledHasNextRun'
  BY <1>5, AdminWriteEffect
<1>6. ASSUME NEW a \in Admins, Edit(a)
      PROVE  EnabledHasNextRun'
  <2>1. (AdminReject(a) \/ \E c \in Conns : AdminRead(a, c)) => row' = row
    BY DEF AdminRead, AdminReject, rows
  <2> QED BY <1>2, <1>5, <1>6, <2>1 DEF Edit
<1>7. ASSUME NEW c \in Conns, SlotDue(c)
      PROVE  EnabledHasNextRun'
  BY <1>0, <1>7 DEF SlotDue, Row
<1>8. ASSUME NEW l \in Logs, LogGoesStale(l)
      PROVE  row' = row
  BY <1>8 DEF LogGoesStale
<1>9. CASE Boot
  <2>1. PICK next \in [Conns -> Slots \cup {None}] :
            row' = [c \in Conns |-> IF next[c] = None THEN row[c]
                                    ELSE [row[c] EXCEPT !.next = next[c], !.when = "future"]]
    BY <1>9 DEF Boot
  <2>2. ASSUME NEW c \in Conns
        PROVE  row'[c] = row[c] \/ row'[c].next # None
    BY <1>0, <2>1 DEF Row
  <2> QED BY <2>2
<1>10. (Crash \/ UNCHANGED vars) => row' = row
  BY DEF Crash, vars, rows
<1> QED BY <1>1, <1>2, <1>3, <1>4, <1>6, <1>7, <1>8, <1>9, <1>10 DEF Next, Time, Runners

\* An enabled schedule always has a next run stored, with any number of admins editing it, runs
\* advancing it, failures and restarts (updateSchedule, processDueConnection, reconcileOnBoot).
THEOREM CadenceKept == Spec => []EnabledHasNextRun
<1>1. Init => EnabledHasNextRun
  <2> SUFFICES ASSUME Init, NEW c \in Conns, row[c].enabled PROVE row[c].next # None
    BY DEF EnabledHasNextRun
  <2>1. row[c] \in InitialRows
    BY DEF Init
  <2>2. row[c] # NoRow
    BY DEF NoRow
  <2>3. PICK dry \in BOOLEAN, s \in Slots : row[c] = [NoRow EXCEPT !.enabled = TRUE, !.dry = dry, !.next = s]
    BY <2>1, <2>2 DEF InitialRows
  <2>4. row[c].next = s
    BY <2>3 DEF NoRow
  <2> QED BY <2>4
<1> QED BY <1>1, TypeCorrect, EnabledHasNextRunStep, PTL DEF Spec

-----------------------------------------------------------------------------
(* Every open log, and every IN_PROGRESS status, has a run that will close it. *)

Holding == {"mark", "work", "finish"}

\* What a caller holding a log does before it finishes that log.
LEMMA HolderKept ==
  ASSUME TypeOK, NEW r \in Runners, RunStep(r), run[r].pc \in {"mark", "work"}
  PROVE  /\ log' = log
         /\ run'[r].log = run[r].log /\ run'[r].conn = run[r].conn /\ run'[r].dry = run[r].dry
         /\ run'[r].pc \in {"work", "finish"}
<1>0. run \in [Runners -> Run] /\ run[r] \in Run
  BY DEF TypeOK
<1>1. MarkInProgress(r) \/ \E result \in {"SUCCESS", "FAILED"} : Work(r, result)
  BY DEF RunStep, PreRead, PreCheckBusy, PreCheckFree, Load, GuardFree, GuardStuck, GuardStale, GuardBusy,
     Reclaim, ResetStatus, CreateLog, FinishLog, SettleSuccess, SettleFailed
<1>2. CASE MarkInProgress(r)
  BY <1>0, <1>2 DEF MarkInProgress, Step, Run
<1>3. ASSUME NEW result \in {"SUCCESS", "FAILED"}, Work(r, result)
      PROVE  /\ log' = log
             /\ run'[r].log = run[r].log /\ run'[r].conn = run[r].conn /\ run'[r].dry = run[r].dry
             /\ run'[r].pc = "finish"
  BY <1>0, <1>3 DEF Work, Run, rows
<1> QED BY <1>1, <1>2, <1>3

\* Closing a log leaves the state and the connection of the others alone.
LEMMA CloseKeepsOthers ==
  ASSUME TypeOK, NEW l, log' = Close(l), NEW m \in Logs, log'[m].state = "RUNNING"
  PROVE  m # l /\ log[m].state = "RUNNING" /\ log'[m].conn = log[m].conn
<1>1. log[m] \in Log
  BY DEF TypeOK
<1>2. m # l
  BY DEF Close, NoLog
<1>3. log'[m] = [log[m] EXCEPT !.older = @ \ {l}]
  BY <1>2 DEF Close
<1> QED BY <1>1, <1>2, <1>3 DEF Log

\* The steps that neither reject a call nor crash keep the fault counter.
LEMMA FaultSteps ==
  ASSUME TypeOK, [Next]_vars, faults' = 0
  PROVE  faults = 0 /\ ~Crash /\ \A r \in Runners : ~Throw(r)
<1>1. faults \in Nat
  BY DEF TypeOK
<1>2. ~Crash /\ \A r \in Runners : ~Throw(r)
  <2>1. Crash => faults' = faults + 1
    BY DEF Crash
  <2>2. \A r \in Runners : Throw(r) => faults' = faults + 1
    BY DEF Throw
  <2> QED BY <1>1, <2>1, <2>2
<1>3. ASSUME NEW r \in Runners, RunStep(r)
      PROVE  faults' = faults
  BY <1>3 DEF RunStep, PreRead, PreCheckBusy, PreCheckFree, Load, GuardFree, GuardStuck, GuardStale, GuardBusy,
     Reclaim, ResetStatus, CreateLog, MarkInProgress, Work, FinishLog, SettleSuccess, SettleFailed
<1>4. ASSUME NEW r \in Manual, Caller(r)
      PROVE  faults' = faults
  BY <1>4 DEF Caller, StartSyncAll, StartManual
<1>5. ASSUME NEW t \in Ticks, TickStart(t) \/ TickStep(t)
      PROVE  faults' = faults
  BY <1>5 DEF TickStart, TickStep, TickNext, TickEnd, Advance, RecordSuccess, FailRead, FailWrite
<1>6. ASSUME NEW a \in Admins, Edit(a)
      PROVE  faults' = faults
  BY <1>6 DEF Edit, AdminRead, AdminReject, AdminWrite
<1>7. (Time \/ Boot \/ UNCHANGED vars) => faults' = faults
  BY DEF Time, SlotDue, LogGoesStale, Boot, vars
<1> QED BY <1>2, <1>3, <1>4, <1>5, <1>6, <1>7 DEF Next

LEMMA OpenLogHasRunnerStep ==
  ASSUME TypeOK, OpenLogHasRunner, [Next]_vars
  PROVE  OpenLogHasRunner'
<1> DEFINE Held(l, r) == run[r].log = l /\ run[r].conn = log[l].conn /\ run[r].pc \in Holding
<1> SUFFICES ASSUME faults' = 0, NEW l \in Logs, log'[l].state = "RUNNING"
             PROVE  \E r \in Runners : Held(l, r)'
  BY DEF OpenLogHasRunner, Holding
<1>0. /\ faults = 0 /\ ~Crash /\ \A r \in Runners : ~Throw(r)
      /\ run \in [Runners -> Run] /\ log \in [Logs -> Log]
  BY FaultSteps DEF TypeOK
<1>1. log[l].state = "RUNNING" => \E r \in Runners : Held(l, r)
  BY <1>0 DEF OpenLogHasRunner, Holding
\* A step of r that leaves log alone, or closes another row, and is not taken by the holder of l.
<1>2. ASSUME NEW r \in Runners, log[l].state = "RUNNING", log'[l].conn = log[l].conn, ~Held(l, r),
             \A q \in Runners \ {r} : run'[q] = run[q]
      PROVE  \E q \in Runners : Held(l, q)'
  BY <1>1, <1>2
<1>3. ASSUME NEW r \in Runners, RunStep(r)
      PROVE  \E q \in Runners : Held(l, q)'
  <2>0. \A q \in Runners \ {r} : run'[q] = run[q]
    BY <1>3, OtherRunsKept
  <2>1. CASE run[r].pc \in {"mark", "work"}
    BY <1>1, <1>3, <2>0, <2>1, HolderKept DEF Holding
  <2>2. CASE FinishLog(r)
    <3>1. l # run[r].log /\ log[l].state = "RUNNING" /\ log'[l].conn = log[l].conn
      BY <2>2, CloseKeepsOthers DEF FinishLog
    <3> QED BY <1>2, <2>0, <3>1
  <2>3. CASE Reclaim(r)
    <3>1. log[l].state = "RUNNING" /\ log'[l].conn = log[l].conn
      BY <2>3, CloseKeepsOthers DEF Reclaim
    <3>2. run[r].pc \notin Holding
      BY <2>3 DEF Reclaim, Holding
    <3> QED BY <1>2, <2>0, <3>1, <3>2
  <2>4. CASE CreateLog(r)
    <3>1. PICK k \in Logs \ HeldLogs :
             /\ log' = [log EXCEPT ![k] = [state |-> "RUNNING", conn |-> run[r].conn,
                                           stale |-> FALSE, older |-> OpenLogs(run[r].conn)]]
             /\ run' = [run EXCEPT ![r] = [@ EXCEPT !.pc = IF run[r].dry THEN "work" ELSE "mark", !.log = k]]
      BY <2>4 DEF CreateLog
    <3>2. CASE l = k
      <4>1. run'[r].log = k /\ run'[r].conn = run[r].conn /\ run'[r].pc \in {"work", "mark"}
        BY <1>0, <3>1 DEF Run
      <4>2. log'[k].conn = run[r].conn
        BY <1>0, <3>1
      <4> QED BY <3>2, <4>1, <4>2 DEF Holding
    <3>3. CASE l # k
      <4>1. log'[l] = log[l]
        BY <1>0, <3>1, <3>3
      <4>2. run[r].pc \notin Holding
        BY <2>4 DEF CreateLog, Holding
      <4> QED BY <1>2, <2>0, <4>1, <4>2
    <3> QED BY <3>2, <3>3
  <2>5. CASE run[r].pc \notin {"mark", "work", "finish", "reclaim", "create"}
    <3>1. log' = log
      BY <1>3, <2>5 DEF RunStep, PreRead, PreCheckBusy, PreCheckFree, Load, GuardFree, GuardStuck, GuardStale,
         GuardBusy, Reclaim, ResetStatus, CreateLog, MarkInProgress, Work, FinishLog, SettleSuccess, SettleFailed, rows
    <3> QED BY <1>2, <2>0, <2>5, <3>1 DEF Holding
  <2>6. run[r].pc = "finish" => FinishLog(r)
    BY <1>3 DEF RunStep, PreRead, PreCheckBusy, PreCheckFree, Load, GuardFree, GuardStuck, GuardStale,
         GuardBusy, Reclaim, ResetStatus, CreateLog, MarkInProgress, Work, FinishLog, SettleSuccess, SettleFailed
  <2>7. (run[r].pc = "reclaim" => Reclaim(r)) /\ (run[r].pc = "create" => CreateLog(r))
    BY <1>3 DEF RunStep, PreRead, PreCheckBusy, PreCheckFree, Load, GuardFree, GuardStuck, GuardStale,
         GuardBusy, Reclaim, ResetStatus, CreateLog, MarkInProgress, Work, FinishLog, SettleSuccess, SettleFailed
  <2> QED BY <2>1, <2>2, <2>3, <2>4, <2>5, <2>6, <2>7
<1>4. ASSUME NEW r \in Manual, Caller(r)
      PROVE  \E q \in Runners : Held(l, q)'
  <2>1. r \in Runners /\ run[r].pc = "idle" /\ log' = log
    BY <1>4 DEF Caller, StartSyncAll, StartManual, rows, Runners
  <2>2. \A q \in Runners \ {r} : run'[q] = run[q]
    BY <1>4, <2>1, OtherRunsKept
  <2> QED BY <1>2, <2>1, <2>2 DEF Holding
<1>5. ASSUME NEW t \in Ticks, TickStep(t)
      PROVE  \E q \in Runners : Held(l, q)'
  <2>1. CASE TickEnd(t)
    BY <1>1, <2>1 DEF TickEnd, rows
  <2>2. CASE ~TickEnd(t)
    <3>1. t \in Runners /\ run[t].pc \notin Holding /\ log' = log
      BY <1>5, <2>2 DEF TickStep, TickNext, Advance, RecordSuccess, FailRead, FailWrite, rows, Runners, Holding
    <3>2. \A q \in Runners \ {t} : run'[q] = run[q]
      BY <1>5, <3>1, OtherRunsKept
    <3> QED BY <1>2, <3>1, <3>2
  <2> QED BY <2>1, <2>2
<1>6. ASSUME NEW k \in Logs, LogGoesStale(k)
      PROVE  \E q \in Runners : Held(l, q)'
  <2>1. run' = run /\ log'[l].state = log[l].state /\ log'[l].conn = log[l].conn
    BY <1>0, <1>6 DEF LogGoesStale, Log
  <2> QED BY <1>1, <2>1
<1>7. ASSUME run' = run, log' = log
      PROVE  \E q \in Runners : Held(l, q)'
  BY <1>1, <1>7
<1>8. ASSUME NEW a \in Admins, Edit(a)
      PROVE  run' = run /\ log' = log
  <2>1. (AdminReject(a) \/ \E c \in Conns : AdminRead(a, c)) => run' = run /\ log' = log
    BY DEF AdminRead, AdminReject, rows
  <2>2. ASSUME NEW enabled \in BOOLEAN, NEW paused \in BOOLEAN, NEW dry \in BOOLEAN, NEW cronChanged \in BOOLEAN,
               AdminWrite(a, enabled, paused, dry, cronChanged)
        PROVE  run' = run /\ log' = log
    BY <2>2 DEF AdminWrite
  <2> QED BY <1>8, <2>1, <2>2 DEF Edit
<1>9. ASSUME \/ \E t \in Ticks : TickStart(t)
             \/ \E c \in Conns : SlotDue(c)
             \/ Boot \/ UNCHANGED vars
      PROVE  run' = run /\ log' = log
  BY <1>9 DEF TickStart, SlotDue, Boot, vars, rows
<1> QED BY <1>0, <1>3, <1>4, <1>5, <1>6, <1>7, <1>8, <1>9 DEF Next, Time

\* Without rejected database calls and crashes every RUNNING sync_log row belongs to a run that is going
\* to finish it, however many runs overlap and reclaim each other's stale rows.
THEOREM NoOrphanLogs == Spec => []OpenLogHasRunner
<1>1. Init => OpenLogHasRunner
  BY DEF Init, OpenLogHasRunner, NoLog
<1> QED BY <1>1, TypeCorrect, OpenLogHasRunnerStep, PTL DEF Spec

\* Only a real run is ever about to mark its connection, which makes InProgressHasRunner inductive.
MarkIsReal == \A r \in Runners : run[r].pc = "mark" => ~run[r].dry

Settling == {"work", "finish", "settle"}

\* The steps of a run by where it stands.
LEMMA StepByPlace ==
  ASSUME NEW r \in Runners, RunStep(r)
  PROVE  /\ run[r].pc = "create" => CreateLog(r)
         /\ run[r].pc = "mark" => MarkInProgress(r)
         /\ run[r].pc = "reset" => ResetStatus(r)
         /\ run[r].pc = "work" => \E result \in {"SUCCESS", "FAILED"} : Work(r, result)
         /\ run[r].pc = "finish" => FinishLog(r)
         /\ run[r].pc = "settle" => SettleSuccess(r) \/ SettleFailed(r)
         /\ run[r].pc \notin {"reset", "mark", "settle"} => row' = row
  BY DEF RunStep, PreRead, PreCheckBusy, PreCheckFree, Load, GuardFree, GuardStuck, GuardStale,
         GuardBusy, Reclaim, ResetStatus, CreateLog, MarkInProgress, Work, FinishLog, SettleSuccess, SettleFailed, rows

LEMMA MarkIsRealStep ==
  ASSUME TypeOK, MarkIsReal, [Next]_vars
  PROVE  MarkIsReal'
<1>0. run \in [Runners -> Run]
  BY DEF TypeOK
<1>1. ASSUME NEW r \in Runners, \A q \in Runners \ {r} : run'[q] = run[q],
             run'[r].pc # "mark" \/ (run'[r].pc = "mark" /\ ~run'[r].dry)
      PROVE  MarkIsReal'
  BY <1>1 DEF MarkIsReal
<1>2. ASSUME NEW r \in Runners, RunStep(r)
      PROVE  MarkIsReal'
  <2>1. \A q \in Runners \ {r} : run'[q] = run[q]
    BY <1>2, OtherRunsKept
  <2>2. CASE CreateLog(r)
    <3>1. PICK l \in Logs :
             run' = [run EXCEPT ![r] = [@ EXCEPT !.pc = IF run[r].dry THEN "work" ELSE "mark", !.log = l]]
      BY <2>2 DEF CreateLog
    <3>2. run[r] \in Run
      BY <1>0
    <3>3. run'[r].pc = (IF run[r].dry THEN "work" ELSE "mark") /\ run'[r].dry = run[r].dry
      BY <1>0, <3>1, <3>2 DEF Run
    <3> QED BY <1>1, <2>1, <3>3
  <2>3. CASE ~CreateLog(r)
    <3>1. run[r] \in Run
      BY <1>0
    <3>2. ASSUME NEW result, Return(r, result) PROVE run'[r].pc # "mark"
      BY <1>0, <3>2 DEF Return, IdleRun
    <3>3. (GuardBusy(r) \/ SettleSuccess(r) \/ SettleFailed(r)) => run'[r].pc # "mark"
      BY <3>2 DEF GuardBusy, SettleSuccess, SettleFailed
    <3>4. FinishLog(r) => run'[r].pc # "mark"
      <4>1. CASE run' = [run EXCEPT ![r] = [@ EXCEPT !.pc = "settle", !.log = None]]
        BY <1>0, <3>1, <4>1 DEF Run
      <4> QED BY <3>2, <4>1 DEF FinishLog
    <3>5. (PreRead(r) \/ PreCheckFree(r) \/ PreCheckBusy(r)) => run'[r].pc # "mark"
      <4>1. PreRead(r) => run'[r].pc # "mark"
        BY <1>0, <3>1 DEF PreRead, Run
      <4>2. PreCheckFree(r) => run'[r].pc # "mark"
        BY <1>0, <3>1 DEF PreCheckFree, Run
      <4>3. PreCheckBusy(r) => run'[r].pc # "mark"
        BY <1>0, <3>1 DEF PreCheckBusy, IdleRun
      <4> QED BY <4>1, <4>2, <4>3
    <3>6. Load(r) => run'[r].pc # "mark"
      BY <1>0, <3>1 DEF Load, Run
    <3>7. (GuardFree(r) \/ GuardStuck(r) \/ GuardStale(r) \/ Reclaim(r)) => run'[r].pc # "mark"
      <4>1. GuardFree(r) => run'[r].pc # "mark"
        BY <1>0, <3>1 DEF GuardFree, Run
      <4>2. GuardStuck(r) => run'[r].pc # "mark"
        BY <1>0, <3>1 DEF GuardStuck, Run
      <4>3. GuardStale(r) => run'[r].pc # "mark"
        BY <1>0, <3>1 DEF GuardStale, Run
      <4>4. Reclaim(r) => run'[r].pc # "mark"
        BY <1>0, <3>1 DEF Reclaim, Run
      <4> QED BY <4>1, <4>2, <4>3, <4>4
    <3>8. (ResetStatus(r) \/ MarkInProgress(r)) => run'[r].pc # "mark"
      BY <1>0, <3>1 DEF ResetStatus, MarkInProgress, Step, Run
    <3>9. \A result \in {"SUCCESS", "FAILED"} : Work(r, result) => run'[r].pc # "mark"
      BY <1>0, <3>1 DEF Work, Run
    <3> QED BY <1>1, <1>2, <2>1, <2>3, <3>3, <3>4, <3>5, <3>6, <3>7, <3>8, <3>9 DEF RunStep
  <2> QED BY <2>2, <2>3
<1>3. ASSUME NEW r \in Runners, Throw(r)
      PROVE  run'[r].pc # "mark"
  <2>0. run[r] \in Run
    BY <1>0
  <2>1. CASE run' = [run EXCEPT ![r] = IdleRun]
    BY <1>0, <2>1 DEF IdleRun
  <2>4. CASE Return(r, "threw")
    BY <1>0, <2>4 DEF Return, IdleRun
  <2>2. CASE run' = [run EXCEPT ![r] = [@ EXCEPT !.pc = "failRead", !.result = "threw"]]
    BY <1>0, <2>0, <2>2 DEF Run
  <2>3. CASE run' = [run EXCEPT ![r] = [@ EXCEPT !.pc = "failRead", !.failures = 0, !.result = "threw"]]
    BY <1>0, <2>0, <2>3 DEF Run
  <2> QED BY <1>3, <2>1, <2>2, <2>3, <2>4 DEF Throw
<1>4. ASSUME NEW r \in Manual, Caller(r)
      PROVE  r \in Runners /\ run'[r].pc # "mark"
  BY <1>0, <1>4 DEF Caller, StartSyncAll, StartManual, IdleRun, Runners
<1>5. ASSUME NEW t \in Ticks, TickStep(t)
      PROVE  t \in Runners /\ (run'[t].pc # "mark" \/ run' = run)
  <2>0. t \in Runners /\ run[t] \in Run
    BY <1>0 DEF Runners
  <2>1. ASSUME NEW d \in due[t], TickNext(t, d) PROVE run'[t].pc # "mark"
    BY <1>0, <2>0, <2>1 DEF TickNext, IdleRun
  <2>2. (RecordSuccess(t) \/ FailWrite(t)) => run'[t].pc # "mark"
    BY <1>0, <2>0 DEF RecordSuccess, FailWrite, IdleRun
  <2>3. (Advance(t) \/ FailRead(t)) => run'[t].pc # "mark"
    <3>1. Advance(t) => run'[t].pc # "mark"
      BY <1>0, <2>0 DEF Advance, Run
    <3>2. FailRead(t) => run'[t].pc # "mark"
      BY <1>0, <2>0 DEF FailRead, Run
    <3> QED BY <3>1, <3>2
  <2>4. TickEnd(t) => run' = run
    BY DEF TickEnd
  <2> QED BY <1>5, <2>0, <2>1, <2>2, <2>3, <2>4 DEF TickStep
<1>6. ASSUME run' = run \/ run' = [r \in Runners |-> IdleRun]
      PROVE  MarkIsReal'
  BY <1>6 DEF MarkIsReal, IdleRun
<1> QED BY <1>1, <1>2, <1>3, <1>4, <1>5, <1>6, OtherRunsKept, BackgroundSteps DEF Next

LEMMA InProgressStep ==
  ASSUME TypeOK, MarkIsReal, InProgressHasRunner, [Next]_vars
  PROVE  InProgressHasRunner'
<1> DEFINE Owned(c, r) == run[r].conn = c /\ ~run[r].dry /\ run[r].pc \in Settling
<1> SUFFICES ASSUME faults' = 0, NEW c \in Conns, row'[c].status = "IN_PROGRESS"
             PROVE  \E r \in Runners : Owned(c, r)'
  BY DEF InProgressHasRunner, Settling
<1>0. /\ faults = 0 /\ ~Crash /\ \A r \in Runners : ~Throw(r)
      /\ run \in [Runners -> Run] /\ row \in [Conns -> Row]
  BY FaultSteps DEF TypeOK
<1>1. row[c].status = "IN_PROGRESS" => \E r \in Runners : Owned(c, r)
  BY <1>0 DEF InProgressHasRunner, Settling
<1>2. ASSUME NEW r \in Runners, row'[c].status = row[c].status,
             \A q \in Runners \ {r} : run'[q] = run[q],
             Owned(c, r) => Owned(c, r)'
      PROVE  \E q \in Runners : Owned(c, q)'
  <2>1. PICK q \in Runners : Owned(c, q)
    BY <1>1, <1>2
  <2>2. CASE q = r
    BY <1>2, <2>1, <2>2
  <2>3. CASE q # r
    BY <1>2, <2>1, <2>3
  <2> QED BY <2>2, <2>3
<1>3. ASSUME NEW r \in Runners, RunStep(r)
      PROVE  \E q \in Runners : Owned(c, q)'
  <2>0. /\ run[r] \in Run
        /\ \A q \in Runners \ {r} : run'[q] = run[q]
    BY <1>0, <1>3, OtherRunsKept
  <2>1. CASE run[r].pc = "mark"
    <3>1. MarkInProgress(r) /\ run[r].conn \in Conns /\ ~run[r].dry
      BY <1>3, <2>1, StepByPlace DEF TypeOK, MarkIsReal
    <3>2. run'[r].conn = run[r].conn /\ run'[r].dry = run[r].dry /\ run'[r].pc = "work"
      BY <1>0, <2>0, <3>1 DEF MarkInProgress, Step, Run
    <3>3. CASE c = run[r].conn
      BY <3>1, <3>2, <3>3 DEF Settling
    <3>4. CASE c # run[r].conn
      <4>1. row'[c].status = row[c].status
        BY <1>0, <3>1, <3>4 DEF MarkInProgress
      <4> QED BY <1>2, <2>0, <2>1, <4>1 DEF Settling
    <3> QED BY <3>3, <3>4
  <2>2. CASE run[r].pc = "reset"
    <3>1. ResetStatus(r) /\ run[r].conn \in Conns
      BY <1>3, <2>2, StepByPlace DEF TypeOK
    <3>2. c # run[r].conn
      BY <1>0, <3>1 DEF ResetStatus, Row
    <3>3. row'[c].status = row[c].status
      BY <1>0, <3>1, <3>2 DEF ResetStatus
    <3> QED BY <1>2, <2>0, <2>2, <3>3 DEF Settling
  <2>3. CASE run[r].pc = "settle"
    <3>1. (SettleSuccess(r) \/ SettleFailed(r)) /\ run[r].conn \in Conns
      BY <1>3, <2>3, StepByPlace DEF TypeOK
    <3>2. c # run[r].conn
      BY <1>0, <3>1 DEF SettleSuccess, SettleFailed, Row
    <3>3. row'[c].status = row[c].status
      BY <1>0, <3>1, <3>2 DEF SettleSuccess, SettleFailed
    <3> QED BY <1>2, <2>0, <3>2, <3>3
  <2>4. CASE run[r].pc = "work"
    <3>1. PICK result \in {"SUCCESS", "FAILED"} : Work(r, result)
      BY <1>3, <2>4, StepByPlace
    <3>2. run'[r].conn = run[r].conn /\ run'[r].dry = run[r].dry /\ run'[r].pc = "finish"
      BY <1>0, <2>0, <3>1 DEF Work, Run
    <3>3. row' = row
      BY <3>1 DEF Work, rows
    <3> QED BY <1>2, <2>0, <3>2, <3>3 DEF Settling
  <2>5. CASE run[r].pc = "finish"
    <3>1. FinishLog(r) /\ row' = row
      BY <1>3, <2>5, StepByPlace
    <3>2. CASE run[r].dry
      BY <1>2, <2>0, <3>1, <3>2
    <3>3. CASE ~run[r].dry
      <4>1. run' = [run EXCEPT ![r] = [@ EXCEPT !.pc = "settle", !.log = None]]
        BY <3>1, <3>3 DEF FinishLog
      <4>2. run'[r].conn = run[r].conn /\ run'[r].dry = run[r].dry /\ run'[r].pc = "settle"
        BY <1>0, <2>0, <4>1 DEF Run
      <4> QED BY <1>2, <2>0, <3>1, <4>2 DEF Settling
    <3> QED BY <3>2, <3>3
  <2>6. CASE run[r].pc \notin {"mark", "reset", "settle", "work", "finish"}
    BY <1>2, <1>3, <2>0, <2>6, StepByPlace DEF Settling
  <2> QED BY <2>1, <2>2, <2>3, <2>4, <2>5, <2>6
<1>4. ASSUME NEW r \in Manual, Caller(r)
      PROVE  \E q \in Runners : Owned(c, q)'
  <2>1. r \in Runners /\ run[r].pc = "idle" /\ row' = row
    BY <1>4 DEF Caller, StartSyncAll, StartManual, rows, Runners
  <2>2. \A q \in Runners \ {r} : run'[q] = run[q]
    BY <1>4, <2>1, OtherRunsKept
  <2> QED BY <1>2, <2>1, <2>2 DEF Settling
<1>5. ASSUME NEW t \in Ticks, TickStep(t)
      PROVE  \E q \in Runners : Owned(c, q)'
  <2>0. t \in Runners /\ \A q \in Runners \ {t} : run'[q] = run[q]
    BY <1>5, OtherRunsKept DEF Runners
  <2>1. CASE TickEnd(t)
    BY <1>1, <2>1 DEF TickEnd, rows
  <2>2. CASE ~TickEnd(t)
    <3>1. run[t].pc \notin Settling
      BY <1>5, <2>2 DEF TickStep, TickNext, Advance, RecordSuccess, FailRead, FailWrite, Settling
    <3>2. Advance(t) => row'[c].status = row[c].status
      BY <1>0 DEF Advance, Row
    <3>3. FailWrite(t) => row'[c].status = row[c].status
      BY <1>0 DEF FailWrite, FailureCounted, Row
    <3>4. Advance(t) \/ FailWrite(t) \/ row' = row
      BY <1>5, <2>2 DEF TickStep, TickNext, RecordSuccess, FailRead, rows
    <3>5. row'[c].status = row[c].status
      BY <3>2, <3>3, <3>4
    <3> QED BY <1>2, <2>0, <3>1, <3>5
  <2> QED BY <2>1, <2>2
<1>6. ASSUME run' = run, row'[c].status = row[c].status
      PROVE  \E q \in Runners : Owned(c, q)'
  BY <1>1, <1>6
<1>7. ASSUME NEW a \in Admins, Edit(a)
      PROVE  run' = run /\ row'[c].status = row[c].status
  <2>1. (AdminReject(a) \/ \E b \in Conns : AdminRead(a, b)) => run' = run /\ row' = row
    BY DEF AdminRead, AdminReject, rows
  <2>2. ASSUME NEW enabled \in BOOLEAN, NEW paused \in BOOLEAN, NEW dry \in BOOLEAN, NEW cronChanged \in BOOLEAN,
               AdminWrite(a, enabled, paused, dry, cronChanged)
        PROVE  run' = run /\ row'[c].status = row[c].status
    <3>1. run' = run
      BY <2>2 DEF AdminWrite
    <3>2. row'[c].status = row[c].status
      BY <2>2, AdminWriteEffect
    <3> QED BY <3>1, <3>2
  <2> QED BY <1>7, <2>1, <2>2 DEF Edit
<1>8. ASSUME (\E t \in Ticks : TickStart(t)) \/ (\E l \in Logs : LogGoesStale(l)) \/ UNCHANGED vars
      PROVE  run' = run /\ row' = row
  BY <1>8 DEF TickStart, LogGoesStale, vars, rows
<1>9. ASSUME NEW b \in Conns, SlotDue(b)
      PROVE  run' = run /\ row'[c].status = row[c].status
  BY <1>0, <1>9 DEF SlotDue, Row
<1>10. ASSUME Boot
       PROVE  run' = run /\ row'[c].status = row[c].status
  <2>1. PICK next \in [Conns -> Slots \cup {None}] :
            row' = [b \in Conns |-> IF next[b] = None THEN row[b]
                                    ELSE [row[b] EXCEPT !.next = next[b], !.when = "future"]]
    BY <1>10 DEF Boot
  <2>2. row'[c].status = row[c].status
    BY <1>0, <2>1 DEF Row
  <2> QED BY <1>10, <2>2 DEF Boot
<1> QED BY <1>0, <1>3, <1>4, <1>5, <1>6, <1>7, <1>8, <1>9, <1>10 DEF Next, Time

\* Without rejected calls and crashes the IN_PROGRESS status of a connection has a real run behind it
\* that still has to write the row: overlapping runs and reclaims cannot leave the status stuck.
THEOREM InProgressIsOwned == Spec => []InProgressHasRunner
<1>1. Init => MarkIsReal /\ InProgressHasRunner
  <2> SUFFICES ASSUME Init PROVE MarkIsReal /\ InProgressHasRunner
    OBVIOUS
  <2>1. MarkIsReal
    BY DEF Init, MarkIsReal, IdleRun
  <2>2. ASSUME NEW c \in Conns
        PROVE  row[c].status = "NEVER"
    <3>1. row[c] \in InitialRows
      BY DEF Init
    <3>2. row[c] = NoRow \/ \E dry \in BOOLEAN, s \in Slots :
             row[c] = [NoRow EXCEPT !.enabled = TRUE, !.dry = dry, !.next = s]
      BY <3>1 DEF InitialRows
    <3>3. NoRow.status = "NEVER" /\ \A dry, s : [NoRow EXCEPT !.enabled = TRUE, !.dry = dry, !.next = s].status = "NEVER"
      BY DEF NoRow
    <3> QED BY <3>2, <3>3
  <2> QED BY <2>1, <2>2 DEF InProgressHasRunner
<1> QED BY <1>1, TypeCorrect, MarkIsRealStep, InProgressStep, PTL DEF Spec

-----------------------------------------------------------------------------
(* Which logs a run may close.                                             *)

\* A log a run has chosen to reclaim stays stale, or was closed by somebody else meanwhile.
StaleTargets ==
    \A r \in Runners : /\ run[r].pc = "reclaim" => run[r].stale \in Logs
                       /\ run[r].stale \in Logs =>
                             \/ log[run[r].stale].state # "RUNNING"
                             \/ log[run[r].stale].stale

\* A step changes a caller's target only by choosing a stale log or by dropping the target.
LEMMA TargetChosen ==
  ASSUME TypeOK, NEW r \in Runners,
         RunStep(r) \/ Throw(r) \/ (r \in Manual /\ Caller(r)) \/ (r \in Ticks /\ TickStep(r))
  PROVE  /\ \/ run'[r].stale = None /\ run'[r].pc # "reclaim"
            \/ run'[r].stale = run[r].stale /\ (run'[r].pc = "reclaim" => run[r].pc = "reclaim")
            \/ /\ run'[r].stale \in Logs /\ log' = log
               /\ log[run'[r].stale].stale
<1>0. run \in [Runners -> Run] /\ run[r] \in Run
  BY DEF TypeOK
<1> DEFINE Same == run'[r].stale = run[r].stale /\ (run'[r].pc = "reclaim" => run[r].pc = "reclaim")
           Dropped == run'[r].stale = None /\ run'[r].pc # "reclaim"
<1>r. ASSUME NEW result, Return(r, result)
      PROVE  Dropped
  BY <1>0, <1>r DEF Return, IdleRun
<1>1. CASE GuardStale(r)
  <2>1. PICK l \in Logs : /\ log[l].stale
                          /\ run' = [run EXCEPT ![r] = [@ EXCEPT !.pc = "reclaim", !.status = "NEVER", !.stale = l]]
    BY <1>1 DEF GuardStale, NewestOpenLog, OpenLogs
  <2>2. run'[r].stale = l
    BY <1>0, <2>1 DEF Run
  <2> QED BY <1>1, <2>1, <2>2 DEF GuardStale, rows
<1>2. CASE RunStep(r) /\ ~GuardStale(r)
  <2>1. PreRead(r) => Same
    BY <1>0 DEF PreRead, Run
  <2>2. PreCheckBusy(r) => Dropped
    BY <1>0 DEF PreCheckBusy, IdleRun
  <2>3. PreCheckFree(r) => Same
    BY <1>0 DEF PreCheckFree, Run
  <2>4. Load(r) => Same
    BY <1>0 DEF Load, Run
  <2>5. GuardFree(r) => Same
    BY <1>0 DEF GuardFree, Run
  <2>6. GuardStuck(r) => Same
    BY <1>0 DEF GuardStuck, Run
  <2>7. (GuardBusy(r) \/ SettleSuccess(r) \/ SettleFailed(r)) => Dropped
    BY <1>r DEF GuardBusy, SettleSuccess, SettleFailed
  <2>8. Reclaim(r) => Dropped
    BY <1>0 DEF Reclaim, Run
  <2>9. ResetStatus(r) => Same
    BY <1>0 DEF ResetStatus, Step, Run
  <2>10. CreateLog(r) => Same
    BY <1>0 DEF CreateLog, Run
  <2>11. MarkInProgress(r) => Same
    BY <1>0 DEF MarkInProgress, Step, Run
  <2>12. \A result \in {"SUCCESS", "FAILED"} : Work(r, result) => Same
    BY <1>0 DEF Work, Run
  <2>13. FinishLog(r) => Same \/ Dropped
    <3>1. CASE run' = [run EXCEPT ![r] = [@ EXCEPT !.pc = "settle", !.log = None]]
      BY <1>0, <3>1 DEF Run
    <3> QED BY <1>r, <3>1 DEF FinishLog
  <2> QED BY <1>2, <2>1, <2>2, <2>3, <2>4, <2>5, <2>6, <2>7, <2>8, <2>9, <2>10, <2>11, <2>12, <2>13 DEF RunStep
<1>3. CASE Throw(r)
  <2>1. CASE run' = [run EXCEPT ![r] = IdleRun]
    BY <1>0, <2>1 DEF IdleRun
  <2>2. CASE Return(r, "threw")
    BY <1>r, <2>2
  <2>3. CASE run' = [run EXCEPT ![r] = [@ EXCEPT !.pc = "failRead", !.result = "threw"]]
    BY <1>0, <2>3 DEF Run
  <2>4. CASE run' = [run EXCEPT ![r] = [@ EXCEPT !.pc = "failRead", !.failures = 0, !.result = "threw"]]
    BY <1>0, <2>4 DEF Run
  <2> QED BY <1>3, <2>1, <2>2, <2>3, <2>4 DEF Throw
<1>4. CASE Caller(r)
  BY <1>0, <1>4 DEF Caller, StartSyncAll, StartManual, IdleRun
<1>5. CASE r \in Ticks /\ TickStep(r)
  <2>1. ASSUME NEW d \in due[r], TickNext(r, d)
        PROVE  Dropped
    BY <1>0, <2>1 DEF TickNext, IdleRun
  <2>2. TickEnd(r) => Same
    BY DEF TickEnd
  <2>3. Advance(r) => Same
    BY <1>0 DEF Advance, Run
  <2>4. (RecordSuccess(r) \/ FailWrite(r)) => Dropped
    BY <1>0 DEF RecordSuccess, FailWrite, IdleRun
  <2>5. FailRead(r) => Same
    BY <1>0 DEF FailRead, Run
  <2> QED BY <1>5, <2>1, <2>2, <2>3, <2>4, <2>5 DEF TickStep
<1> QED BY <1>1, <1>2, <1>3, <1>4, <1>5

\* What a step may do to a log somebody targets: it stays stale or is not open any more.
LEMMA TargetsStayStale ==
  ASSUME TypeOK, [Next]_vars, NEW l \in Logs, l \in HeldLogs, log[l].state # "RUNNING" \/ log[l].stale
  PROVE  log'[l].state # "RUNNING" \/ log'[l].stale
<1>0. log \in [Logs -> Log]
  BY DEF TypeOK
<1>1. log' = log => (log'[l].state # "RUNNING" \/ log'[l].stale)
  OBVIOUS
<1>2. ASSUME NEW k, log' = Close(k)
      PROVE  log'[l].state # "RUNNING" \/ log'[l].stale
  BY <1>0, <1>2 DEF Close, NoLog, Log
<1>3. ASSUME NEW r \in Runners, RunStep(r)
      PROVE  log'[l].state # "RUNNING" \/ log'[l].stale
  <2>1. CASE CreateLog(r)
    BY <1>0, <2>1 DEF CreateLog
  <2>2. CASE Reclaim(r) \/ FinishLog(r)
    BY <1>2, <2>2 DEF Reclaim, FinishLog
  <2>3. CASE ~CreateLog(r) /\ ~Reclaim(r) /\ ~FinishLog(r)
    <3>1. log' = log
      BY <1>3, <2>3 DEF RunStep, PreRead, PreCheckBusy, PreCheckFree, Load, GuardFree, GuardStuck, GuardStale,
         GuardBusy, ResetStatus, MarkInProgress, Work, SettleSuccess, SettleFailed, rows
    <3> QED BY <1>1, <3>1
  <2> QED BY <2>1, <2>2, <2>3
<1>4. ASSUME NEW k \in Logs, LogGoesStale(k)
      PROVE  log'[l].state # "RUNNING" \/ log'[l].stale
  BY <1>0, <1>4 DEF LogGoesStale, Log
<1>5. ASSUME NEW r \in Runners, Throw(r) \/ (r \in Manual /\ Caller(r)) \/ (r \in Ticks /\ (TickStart(r) \/ TickStep(r)))
      PROVE  log' = log
  BY <1>5 DEF Throw, Caller, StartSyncAll, StartManual, TickStart, TickStep, TickNext, TickEnd, Advance,
     RecordSuccess, FailRead, FailWrite, rows
<1>6. ASSUME NEW a \in Admins, Edit(a)
      PROVE  log' = log
  BY <1>6 DEF Edit, AdminRead, AdminReject, AdminWrite, rows
<1>7. (Crash \/ Boot \/ (\E c \in Conns : SlotDue(c)) \/ UNCHANGED vars) => log' = log
  BY DEF Crash, Boot, SlotDue, vars, rows
<1> QED BY <1>1, <1>3, <1>4, <1>5, <1>6, <1>7 DEF Next, Time, Runners

LEMMA StaleTargetsStep ==
  ASSUME TypeOK, StaleTargets, [Next]_vars
  PROVE  StaleTargets'
<1>1. \A q \in Runners : run[q].stale \in HeldLogs
  BY DEF HeldLogs
<1>2. \A q \in Runners : run[q].stale \in Logs =>
          \/ log'[run[q].stale].state # "RUNNING" \/ log'[run[q].stale].stale
  BY <1>1, TargetsStayStale DEF StaleTargets
<1>3. ASSUME NEW r \in Runners,
             RunStep(r) \/ Throw(r) \/ (r \in Manual /\ Caller(r)) \/ (r \in Ticks /\ TickStep(r))
      PROVE  StaleTargets'
  <2>1. \A q \in Runners \ {r} : run'[q] = run[q]
    BY <1>3, OtherRunsKept
  <2>2. run[r].pc = "reclaim" => run[r].stale \in Logs
    BY DEF StaleTargets
  <2>3. /\ run'[r].pc = "reclaim" => run'[r].stale \in Logs
        /\ run'[r].stale \in Logs => \/ log'[run'[r].stale].state # "RUNNING" \/ log'[run'[r].stale].stale
    BY <1>2, <1>3, <2>2, TargetChosen
  <2> QED BY <1>2, <2>1, <2>3 DEF StaleTargets
<1>4. CASE run' = run
  BY <1>2, <1>4 DEF StaleTargets
<1>5. CASE run' = [r \in Runners |-> IdleRun]
  BY <1>5 DEF StaleTargets, IdleRun
<1> QED BY <1>3, <1>4, <1>5, BackgroundSteps DEF Next, Runners

\* A run closes a log that is not its own only after the stale limit has passed for it: the guard never
\* reclaims a healthy run, in any interleaving of runs, crashes and rejected calls.
THEOREM ReclaimsOnlyStale == Spec => OnlyStaleRunsReclaimed
<1>1. Init => StaleTargets
  BY DEF Init, StaleTargets, IdleRun
<1>2. ASSUME TypeOK, StaleTargets, [Next]_vars
      PROVE  [\A l \in Logs :
                log[l].state = "RUNNING" /\ log'[l].state # "RUNNING" =>
                   log[l].stale \/ \E r \in Runners : run[r].log = l /\ run[r].pc = "finish"]_vars
  <2> SUFFICES ASSUME NEW l \in Logs, log[l].state = "RUNNING", log'[l].state # "RUNNING"
               PROVE  log[l].stale \/ \E r \in Runners : run[r].log = l /\ run[r].pc = "finish"
    OBVIOUS
  <2>0. log \in [Logs -> Log]
    BY <1>2 DEF TypeOK
  <2>1. ASSUME NEW k, k # l, log' = Close(k)
        PROVE  FALSE
    BY <2>0, <2>1 DEF Close, Log
  <2>2. ASSUME NEW r \in Runners, RunStep(r)
        PROVE  log[l].stale \/ \E q \in Runners : run[q].log = l /\ run[q].pc = "finish"
    <3>1. CASE CreateLog(r)
      BY <2>0, <3>1 DEF CreateLog
    <3>2. CASE Reclaim(r)
      <4>1. run[r].stale = l /\ run[r].pc = "reclaim"
        BY <2>1, <3>2 DEF Reclaim
      <4> QED BY <1>2, <4>1 DEF StaleTargets
    <3>3. CASE FinishLog(r)
      BY <2>1, <3>3 DEF FinishLog
    <3>4. CASE ~CreateLog(r) /\ ~Reclaim(r) /\ ~FinishLog(r)
      <4>1. log' = log
        BY <2>2, <3>4 DEF RunStep, PreRead, PreCheckBusy, PreCheckFree, Load, GuardFree, GuardStuck, GuardStale,
           GuardBusy, ResetStatus, MarkInProgress, Work, SettleSuccess, SettleFailed, rows
      <4> QED BY <4>1
    <3> QED BY <3>1, <3>2, <3>3, <3>4
  <2>3. ASSUME NEW k \in Logs, LogGoesStale(k)
        PROVE  FALSE
    BY <2>0, <2>3 DEF LogGoesStale, Log
  <2>4. ASSUME NEW r \in Runners, Throw(r) \/ (r \in Manual /\ Caller(r)) \/ (r \in Ticks /\ (TickStart(r) \/ TickStep(r)))
        PROVE  log' = log
    BY <2>4 DEF Throw, Caller, StartSyncAll, StartManual, TickStart, TickStep, TickNext, TickEnd, Advance,
       RecordSuccess, FailRead, FailWrite, rows
  <2>5. ASSUME NEW a \in Admins, Edit(a)
        PROVE  log' = log
    BY <2>5 DEF Edit, AdminRead, AdminReject, AdminWrite, rows
  <2>6. (Crash \/ Boot \/ (\E c \in Conns : SlotDue(c)) \/ UNCHANGED vars) => log' = log
    BY DEF Crash, Boot, SlotDue, vars, rows
  <2> QED BY <1>2, <2>2, <2>3, <2>4, <2>5, <2>6 DEF Next, Time, Runners
<1> QED BY <1>1, <1>2, TypeCorrect, StaleTargetsStep, PTL DEF Spec, OnlyStaleRunsReclaimed
-----------------------------------------------------------------------------
(***************************************************************************)
(* The automatic pause, and slots that fire once.  Neither survives an     *)
(* administrator's write that rests on what has changed since it was read: *)
(* updateSchedule writes all it knows of the schedule back.  What follows  *)
(* holds of any number of administrators whose edits are up to date.       *)
(***************************************************************************)

\* What the edit rests on is still in the row.
UpToDate(a) ==
    LET now == row[edit[a].conn]
    IN /\ edit[a].saw.enabled = now.enabled /\ edit[a].saw.paused = now.paused
       /\ edit[a].saw.auto = now.auto /\ edit[a].saw.next = now.next

EditsAreUpToDate ==
    [][\A a \in Admins, enabled, paused, dry, cronChanged \in BOOLEAN :
          AdminWrite(a, enabled, paused, dry, cronChanged) => UpToDate(a)]_vars

\* No edit disables a schedule and lifts its pause at once.
NoEditDisablesAndLifts ==
    [][\A a \in Admins, enabled, paused, dry, cronChanged \in BOOLEAN :
          AdminWrite(a, enabled, paused, dry, cronChanged) => enabled \/ paused]_vars

\* What AutoPauseStops says of one row.
Stopped(x) ==
    /\ x.auto => x.paused
    /\ Threshold > 0 /\ x.failures >= Threshold => x.paused /\ x.auto

\* A run leaves the marks of the pause alone, or succeeded and clears them.
LEMMA RunStepKeepsPause ==
  ASSUME TypeOK, NEW r \in Runners, RunStep(r)
  PROVE  \A c \in Conns :
            \/ /\ row'[c].auto = row[c].auto /\ row'[c].paused = row[c].paused
               /\ row'[c].failures = row[c].failures
            \/ row'[c].auto = FALSE /\ row'[c].failures = 0
<1>0. row \in [Conns -> Row]
  BY DEF TypeOK
<1>1. CASE ResetStatus(r)
  BY <1>0, <1>1 DEF ResetStatus, Row
<1>2. CASE MarkInProgress(r)
  BY <1>0, <1>2 DEF MarkInProgress, Row
<1>3. CASE SettleSuccess(r)
  <2> DEFINE k == run[r].conn
             p == row[k].paused /\ ~run[r].auto
  <2>1. row' = [row EXCEPT ![k] = [row[k] EXCEPT !.status = "SUCCESS", !.failures = 0,
                                                 !.auto = FALSE, !.paused = p]]
    BY <1>0, <1>3 DEF SettleSuccess
  <2> HIDE DEF k, p
  <2>2. ASSUME NEW c \in Conns, c = k
        PROVE  row'[c].auto = FALSE /\ row'[c].failures = 0
    BY <1>0, <2>1, <2>2 DEF Row
  <2>3. \A c \in Conns : c # k => row'[c] = row[c]
    BY <1>0, <2>1
  <2> QED BY <2>2, <2>3
<1>4. CASE SettleFailed(r)
  BY <1>0, <1>4 DEF SettleFailed, Row
<1>5. CASE RunStep(r) /\ ~ResetStatus(r) /\ ~MarkInProgress(r) /\ ~SettleSuccess(r) /\ ~SettleFailed(r)
  <2>1. row' = row
    BY <1>5 DEF RunStep, PreRead, PreCheckBusy, PreCheckFree, Load, GuardFree, GuardStuck, GuardStale,
       GuardBusy, Reclaim, CreateLog, Work, FinishLog, rows
  <2> QED BY <2>1
<1> QED BY <1>1, <1>2, <1>3, <1>4, <1>5

\* The count and the pause are written together.
LEMMA FailureStops ==
  ASSUME TypeOK, NEW t \in Ticks, FailWrite(t), \A c \in Conns : Stopped(row[c])
  PROVE  \A c \in Conns : Stopped(row'[c])
<1> DEFINE k == run[t].conn
           n == IF run[t].failures < FailureCap THEN run[t].failures + 1 ELSE FailureCap
           pause == Threshold > 0 /\ n >= Threshold
           x == [row[k] EXCEPT !.failures = n, !.paused = row[k].paused \/ pause, !.auto = row[k].auto \/ pause]
<1>1. k \in Conns /\ row \in [Conns -> Row] /\ row[k] \in Row
  BY DEF FailWrite, TypeOK, Runners
<1>2. row' = [row EXCEPT ![k] = x]
  BY <1>1 DEF FailWrite, FailureCounted
<1>3. x.failures = n /\ x.paused = (row[k].paused \/ pause) /\ x.auto = (row[k].auto \/ pause)
  BY <1>1 DEF Row
<1>4. Stopped(row[k])
  BY <1>1
<1> HIDE DEF k, n, x
<1>5. (x.auto => x.paused) /\ (pause => x.paused /\ x.auto)
  <2> HIDE DEF pause
  <2> QED BY <1>3, <1>4 DEF Stopped
<1>6. Stopped(x)
  <2>1. x.failures = n
    BY <1>3
  <2> QED BY <1>5, <2>1 DEF Stopped
<1> QED BY <1>1, <1>2, <1>6

\* updateSchedule lifts the pause only together with the marks of it.
LEMMA EditKeepsStopped ==
  ASSUME TypeOK, NEW a \in Admins, NEW enabled \in BOOLEAN, NEW paused \in BOOLEAN, NEW dry \in BOOLEAN,
         NEW cronChanged \in BOOLEAN, AdminWrite(a, enabled, paused, dry, cronChanged),
         UpToDate(a), enabled \/ paused, \A c \in Conns : Stopped(row[c])
  PROVE  \A c \in Conns : Stopped(row'[c])
<1> DEFINE k == edit[a].conn
           resuming == Resuming(edit[a].saw, enabled, paused)
           edited(next, when) ==
             [row[k] EXCEPT !.enabled = enabled, !.paused = paused, !.dry = dry,
                            !.next = next, !.when = when,
                            !.auto = row[k].auto /\ ~resuming,
                            !.failures = IF resuming THEN 0 ELSE row[k].failures]
<1>1. k \in Conns /\ row[k] \in Row /\ row \in [Conns -> Row]
  BY DEF AdminWrite, TypeOK
<1>2. PICK next, when : row' = [row EXCEPT ![k] = edited(next, when)]
  BY DEF AdminWrite, KeepsNext
<1> DEFINE x == edited(next, when)
<1>3. x.paused = paused /\ x.auto = (row[k].auto /\ ~resuming)
  BY <1>1 DEF Row
<1>4. x.failures = IF resuming THEN 0 ELSE row[k].failures
  BY <1>1 DEF Row
<1>5. Stopped(row[k])
  BY <1>1
<1>6. resuming <=> enabled /\ ~paused /\ (row[k].auto \/ row[k].paused \/ ~row[k].enabled)
  BY DEF UpToDate, Resuming
<1> HIDE DEF k, x, resuming
<1>7. CASE resuming
  <2>1. x.auto = FALSE /\ x.failures = 0
    BY <1>3, <1>4, <1>7
  <2>2. Stopped(x)
    BY <2>1 DEF Stopped
  <2> QED BY <1>1, <1>2, <2>2 DEF x
<1>8. CASE ~resuming
  <2>1. row[k].auto => paused
    BY <1>5, <1>6, <1>8 DEF Stopped
  <2>2. x.auto = row[k].auto /\ x.failures = row[k].failures
    <3>1. row[k].auto \in BOOLEAN
      BY <1>1 DEF Row
    <3> QED BY <1>3, <1>4, <1>8, <3>1
  <2>3. Stopped(x)
    BY <1>3, <1>5, <2>1, <2>2 DEF Stopped
  <2> QED BY <1>1, <1>2, <2>3 DEF x
<1> QED BY <1>7, <1>8

LEMMA AutoPauseStep ==
  ASSUME TypeOK, AutoPauseStops, [Next]_vars,
         [\A a \in Admins, enabled, paused, dry, cronChanged \in BOOLEAN :
             AdminWrite(a, enabled, paused, dry, cronChanged) => UpToDate(a)]_vars,
         [\A a \in Admins, enabled, paused, dry, cronChanged \in BOOLEAN :
             AdminWrite(a, enabled, paused, dry, cronChanged) => enabled \/ paused]_vars
  PROVE  AutoPauseStops'
<1>0. row \in [Conns -> Row] /\ \A c \in Conns : Stopped(row[c])
  BY DEF TypeOK, AutoPauseStops, Stopped
<1>s. SUFFICES \A c \in Conns : Stopped(row'[c])
  BY DEF AutoPauseStops, Stopped
<1>1. ASSUME \A c \in Conns : /\ row'[c].auto = row[c].auto /\ row'[c].paused = row[c].paused
                              /\ row'[c].failures = row[c].failures
      PROVE  \A c \in Conns : Stopped(row'[c])
  BY <1>0, <1>1 DEF Stopped
<1>2. ASSUME NEW r \in Runners, RunStep(r)
      PROVE  \A c \in Conns : Stopped(row'[c])
  <2> SUFFICES ASSUME NEW c \in Conns PROVE Stopped(row'[c])
    OBVIOUS
  <2>1. CASE row'[c].auto = row[c].auto /\ row'[c].paused = row[c].paused /\ row'[c].failures = row[c].failures
    BY <1>0, <2>1 DEF Stopped
  <2>2. CASE row'[c].auto = FALSE /\ row'[c].failures = 0
    BY <2>2 DEF Stopped
  <2> QED BY <1>2, <2>1, <2>2, RunStepKeepsPause
<1>3. ASSUME NEW r \in Runners, Throw(r) \/ (r \in Manual /\ Caller(r))
      PROVE  row' = row
  BY <1>3 DEF Throw, Caller, StartSyncAll, StartManual, rows
<1>4. ASSUME NEW t \in Ticks, TickStart(t) \/ TickStep(t)
      PROVE  \A c \in Conns : Stopped(row'[c])
  <2>1. CASE Advance(t)
    <3>1. PICK s \in NextOccurrence(run[t].conn) :
               row' = [row EXCEPT ![run[t].conn].next = s, ![run[t].conn].when = "future"]
      BY <2>1 DEF Advance
    <3> QED BY <1>0, <1>1, <3>1 DEF Row
  <2>2. CASE FailWrite(t)
    BY <1>0, <2>2, FailureStops
  <2>3. CASE ~Advance(t) /\ ~FailWrite(t)
    <3>1. row' = row
      BY <1>4, <2>3 DEF TickStart, TickStep, TickNext, TickEnd, RecordSuccess, FailRead, rows
    <3> QED BY <1>1, <3>1
  <2> QED BY <2>1, <2>2, <2>3
<1>5. ASSUME NEW a \in Admins, NEW enabled \in BOOLEAN, NEW paused \in BOOLEAN, NEW dry \in BOOLEAN,
             NEW cronChanged \in BOOLEAN, AdminWrite(a, enabled, paused, dry, cronChanged)
      PROVE  \A c \in Conns : Stopped(row'[c])
  <2>1. CASE UNCHANGED vars
    BY <1>1, <2>1 DEF vars, rows
  <2>2. CASE ~UNCHANGED vars
    <3>1. UpToDate(a) /\ (enabled \/ paused)
      BY <1>5, <2>2
    <3> QED BY <1>0, <1>5, <3>1, EditKeepsStopped
  <2> QED BY <2>1, <2>2
<1>6. ASSUME NEW a \in Admins, Edit(a)
      PROVE  \A c \in Conns : Stopped(row'[c])
  <2>1. (AdminReject(a) \/ \E c \in Conns : AdminRead(a, c)) => row' = row
    BY DEF AdminRead, AdminReject, rows
  <2> QED BY <1>1, <1>5, <1>6, <2>1 DEF Edit
<1>7. ASSUME NEW c \in Conns, SlotDue(c)
      PROVE  \A b \in Conns : Stopped(row'[b])
  BY <1>0, <1>1, <1>7 DEF SlotDue, Row
<1>8. ASSUME NEW l \in Logs, LogGoesStale(l)
      PROVE  row' = row
  BY <1>8 DEF LogGoesStale
<1>9. CASE Boot
  <2>1. PICK next \in [Conns -> Slots \cup {None}] :
            row' = [c \in Conns |-> IF next[c] = None THEN row[c]
                                    ELSE [row[c] EXCEPT !.next = next[c], !.when = "future"]]
    BY <1>9 DEF Boot
  <2>2. ASSUME NEW c \in Conns
        PROVE  /\ row'[c].auto = row[c].auto /\ row'[c].paused = row[c].paused
               /\ row'[c].failures = row[c].failures
    <3>1. \A s : /\ [row[c] EXCEPT !.next = s, !.when = "future"].auto = row[c].auto
                 /\ [row[c] EXCEPT !.next = s, !.when = "future"].paused = row[c].paused
                 /\ [row[c] EXCEPT !.next = s, !.when = "future"].failures = row[c].failures
      BY <1>0 DEF Row
    <3>2. row'[c] = row[c] \/ \E s : row'[c] = [row[c] EXCEPT !.next = s, !.when = "future"]
      BY <2>1
    <3> QED BY <3>1, <3>2
  <2> QED BY <1>1, <2>2
<1>10. (Crash \/ UNCHANGED vars) => row' = row
  BY DEF Crash, vars, rows
<1> QED BY <1>1, <1>2, <1>3, <1>4, <1>6, <1>7, <1>8, <1>9, <1>10 DEF Next, Time, Runners

\* A schedule that failed Threshold scheduled runs in a row stays paused and marked, whatever manual
\* runs, ticks and restarts come between the read of the count and its write (handleScheduledFailure),
\* and with any number of administrators whose writes rest on the row as it is (updateSchedule).
THEOREM AutoPauseHolds == Spec /\ EditsAreUpToDate /\ NoEditDisablesAndLifts => []AutoPauseStops
<1>1. Init => AutoPauseStops
  <2> SUFFICES ASSUME Init, NEW c \in Conns PROVE Stopped(row[c])
    BY DEF AutoPauseStops, Stopped
  <2>1. row[c] \in InitialRows
    BY DEF Init
  <2>2. row[c].auto = FALSE /\ row[c].failures = 0
    <3>1. CASE row[c] = NoRow
      BY <3>1 DEF NoRow
    <3>2. ASSUME NEW dry \in BOOLEAN, NEW s \in Slots,
                 row[c] = [NoRow EXCEPT !.enabled = TRUE, !.dry = dry, !.next = s]
          PROVE  row[c].auto = FALSE /\ row[c].failures = 0
      BY <3>2 DEF NoRow
    <3> QED BY <2>1, <3>1, <3>2 DEF InitialRows
  <2> QED BY <2>2 DEF Stopped
<1> QED BY <1>1, TypeCorrect, AutoPauseStep, PTL DEF Spec, EditsAreUpToDate, NoEditDisablesAndLifts

-----------------------------------------------------------------------------
(* Slots.                                                                  *)

\* The places of a tick that has a slot and has not triggered the run yet.
Triggering == {"pre", "precheck", "advance"}

\* A slot that was fired is nowhere any more: not in the row, not with a tick that is about to
\* trigger it, not among the connections a tick has still to process, each of them once.
UnfiredNext == \A c \in Conns : row[c].next # None => row[c].next # fired[c]
UnfiredRun == \A t \in Ticks : run[t].pc \in Triggering => run[t].slot # fired[run[t].conn]
UnfiredDue == \A t \in Ticks : \A d \in due[t] : d.slot # fired[d.conn]
DueOnce == \A t \in Ticks : /\ \A d, e \in due[t] : d.conn = e.conn => d = e
                            /\ run[t].pc # "idle" => \A d \in due[t] : d.conn # run[t].conn
WorksInLoop == \A t \in Ticks : run[t].pc # "idle" \/ due[t] # {} => looping[t]

SlotInv == UnfiredNext /\ UnfiredRun /\ UnfiredDue /\ DueOnce /\ WorksInLoop

\* The next occurrence is a new one.
LEMMA OccurrenceIsNew ==
  ASSUME NEW c \in Conns, NEW s \in NextOccurrence(c)
  PROVE  /\ s # fired[c] /\ s # None
         /\ \A t \in Ticks : run[t].conn = c => s # run[t].slot
<1>1. s \notin UsedSlots(c) /\ s \in Slots
  BY DEF NextOccurrence
<1>2. {row[c].next, fired[c]} \subseteq UsedSlots(c)
  BY DEF UsedSlots
<1>3. {run[t].slot : t \in {u \in Ticks : run[u].conn = c}} \subseteq UsedSlots(c)
  BY DEF UsedSlots
<1> QED BY <1>1, <1>2, <1>3

\* A run under way gets no other connection or slot, and does not come back to where it triggers.
LEMMA RunKeepsSlot ==
  ASSUME TypeOK, NEW r \in Runners, RunStep(r) \/ Throw(r)
  PROVE  /\ run'[r].pc # "idle" => run[r].pc # "idle" /\ run'[r].conn = run[r].conn
         /\ run'[r].pc \in Triggering => run[r].pc \in Triggering /\ run'[r].slot = run[r].slot
<1>0. run \in [Runners -> Run] /\ run[r] \in Run
  BY DEF TypeOK
<1>1. ASSUME NEW result, Return(r, result), run[r].pc # "idle"
      PROVE  /\ run'[r].pc # "idle" => run[r].pc # "idle" /\ run'[r].conn = run[r].conn
             /\ run'[r].pc \notin Triggering
  BY <1>0, <1>1 DEF Return, IdleRun, Triggering
<1>k. ASSUME run[r].pc # "idle", run'[r].conn = run[r].conn, run'[r].pc \notin Triggering
      PROVE  /\ run'[r].pc # "idle" => run[r].pc # "idle" /\ run'[r].conn = run[r].conn
             /\ run'[r].pc \in Triggering => run[r].pc \in Triggering /\ run'[r].slot = run[r].slot
  BY <1>k
<1>2. CASE PreRead(r)
  <2>1. run'[r].pc = "precheck" /\ run'[r].conn = run[r].conn /\ run'[r].slot = run[r].slot
    BY <1>0, <1>2 DEF PreRead, Run
  <2> QED BY <1>2, <2>1 DEF PreRead, Triggering
<1>3. CASE PreCheckBusy(r)
  BY <1>0, <1>3 DEF PreCheckBusy, IdleRun, Triggering
<1>4. CASE PreCheckFree(r)
  <2>1. /\ run'[r].pc \in {"advance", "load"} /\ run'[r].conn = run[r].conn
        /\ run'[r].slot = run[r].slot
    BY <1>0, <1>4 DEF PreCheckFree, Run
  <2> QED BY <1>4, <2>1 DEF PreCheckFree, Triggering
<1>5. CASE Load(r)
  <2>1. run'[r].pc \in {"create", "guard"} /\ run'[r].conn = run[r].conn
    BY <1>0, <1>5 DEF Load, Run
  <2> QED BY <1>k, <1>5, <2>1 DEF Load, Triggering
<1>6. CASE GuardFree(r)
  <2>1. run'[r].pc = "create" /\ run'[r].conn = run[r].conn
    BY <1>0, <1>6 DEF GuardFree, Run
  <2> QED BY <1>k, <1>6, <2>1 DEF GuardFree, Triggering
<1>7. CASE GuardStuck(r)
  <2>1. run'[r].pc = "reset" /\ run'[r].conn = run[r].conn
    BY <1>0, <1>7 DEF GuardStuck, Run
  <2> QED BY <1>k, <1>7, <2>1 DEF GuardStuck, Triggering
<1>8. CASE GuardStale(r)
  <2>1. run'[r].pc = "reclaim" /\ run'[r].conn = run[r].conn
    BY <1>0, <1>8 DEF GuardStale, Run
  <2> QED BY <1>k, <1>8, <2>1 DEF GuardStale, Triggering
<1>9. CASE GuardBusy(r) \/ SettleSuccess(r) \/ SettleFailed(r)
  BY <1>1, <1>9 DEF GuardBusy, SettleSuccess, SettleFailed
<1>10. CASE Reclaim(r)
  <2>1. run'[r].pc = "reset" /\ run'[r].conn = run[r].conn
    BY <1>0, <1>10 DEF Reclaim, Run
  <2> QED BY <1>k, <1>10, <2>1 DEF Reclaim, Triggering
<1>11. CASE ResetStatus(r)
  <2>1. run'[r].pc = "create" /\ run'[r].conn = run[r].conn
    BY <1>0, <1>11 DEF ResetStatus, Step, Run
  <2> QED BY <1>k, <1>11, <2>1 DEF ResetStatus, Triggering
<1>12. CASE CreateLog(r)
  <2>1. PICK l \in Logs :
           run' = [run EXCEPT ![r] = [@ EXCEPT !.pc = IF run[r].dry THEN "work" ELSE "mark", !.log = l]]
    BY <1>12 DEF CreateLog
  <2>2. run'[r].pc \in {"work", "mark"} /\ run'[r].conn = run[r].conn
    BY <1>0, <2>1 DEF Run
  <2> QED BY <1>k, <1>12, <2>2 DEF CreateLog, Triggering
<1>13. CASE MarkInProgress(r)
  <2>1. run'[r].pc = "work" /\ run'[r].conn = run[r].conn
    BY <1>0, <1>13 DEF MarkInProgress, Step, Run
  <2> QED BY <1>k, <1>13, <2>1 DEF MarkInProgress, Triggering
<1>14. ASSUME NEW result \in {"SUCCESS", "FAILED"}, Work(r, result)
       PROVE  run[r].pc # "idle" /\ run'[r].conn = run[r].conn /\ run'[r].pc \notin Triggering
  <2>1. run'[r].pc = "finish" /\ run'[r].conn = run[r].conn
    BY <1>0, <1>14 DEF Work, Run
  <2> QED BY <1>14, <2>1 DEF Work, Triggering
<1>15. CASE FinishLog(r)
  <2>1. CASE run[r].dry
    BY <1>1, <1>15, <2>1 DEF FinishLog
  <2>2. CASE ~run[r].dry
    <3>1. run' = [run EXCEPT ![r] = [@ EXCEPT !.pc = "settle", !.log = None]]
      BY <1>15, <2>2 DEF FinishLog
    <3>2. run'[r].pc = "settle" /\ run'[r].conn = run[r].conn
      BY <1>0, <3>1 DEF Run
    <3> QED BY <1>k, <1>15, <3>2 DEF FinishLog, Triggering
  <2> QED BY <2>1, <2>2
<1>16. CASE Throw(r)
  <2>1. CASE Return(r, "threw") /\ run[r].pc # "idle"
    BY <1>1, <2>1
  <2>2. CASE run' = [run EXCEPT ![r] = IdleRun]
    BY <1>0, <2>2 DEF IdleRun, Triggering
  <2>3. CASE run[r].pc # "idle" /\ run' = [run EXCEPT ![r] = [@ EXCEPT !.pc = "failRead", !.result = "threw"]]
    BY <1>0, <2>3 DEF Triggering, Run
  <2>4. CASE /\ run[r].pc # "idle"
             /\ run' = [run EXCEPT ![r] = [@ EXCEPT !.pc = "failRead", !.failures = 0, !.result = "threw"]]
    BY <1>0, <2>4 DEF Triggering, Run
  <2> QED BY <1>16, <2>1, <2>2, <2>3, <2>4 DEF Throw
<1> QED BY <1>k, <1>2, <1>3, <1>4, <1>5, <1>6, <1>7, <1>8, <1>9, <1>10, <1>11, <1>12, <1>13, <1>14, <1>15, <1>16
     DEF RunStep

\* Steps that fire nothing, bring no fired slot back and give no tick another one.
LEMMA SlotsKept ==
  ASSUME TypeOK, SlotInv, UNCHANGED <<due, looping, fired>>,
         \A c \in Conns : row'[c].next \in {None, row[c].next} \/ row'[c].next # fired[c],
         \A t \in Ticks : /\ run'[t].pc # "idle" => run[t].pc # "idle" /\ run'[t].conn = run[t].conn
                          /\ run'[t].pc \in Triggering => run[t].pc \in Triggering /\ run'[t].slot = run[t].slot
  PROVE  SlotInv'
<1>1. UnfiredNext' /\ UnfiredDue'
  BY DEF SlotInv, UnfiredNext, UnfiredDue
<1>2. UnfiredRun'
  BY DEF SlotInv, UnfiredRun, Triggering
<1>3. DueOnce' /\ WorksInLoop'
  BY DEF SlotInv, DueOnce, WorksInLoop
<1> QED BY <1>1, <1>2, <1>3 DEF SlotInv

\* A tick loads what is due; nothing it had is left over.
LEMMA SlotsTickStart ==
  ASSUME TypeOK, SlotInv, NEW t \in Ticks, TickStart(t)
  PROVE  SlotInv'
<1>1. /\ due \in [Ticks -> SUBSET Due] /\ looping \in [Ticks -> BOOLEAN]
      /\ due' = [due EXCEPT ![t] = DueRows] /\ looping' = [looping EXCEPT ![t] = TRUE]
      /\ UNCHANGED <<row, run, fired>> /\ ~looping[t]
  BY DEF TickStart, TypeOK, rows
<1>2. run[t].pc = "idle" /\ due[t] = {}
  BY <1>1 DEF SlotInv, WorksInLoop
<1>3. /\ \A d \in DueRows : d.conn \in Conns /\ d.slot = row[d.conn].next /\ row[d.conn].next # None
      /\ \A d, e \in DueRows : d.conn = e.conn => d = e
  BY DEF DueRows, Eligible
<1>4. UnfiredNext' /\ UnfiredRun'
  BY <1>1 DEF SlotInv, UnfiredNext, UnfiredRun
<1>5. UnfiredDue'
  BY <1>1, <1>3 DEF SlotInv, UnfiredDue, UnfiredNext
<1>6. DueOnce' /\ WorksInLoop'
  BY <1>1, <1>2, <1>3 DEF SlotInv, DueOnce, WorksInLoop
<1> QED BY <1>4, <1>5, <1>6 DEF SlotInv

\* A tick takes one connection of those it loaded.
LEMMA SlotsTickNext ==
  ASSUME TypeOK, SlotInv, NEW t \in Ticks, NEW d \in due[t], TickNext(t, d)
  PROVE  SlotInv'
<1>1. /\ due \in [Ticks -> SUBSET Due] /\ run \in [Runners -> Run] /\ t \in Runners /\ looping[t]
      /\ due' = [due EXCEPT ![t] = due[t] \ {d}] /\ UNCHANGED <<row, looping, fired>>
      /\ run' = [run EXCEPT ![t] = [IdleRun EXCEPT !.pc = "pre", !.conn = d.conn, !.dry = d.dry, !.slot = d.slot]]
  BY DEF TickNext, TypeOK, rows, Runners
<1>2. /\ run'[t].pc = "pre" /\ run'[t].conn = d.conn /\ run'[t].slot = d.slot
      /\ \A u \in Ticks : u # t => run'[u] = run[u] /\ due'[u] = due[u]
      /\ due'[t] = due[t] \ {d}
  BY <1>1 DEF IdleRun, Runners
<1>3. UnfiredNext' /\ UnfiredDue'
  BY <1>1, <1>2 DEF SlotInv, UnfiredNext, UnfiredDue
<1>4. UnfiredRun'
  BY <1>1, <1>2 DEF SlotInv, UnfiredRun, UnfiredDue
<1>5. DueOnce' /\ WorksInLoop'
  BY <1>1, <1>2 DEF SlotInv, DueOnce, WorksInLoop
<1> QED BY <1>3, <1>4, <1>5 DEF SlotInv

\* A tick spends its slot: no other tick is at work, and it has the connection in hand only once.
LEMMA SlotsAdvance ==
  ASSUME TypeOK, TicksDoNotOverlap, SlotInv, NEW t \in Ticks, Advance(t)
  PROVE  SlotInv'
<1> DEFINE c == run[t].conn
<1>1. /\ c \in Conns /\ t \in Runners /\ run \in [Runners -> Run] /\ run[t].pc = "advance"
      /\ row \in [Conns -> Row] /\ fired \in [Conns -> Slots \cup {None}]
      /\ UNCHANGED <<due, looping>>
  BY DEF Advance, TypeOK, Runners, tickVars
<1>2. PICK s \in NextOccurrence(c) : row' = [row EXCEPT ![c].next = s, ![c].when = "future"]
  BY DEF Advance
<1>3. fired' = [fired EXCEPT ![c] = run[t].slot]
  BY DEF Advance
<1>4. run'[t].pc = "load" /\ run'[t].conn = c /\ \A u \in Ticks : u # t => run'[u] = run[u]
  BY <1>1 DEF Advance, Run, Runners
<1>5. s # run[t].slot /\ row'[c].next = s /\ \A b \in Conns : b # c => row'[b] = row[b] /\ fired'[b] = fired[b]
  BY <1>1, <1>2, <1>3, OccurrenceIsNew DEF Row
<1>6. /\ \A d \in due[t] : d.conn # c
      /\ \A u \in Ticks : u # t => run[u].pc = "idle" /\ due[u] = {}
  BY <1>1 DEF SlotInv, DueOnce, WorksInLoop, TicksDoNotOverlap
<1>7. fired'[c] = run[t].slot
  BY <1>1, <1>3
<1>8. \A u \in Ticks : \A d \in due[u] : d.conn \in Conns
  BY DEF TypeOK, Due
<1> HIDE DEF c
<1>9. UnfiredNext'
  BY <1>5, <1>7 DEF SlotInv, UnfiredNext
<1>10. UnfiredRun'
  BY <1>4, <1>6 DEF UnfiredRun, Triggering
<1>11. UnfiredDue'
  BY <1>1, <1>5, <1>6, <1>8 DEF SlotInv, UnfiredDue
<1>12. DueOnce' /\ WorksInLoop'
  BY <1>1, <1>4, <1>6 DEF SlotInv, DueOnce, WorksInLoop
<1> QED BY <1>9, <1>10, <1>11, <1>12 DEF SlotInv

LEMMA SlotStep ==
  ASSUME TypeOK, TicksDoNotOverlap, SlotInv, [Next]_vars,
         [\A a \in Admins, enabled, paused, dry, cronChanged \in BOOLEAN :
             AdminWrite(a, enabled, paused, dry, cronChanged) => UpToDate(a)]_vars
  PROVE  SlotInv'
<1>0. row \in [Conns -> Row]
  BY DEF TypeOK
<1>1. ASSUME UNCHANGED <<run, due, looping, fired>>,
             \A c \in Conns : row'[c].next \in {None, row[c].next} \/ row'[c].next # fired[c]
      PROVE  SlotInv'
  BY <1>1, SlotsKept
<1>2. ASSUME NEW r \in Runners, RunStep(r) \/ Throw(r)
      PROVE  SlotInv'
  <2>1. UNCHANGED tickVars
    BY <1>2, TicksKept
  <2>2. UNCHANGED fired
    BY <1>2 DEF Throw, RunStep, PreRead, PreCheckBusy, PreCheckFree, Load, GuardFree, GuardStuck, GuardStale,
       GuardBusy, Reclaim, ResetStatus, CreateLog, MarkInProgress, Work, FinishLog, SettleSuccess, SettleFailed
  <2>3. \A c \in Conns : row'[c].next = row[c].next
    BY <1>2, RunStepKeepsSchedule DEF Throw, rows
  <2>4. \A t \in Ticks : /\ run'[t].pc # "idle" => run[t].pc # "idle" /\ run'[t].conn = run[t].conn
                         /\ run'[t].pc \in Triggering => run[t].pc \in Triggering /\ run'[t].slot = run[t].slot
    <3>1. \A q \in Runners \ {r} : run'[q] = run[q]
      BY <1>2, OtherRunsKept
    <3>2. /\ run'[r].pc # "idle" => run[r].pc # "idle" /\ run'[r].conn = run[r].conn
          /\ run'[r].pc \in Triggering => run[r].pc \in Triggering /\ run'[r].slot = run[r].slot
      BY <1>2, RunKeepsSlot
    <3> QED BY <3>1, <3>2 DEF Runners
  <2>5. UNCHANGED <<due, looping>>
    BY <2>1 DEF tickVars
  <2> QED BY <2>2, <2>3, <2>4, <2>5, SlotsKept
<1>3. ASSUME NEW r \in Manual, Caller(r)
      PROVE  SlotInv'
  <2>1. UNCHANGED <<row, due, looping, fired>>
    BY <1>3 DEF Caller, StartSyncAll, StartManual, rows, tickVars
  <2>2. \A q \in Runners \ {r} : run'[q] = run[q]
    BY <1>3, OtherRunsKept DEF Runners
  <2>3. \A t \in Ticks : run'[t] = run[t]
    BY <2>2, SyncConstants DEF Runners
  <2> QED BY <2>1, <2>3, SlotsKept
<1>4. ASSUME NEW t \in Ticks, TickStep(t)
      PROVE  SlotInv'
  <2>1. CASE TickEnd(t)
    <3>1. /\ UNCHANGED <<row, run, due, fired>> /\ looping' = [looping EXCEPT ![t] = FALSE]
          /\ run[t].pc = "idle" /\ due[t] = {} /\ looping \in [Ticks -> BOOLEAN]
      BY <2>1 DEF TickEnd, rows, TypeOK
    <3> QED BY <3>1 DEF SlotInv, UnfiredNext, UnfiredRun, UnfiredDue, DueOnce, WorksInLoop
  <2>2. CASE RecordSuccess(t) \/ FailRead(t) \/ FailWrite(t)
    <3>1. UNCHANGED <<due, looping, fired>>
      BY <2>2 DEF RecordSuccess, FailRead, FailWrite, tickVars
    <3>2. \A c \in Conns : row'[c].next = row[c].next
      BY <1>0, <2>2 DEF RecordSuccess, FailRead, FailWrite, FailureCounted, rows, Row
    <3>3. \A q \in Runners \ {t} : run'[q] = run[q]
      BY <1>4, OtherRunsKept DEF Runners
    <3>4. /\ run[t].pc # "idle" /\ run'[t].pc \notin Triggering
          /\ run'[t].pc # "idle" => run'[t].conn = run[t].conn
      <4>0. run \in [Runners -> Run] /\ t \in Runners /\ run[t] \in Run
        BY DEF TypeOK, Runners
      <4>1. CASE RecordSuccess(t) \/ FailWrite(t)
        BY <4>0, <4>1 DEF RecordSuccess, FailWrite, IdleRun, Triggering
      <4>2. CASE FailRead(t)
        <5>1. run'[t].pc = "failWrite" /\ run'[t].conn = run[t].conn
          BY <4>0, <4>2 DEF FailRead, Run
        <5> QED BY <4>2, <5>1 DEF FailRead, Triggering
      <4> QED BY <2>2, <4>1, <4>2
    <3> QED BY <3>1, <3>2, <3>3, <3>4, SlotsKept DEF Runners
  <2> QED BY <1>4, <2>1, <2>2, SlotsAdvance, SlotsTickNext DEF TickStep
<1>5. ASSUME NEW a \in Admins, NEW enabled \in BOOLEAN, NEW paused \in BOOLEAN, NEW dry \in BOOLEAN,
             NEW cronChanged \in BOOLEAN, AdminWrite(a, enabled, paused, dry, cronChanged)
      PROVE  SlotInv'
  <2>1. CASE UNCHANGED vars
    BY <1>1, <2>1 DEF vars, rows, tickVars
  <2>2. CASE ~UNCHANGED vars
    <3>1. edit[a].saw.next = row[edit[a].conn].next
      BY <1>5, <2>2 DEF UpToDate
    <3> DEFINE k == edit[a].conn
               resuming == Resuming(edit[a].saw, enabled, paused)
               edited(next, when) ==
                 [row[k] EXCEPT !.enabled = enabled, !.paused = paused, !.dry = dry,
                                !.next = next, !.when = when,
                                !.auto = row[k].auto /\ ~resuming,
                                !.failures = IF resuming THEN 0 ELSE row[k].failures]
    <3>2. k \in Conns /\ row[k] \in Row
      BY <1>0, <1>5 DEF AdminWrite, TypeOK
    <3>3. \A next, when : edited(next, when).next = next
      BY <3>2 DEF Row
    <3>4. \/ row' = [row EXCEPT ![k] = edited(None, "future")]
          \/ row' = [row EXCEPT ![k] = edited(edit[a].saw.next, edit[a].saw.when)]
          \/ \E s \in NextOccurrence(k) : row' = [row EXCEPT ![k] = edited(s, "future")]
      BY <1>5 DEF AdminWrite
    <3>5. \A s \in NextOccurrence(k) : s # fired[k]
      BY <3>2, OccurrenceIsNew
    <3> HIDE DEF edited, k
    <3>6. \E next, when : /\ row' = [row EXCEPT ![k] = edited(next, when)]
                          /\ next \in {None, row[k].next} \/ next # fired[k]
      BY <3>1, <3>4, <3>5 DEF k
    <3>7. \A c \in Conns : row'[c].next \in {None, row[c].next} \/ row'[c].next # fired[c]
      BY <1>0, <3>2, <3>3, <3>6
    <3>8. UNCHANGED <<run, due, looping, fired>>
      BY <1>5 DEF AdminWrite, tickVars
    <3> QED BY <1>1, <3>7, <3>8
  <2> QED BY <2>1, <2>2
<1>6. ASSUME NEW a \in Admins, Edit(a)
      PROVE  SlotInv'
  <2>1. CASE AdminReject(a) \/ \E c \in Conns : AdminRead(a, c)
    BY <1>1, <2>1 DEF AdminRead, AdminReject, rows, tickVars
  <2> QED BY <1>5, <1>6, <2>1 DEF Edit
<1>7. CASE Time
  <2>1. \A c \in Conns : row'[c].next = row[c].next
    BY <1>0, <1>7 DEF Time, SlotDue, LogGoesStale, Row
  <2>2. UNCHANGED <<run, due, looping, fired>>
    BY <1>7 DEF Time, SlotDue, LogGoesStale, tickVars
  <2> QED BY <1>1, <2>1, <2>2
<1>8. CASE Boot
  <2>1. PICK next \in [Conns -> Slots \cup {None}] :
           /\ \A c \in Conns : next[c] \in NextOccurrence(c) \/ next[c] = None
           /\ row' = [c \in Conns |-> IF next[c] = None THEN row[c]
                                      ELSE [row[c] EXCEPT !.next = next[c], !.when = "future"]]
    BY <1>8 DEF Boot
  <2>2. ASSUME NEW c \in Conns
        PROVE  row'[c].next = row[c].next \/ row'[c].next # fired[c]
    <3>1. CASE next[c] = None
      BY <2>1, <3>1
    <3>2. CASE next[c] # None
      <4>1. row'[c].next = next[c]
        BY <1>0, <2>1, <3>2 DEF Row
      <4> QED BY <2>1, <3>2, <4>1, OccurrenceIsNew
    <3> QED BY <3>1, <3>2
  <2>3. UNCHANGED <<run, due, looping, fired>>
    BY <1>8 DEF Boot, tickVars
  <2> QED BY <1>1, <2>2, <2>3
<1>9. CASE Crash
  <2>1. /\ UNCHANGED <<row, fired>> /\ \A t \in Ticks : due'[t] = {} /\ run'[t].pc = "idle"
    BY <1>9 DEF Crash, rows, IdleRun, Runners
  <2> QED BY <2>1 DEF SlotInv, UnfiredNext, UnfiredRun, UnfiredDue, DueOnce, WorksInLoop, Triggering
<1>10. CASE UNCHANGED vars
  BY <1>1, <1>10 DEF vars, rows, tickVars
<1> QED BY <1>2, <1>3, <1>4, <1>6, <1>7, <1>8, <1>9, <1>10, SlotsTickStart DEF Next

\* The scheduler triggers an occurrence at most once, however many timers, callers, failures and
\* restarts there are, and with any number of administrators whose writes rest on the row as it is
\* (processDueConnection advances nextRunAt before it triggers the run).
THEOREM FiresOnce == Spec /\ EditsAreUpToDate => SlotFiresOnce
<1>1. Init => SlotInv
  <2> SUFFICES ASSUME Init PROVE SlotInv
    OBVIOUS
  <2>1. /\ \A c \in Conns : fired[c] = None
        /\ \A t \in Ticks : run[t].pc = "idle" /\ due[t] = {}
    BY DEF Init, IdleRun, Runners
  <2> QED BY <2>1 DEF SlotInv, UnfiredNext, UnfiredRun, UnfiredDue, DueOnce, WorksInLoop, Triggering
<1>2. SlotInv => \A t \in Ticks : run[t].pc = "advance" /\ run'[t].pc = "load" =>
                     run[t].slot # fired[run[t].conn]
  BY DEF SlotInv, UnfiredRun, Triggering
<1> QED BY <1>1, <1>2, TypeCorrect, NoOverlappingTicks, SlotStep, PTL DEF Spec, EditsAreUpToDate, SlotFiresOnce
=============================================================================
