--------------------------- MODULE SyncScheduler ---------------------------
(***************************************************************************)
(* Identity-sync runs of one NestIdP process and the scheduler that starts *)
(* them: SyncService.triggerSync (manual, "sync all" and scheduled         *)
(* callers), the sync_log rows, SyncSchedulerService.runTick and           *)
(* reconcileOnBoot, and the admin's SyncScheduleService.updateSchedule.    *)
(*                                                                         *)
(* Every await is a place where another caller may run, so each database   *)
(* call is a step of its own and a value read before it is kept in the     *)
(* caller's record.  What a run does to users, groups and roles is         *)
(* collapsed into its outcome.                                             *)
(***************************************************************************)
EXTENDS Naturals, FiniteSets

CONSTANTS
    Conns,        \* syncable (non-local) API connections
    Manual,       \* callers of triggerSync / syncAll outside the scheduler
    Ticks,        \* firings of the scheduler's interval timer that may be alive at once
    Admins,       \* callers of updateSchedule
    Logs,         \* identities of sync_log rows; a finished row nobody holds may be reused
    Slots,        \* identities of cron occurrences of a connection, reused likewise
    Threshold,    \* SYNC_SCHEDULE_FAILURE_AUTOPAUSE_THRESHOLD, 0 = never
    FailureCap,   \* bound: scheduleConsecutiveFailures is not counted above it
    MaxFaults,    \* bound: rejected database calls plus process crashes of a behaviour
    BootGrace,    \* TRUE when SYNC_SCHEDULE_BOOT_OVERDUE_GRACE_MINUTES > 0
    None

ASSUME SyncConstants ==
    /\ Threshold \in Nat /\ FailureCap \in Nat /\ MaxFaults \in Nat
    /\ Slots \subseteq Nat
    /\ BootGrace \in BOOLEAN
    /\ None \notin Conns \cup Logs \cup Slots
    /\ Manual \cap Ticks = {}

Runners == Manual \cup Ticks

SyncStatus == {"NEVER", "IN_PROGRESS", "SUCCESS", "FAILED"}

VARIABLES
    row,      \* the api_connection rows: schedule columns and lastSyncStatus
    log,      \* the sync_log rows
    run,      \* what each caller of triggerSync is awaiting, and what it read before
    due,      \* due[t]: connections tick t loaded as due and has not handled yet
    looping,  \* looping[t]: tick t is inside runTick
    ticking,  \* the scheduler's re-entrancy flag
    edit,     \* edit[a]: the connection and row updateSchedule read before its write
    up,       \* the process is running
    faults,   \* rejected database calls and crashes so far
    fired     \* history: the last slot of each connection the scheduler triggered

rows == <<row, log>>
tickVars == <<due, looping, ticking>>
vars == <<row, log, run, due, looping, ticking, edit, up, faults, fired>>

-----------------------------------------------------------------------------
(* State of the database and of the callers.                               *)

Row == [enabled: BOOLEAN, paused: BOOLEAN, auto: BOOLEAN, dry: BOOLEAN,
        failures: 0..FailureCap, status: SyncStatus,
        next: Slots \cup {None}, when: {"future", "due"}]

\* closed: finished (its outcome goes to the connection row) or not created yet.
Log == [state: {"closed", "RUNNING"},
        conn: Conns \cup {None}, stale: BOOLEAN, older: SUBSET Logs]

\* Where a caller is: the database call (or the sync work) it is about to make.
RunPC == {"idle", "pre", "precheck", "advance", "load", "guard", "reclaim", "reset",
          "create", "mark", "work", "finish", "settle",
          "recordOk", "failRead", "failWrite"}

Run == [pc: RunPC, conn: Conns \cup {None}, dry: BOOLEAN, slot: Slots \cup {None},
        log: Logs \cup {None}, stale: Logs \cup {None}, status: SyncStatus,
        auto: BOOLEAN, failures: 0..FailureCap, result: {"none", "SUCCESS", "FAILED", "threw"}]

Due == [conn: Conns, dry: BOOLEAN, slot: Slots]

NoRow == [enabled |-> FALSE, paused |-> FALSE, auto |-> FALSE, dry |-> FALSE, failures |-> 0,
          status |-> "NEVER", next |-> None, when |-> "future"]
NoLog == [state |-> "closed", conn |-> None, stale |-> FALSE, older |-> {}]
IdleRun == [pc |-> "idle", conn |-> None, dry |-> FALSE, slot |-> None, log |-> None,
            stale |-> None, status |-> "NEVER", auto |-> FALSE, failures |-> 0, result |-> "none"]

NoEdit == [conn |-> None, saw |-> NoRow]

OpenLogs(c) == {l \in Logs : log[l].state = "RUNNING" /\ log[l].conn = c}

\* getOpenRunningLog: the open log started last, or none.
NewestOpenLog(c) ==
    {l \in OpenLogs(c) : \A m \in OpenLogs(c) : l \notin log[m].older}

\* finishLog: status and finishedAt are written whatever the row said.
Close(l) == [m \in Logs |-> IF m = l THEN NoLog ELSE [log[m] EXCEPT !.older = @ \ {l}]]

HeldLogs == {run[r].log : r \in Runners} \cup {run[r].stale : r \in Runners}

\* Slots of connection c that some row or some caller still names.
UsedSlots(c) ==
    {row[c].next, fired[c]}
      \cup {run[t].slot : t \in {u \in Ticks : run[u].conn = c}}
      \cup {d.slot : d \in {e \in UNION {due[t] : t \in Ticks} : e.conn = c}}
      \cup {edit[a].saw.next : a \in {b \in Admins : edit[b].conn = c}}

\* computeNextRunAt: the next occurrence strictly after now; the least unused identity stands for it.
NextOccurrence(c) ==
    LET free == Slots \ UsedSlots(c) IN {s \in free : \A u \in free : s <= u}

\* Mutant: an open log is busy however old it is.
MutRealSyncInProgress(c, status) == OpenLogs(c) # {} \/ status = "IN_PROGRESS"

\* isRealSyncInProgress, given the status read one await earlier.
RealSyncInProgress(c, status) ==
    IF OpenLogs(c) # {} THEN \E l \in NewestOpenLog(c) : ~log[l].stale
    ELSE status = "IN_PROGRESS"

Eligible(c) ==
    /\ row[c].enabled /\ ~row[c].paused
    /\ row[c].next # None /\ row[c].when # "future"

\* What the scheduler keeps of the rows its findMany returned.
DueRows == {[conn |-> c, dry |-> row[c].dry, slot |-> row[c].next] : c \in {x \in Conns : Eligible(x)}}

Step(r, pc) == run' = [run EXCEPT ![r] = [@ EXCEPT !.pc = pc]]

\* triggerSync returns (result) or rejects ("threw"): an outside caller is done, the scheduler records it.
Return(r, result) ==
    run' = [run EXCEPT ![r] =
        IF r \in Manual THEN IdleRun
        ELSE [IdleRun EXCEPT !.conn = run[r].conn, !.result = result,
                             !.pc = IF result = "SUCCESS" THEN "recordOk" ELSE "failRead"]]

-----------------------------------------------------------------------------
(* triggerSync and its callers.                                            *)

\* POST sync: straight to triggerSync.
StartManual(r, c, dry) ==
    /\ up /\ run[r].pc = "idle"
    /\ run' = [run EXCEPT ![r] = [IdleRun EXCEPT !.pc = "load", !.conn = c, !.dry = dry]]
    /\ UNCHANGED <<rows, tickVars, edit, up, faults, fired>>

\* One worker of syncAll: a real run asks isSyncInProgress first.
StartSyncAll(r, c) ==
    /\ up /\ run[r].pc = "idle"
    /\ run' = [run EXCEPT ![r] = [IdleRun EXCEPT !.pc = "pre", !.conn = c]]
    /\ UNCHANGED <<rows, tickVars, edit, up, faults, fired>>

\* isSyncInProgress reads the connection ...
PreRead(r) ==
    /\ run[r].pc = "pre"
    /\ run' = [run EXCEPT ![r] = [@ EXCEPT !.pc = "precheck", !.status = row[run[r].conn].status]]
    /\ UNCHANGED <<rows, tickVars, edit, up, faults, fired>>

\* ... then the open log; a busy connection is skipped and its nextRunAt left alone.
PreCheckBusy(r) ==
    /\ run[r].pc = "precheck"
    /\ RealSyncInProgress(run[r].conn, run[r].status)
    /\ run' = [run EXCEPT ![r] = IdleRun]
    /\ UNCHANGED <<rows, tickVars, edit, up, faults, fired>>

PreCheckFree(r) ==
    /\ run[r].pc = "precheck"
    /\ ~RealSyncInProgress(run[r].conn, run[r].status)
    /\ run' = [run EXCEPT ![r] = [@ EXCEPT !.pc = IF r \in Ticks THEN "advance" ELSE "load", !.status = "NEVER"]]
    /\ UNCHANGED <<rows, tickVars, edit, up, faults, fired>>

\* beginRun loads the connection; connectionBefore is this row for the rest of the run.
Load(r) ==
    /\ run[r].pc = "load"
    /\ LET c == run[r].conn IN
       run' = [run EXCEPT ![r] = [@ EXCEPT !.pc = IF run[r].dry THEN "create" ELSE "guard",
                          !.status = IF run[r].dry THEN "NEVER" ELSE row[c].status,
                          !.auto = ~run[r].dry /\ row[c].auto]]
    /\ UNCHANGED <<rows, tickVars, edit, up, faults, fired>>

\* assertRealSyncNotInProgress, by what getOpenRunningLog returns.
GuardFree(r) ==
    /\ run[r].pc = "guard" /\ OpenLogs(run[r].conn) = {} /\ run[r].status # "IN_PROGRESS"
    /\ run' = [run EXCEPT ![r] = [@ EXCEPT !.pc = "create", !.status = "NEVER"]]
    /\ UNCHANGED <<rows, tickVars, edit, up, faults, fired>>

GuardStuck(r) ==
    /\ run[r].pc = "guard" /\ OpenLogs(run[r].conn) = {} /\ run[r].status = "IN_PROGRESS"
    /\ run' = [run EXCEPT ![r] = [@ EXCEPT !.pc = "reset", !.status = "NEVER"]]
    /\ UNCHANGED <<rows, tickVars, edit, up, faults, fired>>

GuardStale(r) ==
    /\ run[r].pc = "guard"
    /\ \E l \in NewestOpenLog(run[r].conn) :
           /\ log[l].stale
           /\ run' = [run EXCEPT ![r] = [@ EXCEPT !.pc = "reclaim", !.status = "NEVER", !.stale = l]]
    /\ UNCHANGED <<rows, tickVars, edit, up, faults, fired>>

\* Mutant: the conflict is reported as an outcome of its own.
MutGuardBusy(r) ==
    /\ run[r].pc = "guard"
    /\ \E l \in NewestOpenLog(run[r].conn) : ~log[l].stale
    /\ run' = [run EXCEPT ![r] = [@ EXCEPT !.pc = "conflict"]]
    /\ UNCHANGED <<rows, tickVars, edit, up, faults, fired>>

\* ConflictException: for the scheduler a failed scheduled run like any other rejection.
GuardBusy(r) ==
    /\ run[r].pc = "guard"
    /\ \E l \in NewestOpenLog(run[r].conn) : ~log[l].stale
    /\ Return(r, "threw")
    /\ UNCHANGED <<rows, tickVars, edit, up, faults, fired>>

\* finishLog(openLog, FAILED) on the stale log.
Reclaim(r) ==
    /\ run[r].pc = "reclaim"
    /\ log' = Close(run[r].stale)
    /\ run' = [run EXCEPT ![r] = [@ EXCEPT !.pc = "reset", !.stale = None]]
    /\ UNCHANGED <<row, tickVars, edit, up, faults, fired>>

ResetStatus(r) ==
    /\ run[r].pc = "reset"
    /\ row' = [row EXCEPT ![run[r].conn].status = "FAILED"]
    /\ Step(r, "create")
    /\ UNCHANGED <<log, tickVars, edit, up, faults, fired>>

\* createRunningLog; a row no caller holds and that is closed may be taken again.
CreateLog(r) ==
    /\ run[r].pc = "create"
    /\ \E l \in Logs \ HeldLogs :
           /\ log[l].state = "closed"
           /\ log' = [log EXCEPT ![l] = [state |-> "RUNNING", conn |-> run[r].conn,
                                         stale |-> FALSE, older |-> OpenLogs(run[r].conn)]]
           /\ run' = [run EXCEPT ![r] = [@ EXCEPT !.pc = IF run[r].dry THEN "work" ELSE "mark", !.log = l]]
    /\ UNCHANGED <<row, tickVars, edit, up, faults, fired>>

MarkInProgress(r) ==
    /\ run[r].pc = "mark"
    /\ row' = [row EXCEPT ![run[r].conn].status = "IN_PROGRESS"]
    /\ Step(r, "work")
    /\ UNCHANGED <<log, tickVars, edit, up, faults, fired>>

\* Phases A, B and C; every rejection inside them is caught and makes the run FAILED.
Work(r, result) ==
    /\ run[r].pc = "work"
    /\ run' = [run EXCEPT ![r] = [@ EXCEPT !.pc = "finish", !.result = result]]
    /\ UNCHANGED <<rows, tickVars, edit, up, faults, fired>>

\* finalizeRun: finishLog, unconditionally (the log may have been reclaimed meanwhile) ...
FinishLog(r) ==
    /\ run[r].pc = "finish"
    /\ log' = Close(run[r].log)
    /\ IF run[r].dry THEN Return(r, run[r].result)
       ELSE run' = [run EXCEPT ![r] = [@ EXCEPT !.pc = "settle", !.log = None]]
    /\ UNCHANGED <<row, tickVars, edit, up, faults, fired>>

\* ... then the connection row.
SettleSuccess(r) ==
    /\ run[r].pc = "settle" /\ run[r].result = "SUCCESS"
    /\ LET c == run[r].conn IN
       row' = [row EXCEPT ![c].status = "SUCCESS", ![c].failures = 0, ![c].auto = FALSE,
                          ![c].paused = row[c].paused /\ ~run[r].auto]
    /\ Return(r, "SUCCESS")
    /\ UNCHANGED <<log, tickVars, edit, up, faults, fired>>

\* Mutant: a failed run leaves lastSyncStatus as it is.
MutSettleFailed(r) ==
    /\ run[r].pc = "settle" /\ run[r].result = "FAILED"
    /\ Return(r, "FAILED")
    /\ UNCHANGED <<rows, tickVars, edit, up, faults, fired>>

SettleFailed(r) ==
    /\ run[r].pc = "settle" /\ run[r].result = "FAILED"
    /\ row' = [row EXCEPT ![run[r].conn].status = "FAILED"]
    /\ Return(r, "FAILED")
    /\ UNCHANGED <<log, tickVars, edit, up, faults, fired>>

-----------------------------------------------------------------------------
(* SyncSchedulerService.                                                   *)

\* The interval fires runTick: a tick already running makes it return, otherwise due rows are loaded.
TickStart(t) ==
    /\ up /\ ~looping[t] /\ ~ticking
    /\ ticking' = TRUE
    /\ looping' = [looping EXCEPT ![t] = TRUE]
    /\ due' = [due EXCEPT ![t] = DueRows]
    /\ UNCHANGED <<rows, run, edit, up, faults, fired>>

\* processDueConnection on the row as loaded at the start of the tick.
TickNext(t, d) ==
    /\ looping[t] /\ run[t].pc = "idle" /\ d \in due[t]
    /\ due' = [due EXCEPT ![t] = @ \ {d}]
    /\ run' = [run EXCEPT ![t] = [IdleRun EXCEPT !.pc = "pre", !.conn = d.conn,
                                                 !.dry = d.dry, !.slot = d.slot]]
    /\ UNCHANGED <<rows, looping, ticking, edit, up, faults, fired>>

\* Mutant: the flag stays set after a tick with nothing left to do.
MutTickEnd(t) ==
    /\ looping[t] /\ run[t].pc = "idle" /\ due[t] = {}
    /\ looping' = [looping EXCEPT ![t] = FALSE]
    /\ UNCHANGED <<rows, run, due, ticking, edit, up, faults, fired>>

TickEnd(t) ==
    /\ looping[t] /\ run[t].pc = "idle" /\ due[t] = {}
    /\ looping' = [looping EXCEPT ![t] = FALSE]
    /\ ticking' = FALSE
    /\ UNCHANGED <<rows, run, due, edit, up, faults, fired>>

\* Mutant: nextRunAt is left for later.
MutAdvance(t) ==
    /\ run[t].pc = "advance"
    /\ fired' = [fired EXCEPT ![run[t].conn] = run[t].slot]
    /\ run' = [run EXCEPT ![t] = [@ EXCEPT !.pc = "load", !.slot = None]]
    /\ UNCHANGED <<rows, tickVars, edit, up, faults>>

\* The slot is spent before the run is triggered, whatever the row says by now.
Advance(t) ==
    /\ run[t].pc = "advance"
    /\ LET c == run[t].conn IN
       /\ \E s \in NextOccurrence(c) : row' = [row EXCEPT ![c].next = s, ![c].when = "future"]
       /\ fired' = [fired EXCEPT ![c] = run[t].slot]
    /\ run' = [run EXCEPT ![t] = [@ EXCEPT !.pc = "load", !.slot = None]]
    /\ UNCHANGED <<log, tickVars, edit, up, faults>>

\* lastScheduledRunStatus = SUCCESS: no column another step reads.
RecordSuccess(t) ==
    /\ run[t].pc = "recordOk"
    /\ run' = [run EXCEPT ![t] = IdleRun]
    /\ UNCHANGED <<rows, tickVars, edit, up, faults, fired>>

\* handleScheduledFailure reads the counter ...
FailRead(t) ==
    /\ run[t].pc = "failRead"
    /\ run' = [run EXCEPT ![t] = [@ EXCEPT !.pc = "failWrite", !.failures = row[run[t].conn].failures]]
    /\ UNCHANGED <<rows, tickVars, edit, up, faults, fired>>

\* The counter as read plus one, and the pause once it reaches the limit.
FailureCounted(c, read, limit) ==
    LET failures == IF read < FailureCap THEN read + 1 ELSE FailureCap
        pause == Threshold > 0 /\ failures >= limit
    IN row' = [row EXCEPT ![c].failures = failures,
                          ![c].paused = row[c].paused \/ pause,
                          ![c].auto = row[c].auto \/ pause]

\* Mutant: the threshold itself does not pause.
MutFailWrite(t) ==
    /\ run[t].pc = "failWrite"
    /\ FailureCounted(run[t].conn, run[t].failures, Threshold + 1)
    /\ run' = [run EXCEPT ![t] = IdleRun]
    /\ UNCHANGED <<log, tickVars, edit, up, faults, fired>>

\* ... and writes it back incremented, pausing the schedule at the threshold.
FailWrite(t) ==
    /\ run[t].pc = "failWrite"
    /\ FailureCounted(run[t].conn, run[t].failures, Threshold)
    /\ run' = [run EXCEPT ![t] = IdleRun]
    /\ UNCHANGED <<log, tickVars, edit, up, faults, fired>>

-----------------------------------------------------------------------------
(* SyncScheduleService.updateSchedule.                                     *)

AdminRead(a, c) ==
    /\ up /\ edit[a] = NoEdit
    /\ edit' = [edit EXCEPT ![a] = [conn |-> c, saw |-> row[c]]]
    /\ UNCHANGED <<rows, run, tickVars, up, faults, fired>>

\* Mutant: re-enabling keeps whatever instant was stored.
MutKeepsNext(saw, enabled, cronChanged) == enabled /\ ~cronChanged

\* resolveNextRunAt keeps the instant that was read unless the cadence changes.
KeepsNext(saw, enabled, cronChanged) ==
    enabled /\ ~cronChanged /\ saw.enabled /\ saw.next # None

Resuming(saw, enabled, paused) ==
    enabled /\ ~paused /\ (saw.auto \/ saw.paused \/ ~saw.enabled)

\* enabled, paused and dry are the effective values: the body's, or the ones read when it omits them.
AdminWrite(a, enabled, paused, dry, cronChanged) ==
    LET c == edit[a].conn
        saw == edit[a].saw
        resuming == Resuming(saw, enabled, paused)
        edited(next, when) ==
            [row[c] EXCEPT !.enabled = enabled, !.paused = paused, !.dry = dry,
                           !.next = next, !.when = when,
                           !.auto = row[c].auto /\ ~resuming,
                           !.failures = IF resuming THEN 0 ELSE row[c].failures]
    IN /\ edit[a] # NoEdit
       /\ \/ ~enabled /\ row' = [row EXCEPT ![c] = edited(None, "future")]
          \/ /\ KeepsNext(saw, enabled, cronChanged)
             /\ row' = [row EXCEPT ![c] = edited(saw.next, saw.when)]
          \/ /\ enabled /\ ~KeepsNext(saw, enabled, cronChanged)
             /\ \E s \in NextOccurrence(c) : row' = [row EXCEPT ![c] = edited(s, "future")]
       /\ edit' = [edit EXCEPT ![a] = NoEdit]
       /\ UNCHANGED <<log, run, tickVars, up, faults, fired>>

\* A schedule that validateCronSchedule refuses: nothing is written.
AdminReject(a) ==
    /\ edit[a] # NoEdit
    /\ edit' = [edit EXCEPT ![a] = NoEdit]
    /\ UNCHANGED <<rows, run, tickVars, up, faults, fired>>

-----------------------------------------------------------------------------
(* Time, failures of the database and of the process.                      *)

SlotDue(c) ==
    /\ row[c].next # None /\ row[c].when = "future"
    /\ row' = [row EXCEPT ![c].when = "due"]
    /\ UNCHANGED <<log, run, tickVars, edit, up, faults, fired>>

\* A run outlives SYNC_STALE_RUN_MINUTES; logs started earlier are stale by then.
LogGoesStale(l) ==
    /\ log[l].state = "RUNNING" /\ ~log[l].stale
    /\ \A m \in log[l].older : log[m].state = "RUNNING" => log[m].stale
    /\ log' = [log EXCEPT ![l].stale = TRUE]
    /\ UNCHANGED <<row, run, tickVars, edit, up, faults, fired>>

\* The database call a caller awaits rejects, and its write does not happen.
Throw(r) ==
    /\ faults < MaxFaults
    /\ faults' = faults + 1
    /\ \/ /\ run[r].pc \in {"pre", "precheck", "advance"}   \* recordCronError, next connection
          /\ run' = [run EXCEPT ![r] = IdleRun]
       \/ /\ run[r].pc \in {"load", "guard", "reclaim", "reset", "create", "mark", "finish", "settle"}
          /\ Return(r, "threw")
       \/ /\ run[r].pc = "recordOk"                          \* a success then counted as a failure
          /\ run' = [run EXCEPT ![r] = [@ EXCEPT !.pc = "failRead", !.result = "threw"]]
       \/ /\ run[r].pc \in {"failRead", "failWrite"} /\ run[r].result = "FAILED"
          /\ run' = [run EXCEPT ![r] = [@ EXCEPT !.pc = "failRead", !.failures = 0, !.result = "threw"]]
       \/ /\ run[r].pc \in {"failRead", "failWrite"} /\ run[r].result = "threw"
          /\ run' = [run EXCEPT ![r] = IdleRun]
    /\ UNCHANGED <<rows, tickVars, edit, up, fired>>

Crash ==
    /\ up /\ faults < MaxFaults
    /\ faults' = faults + 1
    /\ up' = FALSE
    /\ run' = [r \in Runners |-> IdleRun]
    /\ due' = [t \in Ticks |-> {}]
    /\ looping' = [t \in Ticks |-> FALSE]
    /\ ticking' = FALSE
    /\ edit' = [a \in Admins |-> NoEdit]
    /\ UNCHANGED <<rows, fired>>

\* Mutant: an occurrence missed while down is cleared, not replaced.
MutBoot ==
    /\ ~up
    /\ up' = TRUE
    /\ row' = [c \in Conns |->
          IF row[c].enabled /\ ~row[c].paused /\ row[c].when = "due"
          THEN [row[c] EXCEPT !.next = None, !.when = "future"] ELSE row[c]]
    /\ UNCHANGED <<log, run, tickVars, edit, faults, fired>>

\* onModuleInit: reconcileOnBoot finishes before the timer and the HTTP server start.  A missing or
\* overdue occurrence moves to the next one, except an overdue one within the grace.
Boot ==
    /\ ~up
    /\ up' = TRUE
    /\ \E kept \in SUBSET {c \in Conns : row[c].next # None /\ (row[c].when = "due" => BootGrace)} :
       \E next \in [Conns -> Slots \cup {None}] :
          /\ {c \in Conns : row[c].when = "future" /\ row[c].next # None} \subseteq kept
          /\ \A c \in Conns :
                IF row[c].enabled /\ ~row[c].paused /\ c \notin kept
                THEN next[c] \in NextOccurrence(c) ELSE next[c] = None
          /\ row' = [c \in Conns |-> IF next[c] = None THEN row[c]
                                     ELSE [row[c] EXCEPT !.next = next[c], !.when = "future"]]
    /\ UNCHANGED <<log, run, tickVars, edit, faults, fired>>

-----------------------------------------------------------------------------
\* A connection without a schedule, or with one whose first occurrence lies ahead.
InitialRows ==
    LET first == {s \in Slots : \A u \in Slots : s <= u}
    IN {NoRow} \cup {x \in Row : \E dry \in BOOLEAN, s \in first :
                        x = [NoRow EXCEPT !.enabled = TRUE, !.dry = dry, !.next = s]}

Init ==
    /\ row \in [Conns -> InitialRows]
    /\ log = [l \in Logs |-> NoLog]
    /\ run = [r \in Runners |-> IdleRun]
    /\ due = [t \in Ticks |-> {}]
    /\ looping = [t \in Ticks |-> FALSE]
    /\ ticking = FALSE
    /\ edit = [a \in Admins |-> NoEdit]
    /\ up = TRUE
    /\ faults = 0
    /\ fired = [c \in Conns |-> None]

\* The steps of a run that is under way, whoever started it.
RunStep(r) ==
    \/ PreRead(r) \/ PreCheckBusy(r) \/ PreCheckFree(r)
    \/ Load(r) \/ GuardFree(r) \/ GuardStuck(r) \/ GuardStale(r) \/ GuardBusy(r)
    \/ Reclaim(r) \/ ResetStatus(r) \/ CreateLog(r) \/ MarkInProgress(r)
    \/ \E result \in {"SUCCESS", "FAILED"} : Work(r, result)
    \/ FinishLog(r) \/ SettleSuccess(r) \/ SettleFailed(r)

TickStep(t) ==
    \/ \E d \in due[t] : TickNext(t, d)
    \/ TickEnd(t) \/ Advance(t) \/ RecordSuccess(t) \/ FailRead(t) \/ FailWrite(t)

Caller(r) ==
    \E c \in Conns : StartSyncAll(r, c) \/ \E dry \in BOOLEAN : StartManual(r, c, dry)

Edit(a) ==
    \/ \E c \in Conns : AdminRead(a, c)
    \/ AdminReject(a)
    \/ \E enabled, paused, dry, cronChanged \in BOOLEAN : AdminWrite(a, enabled, paused, dry, cronChanged)

Time ==
    \/ \E c \in Conns : SlotDue(c)
    \/ \E l \in Logs : LogGoesStale(l)

Next ==
    \/ \E r \in Runners : RunStep(r) \/ Throw(r)
    \/ \E r \in Manual : Caller(r)
    \/ \E t \in Ticks : TickStart(t) \/ TickStep(t)
    \/ \E a \in Admins : Edit(a)
    \/ Time \/ Crash \/ Boot

Spec == Init /\ [][Next]_vars

(***************************************************************************)
(* Node's event loop resumes every pending continuation; the identity      *)
(* client and the database have time limits, so an awaited call answers;   *)
(* the interval keeps firing; wall-clock time passes; a crashed container  *)
(* is restarted.  Nothing obliges an outside caller or an admin to act.    *)
(***************************************************************************)
Fairness ==
    /\ \A r \in Runners : WF_vars(RunStep(r))
    /\ \A t \in Ticks : WF_vars(TickStep(t))
    /\ WF_vars(\E t \in Ticks : TickStart(t))
    /\ \A l \in Logs : WF_vars(LogGoesStale(l))
    /\ WF_vars(Boot)

FairSpec == Spec /\ Fairness

-----------------------------------------------------------------------------
(* Properties.                                                             *)

TypeOK ==
    /\ row \in [Conns -> Row]
    /\ log \in [Logs -> Log]
    /\ run \in [Runners -> Run]
    /\ \A r \in Runners : run[r].pc # "idle" => run[r].conn \in Conns
    /\ due \in [Ticks -> SUBSET Due]
    /\ looping \in [Ticks -> BOOLEAN]
    /\ ticking \in BOOLEAN
    /\ edit \in [Admins -> [conn: Conns \cup {None}, saw: Row]]
    /\ \A a \in Admins : edit[a] = NoEdit \/ edit[a].conn \in Conns
    /\ up \in BOOLEAN
    /\ faults \in 0..MaxFaults
    /\ fired \in [Conns -> Slots \cup {None}]

\* Two firings of the interval timer never load and process due connections at the same time, however
\* long the syncs of one tick take (the ticking flag of runTick).
TicksDoNotOverlap ==
    \A t, u \in Ticks : looping[t] /\ looping[u] => t = u

\* As long as no database call was rejected and the process did not crash, lastSyncStatus says
\* IN_PROGRESS only while some real run still has its final update of the row ahead of it: whatever
\* the interleaving of overlapping runs and stale reclaims, the status cannot get stuck (beginRun,
\* finalizeRun, assertRealSyncNotInProgress).
InProgressHasRunner ==
    faults = 0 =>
        \A c \in Conns : row[c].status = "IN_PROGRESS" =>
            \E r \in Runners : run[r].conn = c /\ ~run[r].dry /\ run[r].pc \in {"work", "finish", "settle"}

\* Without rejected calls and crashes every RUNNING log belongs to a run that will finish it.
OpenLogHasRunner ==
    faults = 0 =>
        \A l \in Logs : log[l].state = "RUNNING" =>
            \E r \in Runners : /\ run[r].log = l /\ run[r].conn = log[l].conn
                              /\ run[r].pc \in {"mark", "work", "finish"}

\* Two runs never write the outcome of the same sync_log row, even when one of them was reclaimed as
\* stale and the row's successor was created meanwhile.
RunsHoldDistinctLogs ==
    \A r, s \in Runners : run[r].log # None /\ run[r].log = run[s].log => r = s

\* A run closes a log it did not create only when that log had passed the stale limit: a healthy run
\* is not reclaimed by the guard of another one.
OnlyStaleRunsReclaimed ==
    [][\A l \in Logs :
          log[l].state = "RUNNING" /\ log'[l].state # "RUNNING" =>
             log[l].stale \/ \E r \in Runners : run[r].log = l /\ run[r].pc = "finish"]_vars

\* The scheduler triggers one cron occurrence of a connection at most once, whatever fails after the
\* slot was spent and however long the run takes (processDueConnection advances nextRunAt first).
SlotFiresOnce ==
    [][\A t \in Ticks : run[t].pc = "advance" /\ run'[t].pc = "load" =>
          run[t].slot # fired[run[t].conn]]_vars

\* A connection that failed Threshold scheduled runs in a row and was not successful since is paused,
\* and the marker of an automatic pause is never on a schedule that still runs.
AutoPauseStops ==
    \A c \in Conns :
        /\ row[c].auto => row[c].paused
        /\ Threshold > 0 /\ row[c].failures >= Threshold => row[c].paused /\ row[c].auto

\* An enabled schedule never loses its cadence: some next occurrence is stored whatever updateSchedule,
\* the scheduler and a restart did to the row concurrently.
EnabledHasNextRun ==
    \A c \in Conns : row[c].enabled => row[c].next # None

\* Nobody outside the scheduler keeps starting syncs (one always in the way starves the pre-check).
CallersFallQuiet == <>[](\A r \in Manual : run[r].pc = "idle")

AwaitsTrigger(c, s) == Eligible(c) /\ row[c].next = s

\* A due slot of an enabled schedule is spent on a run, or the schedule is paused or changed: failing
\* runs, conflicts and hung runs of other callers never block it for good.
DueIsServed ==
    CallersFallQuiet => \A c \in Conns, s \in Slots : AwaitsTrigger(c, s) ~> ~AwaitsTrigger(c, s)

\* What a crash or a rejected update between finishLog and the row's last write leaves behind.
StrandedInProgress(c) ==
    /\ row[c].status = "IN_PROGRESS" /\ OpenLogs(c) = {}
    /\ \A r \in Runners : run[r].conn # c

\* The same with crashes and rejected calls: a due slot is served unless the connection was left
\* IN_PROGRESS with no open log, so open logs of dead runs (once stale) and restarts never block it.
DueIsServedUnlessStranded ==
    CallersFallQuiet => \A c \in Conns, s \in Slots :
        AwaitsTrigger(c, s) ~> (~AwaitsTrigger(c, s) \/ StrandedInProgress(c))

-----------------------------------------------------------------------------
(* What the documentation says and the interleavings above contradict.     *)

\* docs/development.md:326 "only one real sync per connection", stale runs (documented there) apart.
OneRealRunPerConnection ==
    \A r, s \in Runners :
        /\ \A x \in {r, s} : /\ run[x].pc \in {"mark", "work", "finish"} /\ ~run[x].dry
                            /\ log[run[x].log].state = "RUNNING" /\ ~log[run[x].log].stale
        /\ run[r].conn = run[s].conn
        => r = s
=============================================================================
