-------------------------- MODULE IdentityDatabase --------------------------
(***************************************************************************)
(* The external identity database of NestIdP: an administrator attaches a  *)
(* database at run time (connect), brings the copy up to date (resync) and *)
(* detaches it (disconnect), while logins, syncs and administrators go on  *)
(* writing identities through the store that is active at that moment.  In *)
(* relocate mode the external database becomes the store and the local     *)
(* rows are wiped; in mirror mode the local rows stay and every write      *)
(* triggers a reconcile of the copy in the background.                     *)
(*                                                                         *)
(* Every await of the three operations, of the reconcile and of a write is *)
(* a step, each may be cut short by a restart, and each call of the        *)
(* external database may be rejected.  An identity is present or absent: a *)
(* changed row is a row.  The configuration row is in the local database,  *)
(* whose status updates do not fail here except for the one connect        *)
(* depends on.                                                             *)
(***************************************************************************)
EXTENDS Naturals, FiniteSets

CONSTANTS
    Ids,        \* identities
    Dbs,        \* external databases
    MaxOps,     \* bound: calls of the administrator
    MaxWrites,  \* bound: writes of identities
    None

ASSUME IdentityDatabaseConstants == None \notin Dbs /\ MaxOps \in Nat /\ MaxWrites \in Nat

VARIABLES
    local, ext, backup,  \* rows of the local store, of each external database, and of the backup files
    cfg,                 \* the configuration row, or None
    store,               \* the active store: "local", "mirror" (local with write-through) or "external"
    active,              \* the database the service holds a connection pool of
    op,                  \* the operation that holds the lock
    rec,                 \* the mirror reconcile in progress
    queued, flags,       \* another reconcile is wanted; updates of outOfSync on their way
    write,               \* a write in flight, bound to the store that was active when it began
    truth,               \* history: identities whose last write to return stored them
    late,                \* history: of them, stored while the stores were being swapped or disagreed
    left,                \* history: of them, not moved back by a disconnect that was asked to
    missed,              \* history: identities the copy may differ in for a reason the write-through does not see
    cleared,             \* history: those it differed in when Re-sync cleared the flag
    ops, writes          \* bounded counters

data == <<local, ext, backup>>
mirror == <<rec, queued, flags>>
history == <<truth, late, left, missed, cleared>>
vars == <<data, cfg, store, active, op, mirror, write, history, ops, writes>>

Config == [status: {"migrating", "active", "error"}, mode: {"relocate", "mirror"}, db: Dbs, outOfSync: BOOLEAN]

Op == [pc: {"idle", "export", "import", "backup", "wipe", "connected", "activate", "read", "push", "clear",
            "fetch", "restore", "revert", "drop"},
       ack: BOOLEAN, move: BOOLEAN, snap: SUBSET Ids]
NoOp == [pc |-> "idle", ack |-> FALSE, move |-> FALSE, snap |-> {}]

Rec == [pc: {"idle", "export", "wipe", "import", "mark"}, db: Dbs \cup {None}, snap: SUBSET Ids]
NoRec == [pc |-> "idle", db |-> None, snap |-> {}]

Write == [id: Ids, put: BOOLEAN, store: {"local", "mirror", "external"}]

\* None is not a record.
ASSUME NoneIsNoRecord == None \notin Config \cup Write

Relocated == cfg # None /\ cfg.mode = "relocate"

\* The identities in which the local store and a database differ.
Difference(d) == (local \ ext[d]) \cup (ext[d] \ local)
Goto(pc) == op' = [op EXCEPT !.pc = pc]

-----------------------------------------------------------------------------
(* Writes of identities, by whoever uses the store.                        *)

BeginWrite(x, put) ==
    /\ write = None /\ writes < MaxWrites /\ writes' = writes + 1
    /\ write' = [id |-> x, put |-> put, store |-> store]
    /\ UNCHANGED <<data, cfg, store, active, op, mirror, history, ops>>

Applied(S) == IF write.put THEN S \cup {write.id} ELSE S \ {write.id}

\* The write went to a store that is being replaced, or that another store will hide.
TooLate ==
    \/ write.store \in {"local", "mirror"} /\ Relocated
    \/ write.store = "external" /\ (~Relocated \/ op.pc \in {"restore", "revert", "drop"})

Returned ==
    /\ truth' = Applied(truth)
    /\ late' = IF write.put /\ TooLate THEN late \cup {write.id} ELSE late \ {write.id}
    /\ left' = left \ {write.id}

\* requestMirrorReconcile: a reconcile starts, or the running one is repeated.
RequestReconcile ==
    \/ rec.pc # "idle" /\ queued' = TRUE /\ UNCHANGED rec
    \/ rec.pc = "idle" /\ active # None /\ rec' = [NoRec EXCEPT !.pc = "export", !.db = active] /\ UNCHANGED queued
    \/ rec.pc = "idle" /\ active = None /\ UNCHANGED <<rec, queued>>

WriteLocal ==
    /\ write # None /\ write.store = "local"
    /\ local' = Applied(local)
    /\ missed' = IF cfg = None THEN missed ELSE missed \cup {write.id}
    /\ Returned /\ write' = None
    /\ UNCHANGED <<ext, backup, cfg, store, active, op, mirror, cleared, ops, writes>>

\* createMirroringStore: after the write the copy is flagged and a reconcile requested.
WriteMirrored ==
    /\ write # None /\ write.store = "mirror"
    /\ local' = Applied(local)
    /\ RequestReconcile /\ flags' = flags + 1
    /\ Returned /\ write' = None
    /\ UNCHANGED <<ext, backup, cfg, store, active, op, missed, cleared, ops, writes>>

WriteExternal ==
    /\ write # None /\ write.store = "external" /\ active # None
    /\ ext' = [ext EXCEPT ![active] = Applied(@)]
    /\ Returned /\ write' = None
    /\ UNCHANGED <<local, backup, cfg, store, active, op, mirror, missed, cleared, ops, writes>>

\* The call is rejected, or fails fast: the caller knows that nothing was stored.
WriteRejected ==
    /\ write # None /\ write' = None
    /\ UNCHANGED <<data, cfg, store, active, op, mirror, history, ops, writes>>

-----------------------------------------------------------------------------
(* The mirror reconcile: export, wipe, import, clear the flag.             *)

Flag(sync) == cfg' = IF cfg = None THEN None ELSE [cfg EXCEPT !.outOfSync = sync]

\* The update of outOfSync that flagDrift does not wait for.
FlagLands ==
    /\ flags > 0 /\ flags' = flags - 1
    /\ Flag(TRUE)
    /\ UNCHANGED <<data, store, active, op, rec, queued, write, history, ops, writes>>

\* What differed before the export is repaired, or flagged.
RecExport ==
    /\ rec.pc = "export"
    /\ rec' = [rec EXCEPT !.pc = "wipe", !.snap = local]
    /\ missed' = {} /\ cleared' = {}
    /\ UNCHANGED <<data, cfg, store, active, op, queued, flags, write, truth, late, left, ops, writes>>

RecWipe ==
    /\ rec.pc = "wipe" /\ rec.db # None
    /\ ext' = [ext EXCEPT ![rec.db] = {}]
    /\ rec' = [rec EXCEPT !.pc = "import"]
    /\ UNCHANGED <<local, backup, cfg, store, active, op, queued, flags, write, history, ops, writes>>

RecImport ==
    /\ rec.pc = "import" /\ rec.db # None
    /\ ext' = [ext EXCEPT ![rec.db] = @ \cup rec.snap]
    /\ rec' = [rec EXCEPT !.pc = "mark"]
    /\ UNCHANGED <<local, backup, cfg, store, active, op, queued, flags, write, history, ops, writes>>

\* Mutant: a request made during the reconcile is taken for answered by it.
MutDrain ==
    /\ queued' = FALSE
    /\ rec' = NoRec

\* drainMirrorReconcile: once more when something was written meanwhile.
Drain ==
    /\ queued' = FALSE
    /\ rec' = IF queued /\ active # None THEN [NoRec EXCEPT !.pc = "export", !.db = active] ELSE NoRec

RecMark ==
    /\ rec.pc = "mark"
    /\ Flag(FALSE)
    /\ Drain
    /\ UNCHANGED <<data, store, active, op, flags, write, history, ops, writes>>

\* The database rejects a call, or the pool is closed; part of the rows may be in.
RecFails ==
    /\ rec.pc \in {"wipe", "import"}
    /\ \E part \in SUBSET rec.snap :
          ext' = IF rec.pc = "import" /\ rec.db # None THEN [ext EXCEPT ![rec.db] = @ \cup part] ELSE ext
    /\ Flag(TRUE)
    /\ Drain
    /\ UNCHANGED <<local, backup, store, active, op, flags, write, history, ops, writes>>

-----------------------------------------------------------------------------
(* connect.                                                                *)

\* The administrator's calls are further apart than a write or a reconcile takes.
Settled == rec.pc = "idle" /\ flags = 0 /\ (write # None => write.store = store)

\* The console offers connect when nothing is configured.
BeginConnect(d, mode, ack) ==
    /\ op = NoOp /\ cfg = None /\ Settled /\ ops < MaxOps /\ ops' = ops + 1
    /\ cfg' = [status |-> "migrating", mode |-> mode, db |-> d, outOfSync |-> FALSE]
    /\ op' = [NoOp EXCEPT !.pc = "export", !.ack = ack]
    /\ missed' = {} /\ cleared' = {}
    /\ UNCHANGED <<data, store, active, mirror, write, truth, late, left, writes>>

ExportLocal ==
    /\ op.pc = "export"
    /\ op' = [op EXCEPT !.pc = "import", !.snap = local]
    /\ UNCHANGED <<data, cfg, store, active, mirror, write, history, ops, writes>>

\* Rows are inserted or updated, none is deleted.
Import ==
    /\ op.pc = "import"
    /\ ext' = [ext EXCEPT ![cfg.db] = @ \cup op.snap]
    /\ Goto(IF Relocated /\ op.ack THEN "backup" ELSE "connected")
    /\ UNCHANGED <<local, backup, cfg, store, active, mirror, write, history, ops, writes>>

BackupLocal ==
    /\ op.pc = "backup"
    /\ backup' = backup \cup local
    /\ Goto("wipe")
    /\ UNCHANGED <<local, ext, cfg, store, active, mirror, write, history, ops, writes>>

WipeLocal ==
    /\ op.pc = "wipe"
    /\ local' = {}
    /\ Goto("connected")
    /\ UNCHANGED <<ext, backup, cfg, store, active, mirror, write, history, ops, writes>>

MarkConnected ==
    /\ op.pc = "connected"
    /\ cfg' = [cfg EXCEPT !.status = "active", !.outOfSync = FALSE]
    /\ missed' = missed \cup (ext[cfg.db] \ local)
    /\ Goto("activate")
    /\ UNCHANGED <<data, store, active, mirror, write, truth, late, left, cleared, ops, writes>>

Mode == IF Relocated THEN "external" ELSE "mirror"

Activate ==
    /\ op.pc = "activate"
    /\ active' = cfg.db /\ store' = Mode
    /\ op' = NoOp
    /\ UNCHANGED <<data, cfg, mirror, write, history, ops, writes>>

\* A step rejects: the status is error, and the store is what it was.
ConnectFails ==
    /\ op.pc \in {"export", "import", "backup", "wipe", "connected", "activate"}
    /\ \E part \in SUBSET op.snap :
          ext' = IF op.pc = "import" THEN [ext EXCEPT ![cfg.db] = @ \cup part] ELSE ext
    /\ \/ UNCHANGED active
       \/ op.pc = "activate" /\ active' = cfg.db
    /\ cfg' = [cfg EXCEPT !.status = "error"]
    /\ op' = NoOp
    /\ UNCHANGED <<local, backup, store, mirror, write, history, ops, writes>>

-----------------------------------------------------------------------------
(* resync.                                                                 *)

BeginResync ==
    /\ op = NoOp /\ cfg # None /\ cfg.status = "active" /\ ops < MaxOps /\ ops' = ops + 1
    /\ op' = [NoOp EXCEPT !.pc = IF Relocated \/ active = None THEN "clear" ELSE "read"]
    /\ UNCHANGED <<data, cfg, store, active, mirror, write, history, writes>>

ResyncRead ==
    /\ op.pc = "read"
    /\ op' = [op EXCEPT !.pc = "push", !.snap = local]
    /\ UNCHANGED <<data, cfg, store, active, mirror, write, history, ops, writes>>

\* An upsert, too: what the local store no longer has stays in the copy.
ResyncPush ==
    /\ op.pc = "push"
    /\ ext' = [ext EXCEPT ![active] = @ \cup op.snap]
    /\ missed' = missed \cup (ext'[active] \ local)
    /\ Goto("clear")
    /\ UNCHANGED <<local, backup, cfg, store, active, mirror, write, truth, late, left, cleared, ops, writes>>

\* Whether the copy is up to date is not looked at; without a connection nothing was pushed at all.
ResyncClear ==
    /\ op.pc = "clear"
    /\ Flag(FALSE)
    /\ cleared' = IF rec.pc = "idle" /\ flags = 0 THEN cleared \cup Difference(cfg.db) ELSE cleared
    /\ op' = NoOp
    /\ UNCHANGED <<data, store, active, mirror, write, truth, late, left, missed, ops, writes>>

ResyncFails ==
    /\ op.pc = "push"
    /\ \E part \in SUBSET op.snap :
          /\ ext' = [ext EXCEPT ![active] = @ \cup part]
          /\ missed' = missed \cup (ext'[active] \ local)
    /\ op' = NoOp
    /\ UNCHANGED <<local, backup, cfg, store, active, mirror, write, truth, late, left, cleared, ops, writes>>

-----------------------------------------------------------------------------
(* disconnect.                                                             *)

\* In relocate mode the data is moved back, or its loss is acknowledged.
BeginDisconnect(move) ==
    /\ op = NoOp /\ cfg # None /\ Settled /\ ops < MaxOps /\ ops' = ops + 1
    /\ op' = [NoOp EXCEPT !.pc = IF Relocated /\ move /\ active # None THEN "fetch" ELSE "revert", !.move = move]
    /\ UNCHANGED <<data, cfg, store, active, mirror, write, history, writes>>

FetchExternal ==
    /\ op.pc = "fetch"
    /\ op' = [op EXCEPT !.pc = "restore", !.snap = ext[active]]
    /\ UNCHANGED <<data, cfg, store, active, mirror, write, history, ops, writes>>

RestoreLocal ==
    /\ op.pc = "restore"
    /\ local' = local \cup op.snap
    /\ Goto("revert")
    /\ UNCHANGED <<ext, backup, cfg, store, active, mirror, write, history, ops, writes>>

\* The database cannot be read, or a row not be stored: nothing is detached.
DisconnectFails ==
    /\ op.pc \in {"fetch", "restore"}
    /\ \E part \in SUBSET op.snap : local' = IF op.pc = "restore" THEN local \cup part ELSE local
    /\ op' = NoOp
    /\ UNCHANGED <<ext, backup, cfg, store, active, mirror, write, history, ops, writes>>

\* Mutant: the store that goes through the pool stays active.
MutRevertToLocal ==
    /\ op.pc = "revert"
    /\ Goto("drop")
    /\ UNCHANGED <<data, cfg, store, active, mirror, write, history, ops, writes>>

RevertToLocal ==
    /\ op.pc = "revert"
    /\ store' = "local"
    /\ Goto("drop")
    /\ UNCHANGED <<data, cfg, active, mirror, write, history, ops, writes>>

\* The pool is closed, also under a reconcile that uses it, and the configuration deleted.
DropConfig ==
    /\ op.pc = "drop"
    /\ cfg' = None /\ active' = None
    /\ rec' = [rec EXCEPT !.db = None]
    /\ truth' = IF Relocated /\ ~op.move THEN truth \cap local ELSE truth
    /\ left' = IF Relocated /\ op.move /\ active = None THEN left \cup (truth \ local) ELSE left
    /\ op' = NoOp
    /\ UNCHANGED <<data, store, queued, flags, write, late, missed, cleared, ops, writes>>

-----------------------------------------------------------------------------
(* A restart: memory is lost, and onModuleInit activates what is marked active, if it can. *)

Boots(a, s) == active' = a /\ store' = s

\* Mutant: a migration that was cut short is activated, too.
MutActivated == cfg # None

Activated == cfg # None /\ cfg.status = "active"

Restart ==
    /\ \/ Boots(None, "local")
       \/ Activated /\ (Boots(cfg.db, Mode) \/ Boots(cfg.db, "local"))
    /\ op' = NoOp /\ rec' = NoRec /\ queued' = FALSE /\ flags' = 0 /\ write' = None
    /\ missed' = IF cfg # None /\ (rec.pc # "idle" \/ flags > 0) THEN missed \cup Difference(cfg.db) ELSE missed
    /\ UNCHANGED <<data, cfg, truth, late, left, cleared, ops, writes>>

-----------------------------------------------------------------------------
Init ==
    /\ local = {} /\ ext = [d \in Dbs |-> {}] /\ backup = {}
    /\ cfg = None /\ store = "local" /\ active = None
    /\ op = NoOp /\ rec = NoRec /\ queued = FALSE /\ flags = 0 /\ write = None
    /\ truth = {} /\ late = {} /\ left = {} /\ missed = {} /\ cleared = {}
    /\ ops = 0 /\ writes = 0

WriteStep == WriteLocal \/ WriteMirrored \/ WriteExternal \/ WriteRejected
RecStep == RecExport \/ RecWipe \/ RecImport \/ RecMark \/ RecFails
ConnectStep == ExportLocal \/ Import \/ BackupLocal \/ WipeLocal \/ MarkConnected \/ Activate \/ ConnectFails
ResyncStep == ResyncRead \/ ResyncPush \/ ResyncClear \/ ResyncFails
DisconnectStep == FetchExternal \/ RestoreLocal \/ DisconnectFails \/ RevertToLocal \/ DropConfig

Next ==
    \/ \E x \in Ids, put \in BOOLEAN : BeginWrite(x, put)
    \/ \E d \in Dbs, mode \in {"relocate", "mirror"}, ack \in BOOLEAN : BeginConnect(d, mode, ack)
    \/ BeginResync
    \/ \E move \in BOOLEAN : BeginDisconnect(move)
    \/ WriteStep \/ FlagLands \/ RecStep \/ ConnectStep \/ ResyncStep \/ DisconnectStep
    \/ Restart

Spec == Init /\ [][Next]_vars

-----------------------------------------------------------------------------
TypeOK ==
    /\ local \subseteq Ids /\ ext \in [Dbs -> SUBSET Ids] /\ backup \subseteq Ids
    /\ cfg \in Config \cup {None}
    /\ store \in {"local", "mirror", "external"} /\ active \in Dbs \cup {None}
    /\ op \in Op /\ rec \in Rec /\ queued \in BOOLEAN /\ flags \in 0..MaxWrites
    /\ write \in Write \cup {None}
    /\ truth \subseteq Ids /\ late \subseteq Ids /\ left \subseteq Ids
    /\ missed \subseteq Ids /\ cleared \subseteq Ids
    /\ op.pc # "idle" \/ store # "local" => cfg # None
    /\ store # "local" => active = cfg.db
    /\ ops \in 0..MaxOps /\ writes \in 0..MaxWrites

Configured == IF cfg = None THEN {} ELSE ext[cfg.db]
Seen == IF store = "external" THEN ext[active] ELSE local

\* No identity is lost on the way between the stores, whatever fails or is cut short and wherever: it is in
\* the local store or in the database the configuration names, so that the next connect or disconnect finds
\* it; and once a database is active, the program sees it.  Except what was written while the stores were
\* being swapped, and what a disconnect without a connection to the database left there.
NothingLost ==
    /\ truth \subseteq local \cup Configured \cup late \cup left
    /\ store # "local" => truth \subseteq Seen \cup late \cup left

IdleMirror == store = "mirror" /\ op = NoOp /\ rec = NoRec /\ ~queued /\ flags = 0

\* When the write-through is idle, the copy is exact or flagged: a write that comes while a reconcile runs
\* is not forgotten by it, and no reconcile clears a flag that a later write has set.  Since the last reconcile
\* has begun, the exceptions are the identities which the write-through has no part in: written past it, left in
\* or brought back to the copy by an upsert, or different when a restart cut it short; and those that differed
\* when Re-sync cleared the flag, which it does although a write came after its export and the reconcile of that
\* write failed, or although it has no connection to the database (FailedPushStaysFlagged).
MirrorExactOrFlagged == IdleMirror => cfg.outOfSync \/ Difference(active) \subseteq missed \cup cleared

\* external-identity-database.service.ts:433 "a failed push leaves `outOfSync = true` for the Re-sync action":
\* a write that did not reach the copy stays flagged until it does.
FailedPushStaysFlagged == IdleMirror => cfg.outOfSync \/ Difference(active) \subseteq missed

\* docs/database.md:267 "Re-sync reconciles": when it returns, the copy is what the local store was.
ResyncReconciles ==
    [][op.pc = "clear" /\ cfg' # cfg /\ store = "mirror" /\ rec = NoRec /\ op.snap = local
         => ext'[active] = local]_vars

\* docs/database.md:295 "Disconnect offers to move identity back to local before detaching".
DetachMovesBack ==
    [][op.pc = "drop" /\ op' = NoOp /\ op.move /\ cfg' = None => truth \subseteq local \cup late]_vars
=============================================================================
