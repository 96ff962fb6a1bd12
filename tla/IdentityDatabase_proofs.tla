---------------------- MODULE IdentityDatabase_proofs ----------------------
(***************************************************************************)
(* Proofs about IdentityDatabase: its types, that no entity a caller was   *)
(* told of is lost while databases are connected, activated, disconnected  *)
(* and resynchronized, and that an unflagged mirror is a copy.             *)
(*                                                                         *)
(* The invariant has four parts.  Shape says which operations, passes and  *)
(* writes may overlap and what configuration each of them works on; Kept   *)
(* says where every entity that should survive is at each step of a move;  *)
(* CopyOK says how far a reconciliation has got and in what the copy may   *)
(* still differ; QueuedOK, the type of the one Boolean variable, is apart  *)
(* from the rest because the provers treat Booleans best alone.            *)
(***************************************************************************)
EXTENDS IdentityDatabase, TLAPS

USE IdentityDatabaseConstants, NoneIsNoRecord

\* The steps of a connect and of the activation that ends it.
Connecting == {"export", "import", "backup", "wipe", "connected", "activate"}
Mirroring == cfg # None /\ ~Relocated

\* The types, with what the types of a dependent read rest on.
Typed ==
    /\ local \subseteq Ids /\ ext \in [Dbs -> SUBSET Ids] /\ backup \subseteq Ids
    /\ cfg \in Config \cup {None}
    /\ store \in {"local", "mirror", "external"} /\ active \in Dbs \cup {None}
    /\ op \in Op /\ rec \in Rec /\ flags \in 0..MaxWrites
    /\ write \in Write \cup {None}
    /\ truth \subseteq Ids /\ late \subseteq Ids /\ left \subseteq Ids /\ missed \subseteq Ids /\ cleared \subseteq Ids
    /\ op.pc # "idle" \/ store # "local" => cfg # None
    /\ store # "local" => active = cfg.db
    /\ ops \in 0..MaxOps /\ writes \in 0..MaxWrites

\* Operations settle before they begin: a connect meets no pass and no write of another store, a relocated
\* configuration no reconciliation, and the step an operation is at tells the state of the configuration.
Shape ==
    /\ flags + (IF write = None THEN 0 ELSE 1) <= writes
    /\ active # None => cfg # None /\ active = cfg.db
    /\ store # "local" => store = Mode /\ cfg.status = "active"
    /\ op.pc \in {"backup", "wipe", "fetch", "restore"} => Relocated
    /\ op.pc \in {"fetch", "restore", "read", "push"} => active # None
    /\ op.pc = "drop" => store = "local"
    /\ op.pc \in Connecting \ {"activate"} => cfg.status = "migrating"
    /\ op.pc = "activate" => cfg.status = "active"
    /\ op.pc \in Connecting => store = "local" /\ rec.pc = "idle" /\ (write # None => write.store = "local")
    /\ Relocated => rec.pc = "idle" /\ (write # None => write.store # "mirror")
    /\ Mirroring => (write # None => write.store # "external")
    /\ cfg # None /\ rec.pc # "idle" => rec.db = cfg.db /\ active # None

ShapeInv == Typed /\ Shape

\* The fields of the record of no operation.
LEMMA NoOpFields ==
    NoOp \in Op /\ NoOp.pc = "idle" /\ ~NoOp.ack /\ ~NoOp.move /\ NoOp.snap = {}
  BY DEF NoOp, Op

\* The fields of the record of no reconciliation.
LEMMA NoRecFields ==
    NoRec \in Rec /\ NoRec.pc = "idle" /\ NoRec.db = None /\ NoRec.snap = {}
  BY DEF NoRec, Rec

\* An update of the flag writes the flag and nothing else, and only if there is a configuration.
LEMMA FlagEffect ==
  ASSUME NEW sync \in BOOLEAN, cfg \in Config \cup {None}, Flag(sync)
  PROVE  /\ cfg' \in Config \cup {None}
         /\ cfg' = None <=> cfg = None
         /\ cfg # None => /\ cfg'.status = cfg.status /\ cfg'.mode = cfg.mode /\ cfg'.db = cfg.db
                          /\ cfg'.outOfSync = sync
<1>1. CASE cfg = None
  BY <1>1 DEF Flag
<1>2. CASE cfg \in Config
  <2>1. cfg' = [cfg EXCEPT !.outOfSync = sync]
    BY <1>2 DEF Flag
  <2> QED BY <1>2, <2>1 DEF Config
<1> QED BY <1>1, <1>2

\* An update of the flag keeps everything else of the configuration.
FlagOnly == /\ cfg' \in Config \cup {None}
            /\ cfg' = None <=> cfg = None
            /\ cfg # None => cfg'.status = cfg.status /\ cfg'.mode = cfg.mode /\ cfg'.db = cfg.db

\* The same without naming the value.
LEMMA FlagKeeps ==
  ASSUME cfg \in Config \cup {None}, Flag(TRUE) \/ Flag(FALSE)
  PROVE  FlagOnly
<1>1. ASSUME NEW sync \in BOOLEAN, Flag(sync) PROVE FlagOnly
  BY <1>1, FlagEffect DEF FlagOnly
<1> QED BY ONLY <1>1, Flag(TRUE) \/ Flag(FALSE), Zenon

\* A request starts a pass over the active database or queues one.
LEMMA RequestEffect ==
  ASSUME rec \in Rec, active \in Dbs \cup {None}, RequestReconcile
  PROVE  /\ rec' \in Rec
         /\ rec' = rec \/ (rec.pc = "idle" /\ active # None /\ rec'.pc = "export" /\ rec'.db = active)
         /\ rec'.pc = "idle" => rec.pc = "idle" /\ active = None
         /\ rec.pc # "idle" => queued' /\ rec' = rec
<1>1. ASSUME active # None, rec' = [NoRec EXCEPT !.pc = "export", !.db = active]
      PROVE  rec' \in Rec /\ rec'.pc = "export" /\ rec'.db = active
  BY <1>1, NoRecFields DEF Rec
<1> QED BY <1>1 DEF RequestReconcile

\* The end of a pass starts the queued one if a database is active.
LEMMA DrainEffect ==
  ASSUME rec \in Rec, active \in Dbs \cup {None}, Drain
  PROVE  /\ rec' \in Rec
         /\ rec' = NoRec \/ (active # None /\ rec'.pc = "export" /\ rec'.db = active)
<1>1. ASSUME active # None, rec' = [NoRec EXCEPT !.pc = "export", !.db = active]
      PROVE  rec' \in Rec /\ rec'.pc = "export" /\ rec'.db = active
  BY <1>1, NoRecFields DEF Rec
<1> QED BY <1>1, NoRecFields DEF Drain

\* It leaves none running only if none was queued or no database is active.
LEMMA DrainMore ==
  ASSUME rec \in Rec, active \in Dbs \cup {None}, Drain
  PROVE  /\ rec'.pc \in {"idle", "export"}
         /\ rec'.pc = "idle" => ~queued \/ active = None
<1>1. ASSUME rec' = [NoRec EXCEPT !.pc = "export", !.db = active]
      PROVE  rec'.pc = "export"
  BY <1>1, NoRecFields DEF Rec
<1>2. CASE queued /\ active # None
  BY <1>1, <1>2 DEF Drain
<1>3. CASE ~(queued /\ active # None)
  BY <1>3, NoRecFields DEF Drain
<1> QED BY <1>2, <1>3

\* The initial state has the shape, ...
LEMMA InitShape == Init => ShapeInv
  <1>1. Init => Typed
    BY NoOpFields, NoRecFields DEF Init, Typed, Shape,  Relocated, Mirroring, Connecting
  <1>2. Init => Shape
    BY NoOpFields, NoRecFields DEF Init, Typed, Shape,  Relocated, Mirroring, Connecting
  <1> QED BY <1>1, <1>2 DEF ShapeInv

\* ... and every group of actions preserves it.
LEMMA WriteShape ==
  ASSUME ShapeInv, WriteStep \/ \E x \in Ids, put \in BOOLEAN : BeginWrite(x, put)
  PROVE  ShapeInv'
<1> USE DEF ShapeInv, Typed, Shape, Relocated, Mirroring, Connecting, Mode, data, mirror, history
<1>1. ASSUME NEW x \in Ids, NEW put \in BOOLEAN, BeginWrite(x, put) PROVE ShapeInv'
  BY <1>1 DEF BeginWrite, Write
<1>2. CASE WriteLocal
  BY <1>2 DEF WriteLocal, Returned, Applied, Write
<1>3. CASE WriteMirrored
  <2>1. Typed'
    BY <1>3, RequestEffect, NoRecFields DEF WriteMirrored, Returned, Applied, Write, Rec
  <2>2. Shape'
    BY <1>3, RequestEffect, NoRecFields DEF WriteMirrored, Returned, Applied, Write, Rec
  <2> QED BY <2>1, <2>2
<1>4. CASE WriteExternal
  BY <1>4 DEF WriteExternal, Returned, Applied, Write
<1>5. CASE WriteRejected
  BY <1>5 DEF WriteRejected
<1> QED BY <1>1, <1>2, <1>3, <1>4, <1>5 DEF WriteStep

LEMMA ReconcileShape ==
  ASSUME ShapeInv, FlagLands \/ RecStep
  PROVE  ShapeInv'
<1> USE DEF ShapeInv, Typed, Shape, Relocated, Mirroring, Connecting, Mode, data, mirror, history, Config, Rec
<1>1. CASE FlagLands
  <2>0. FlagOnly
    BY <1>1, FlagKeeps DEF FlagLands
  <2>1. Typed'
    BY <1>1, <2>0 DEF FlagLands, FlagOnly
  <2>2. Shape'
    BY <1>1, <2>0 DEF FlagLands, FlagOnly
  <2> QED BY <2>1, <2>2
<1>2. CASE RecExport
  BY <1>2 DEF RecExport
<1>3. CASE RecWipe
  BY <1>3 DEF RecWipe
<1>4. CASE RecImport
  BY <1>4 DEF RecImport
<1>5. CASE RecMark
  BY <1>5, FlagEffect, DrainEffect, NoRecFields DEF RecMark
<1>6. CASE RecFails
  <2>1. FlagOnly
    BY <1>6, FlagKeeps DEF RecFails
  <2>2. ext' \in [Dbs -> SUBSET Ids]
    BY <1>6 DEF RecFails
  <2>3. Drain
    BY <1>6 DEF RecFails
  <2> QED BY <1>6, <2>1, <2>2, <2>3, DrainEffect, NoRecFields DEF RecFails, FlagOnly
<1> QED BY <1>1, <1>2, <1>3, <1>4, <1>5, <1>6 DEF RecStep

LEMMA ConnectShape ==
  ASSUME ShapeInv, ConnectStep \/ \E d \in Dbs, mode \in {"relocate", "mirror"}, ack \in BOOLEAN : BeginConnect(d, mode, ack)
  PROVE  ShapeInv'
<1> USE DEF ShapeInv, Typed, Shape, Relocated, Mirroring, Connecting, Mode, data, mirror, history, Config, Op, Goto
<1>1. ASSUME NEW d \in Dbs, NEW mode \in {"relocate", "mirror"}, NEW ack \in BOOLEAN, BeginConnect(d, mode, ack)
      PROVE  ShapeInv'
  <2>1. op' \in Op /\ op'.pc = "export"
    BY <1>1, NoOpFields DEF BeginConnect
  <2>2. cfg' \in Config /\ cfg'.status = "migrating" /\ cfg'.mode = mode /\ cfg'.db = d
    BY <1>1 DEF BeginConnect
  <2>3. /\ rec.pc = "idle" /\ (write # None => write.store = store) /\ cfg = None /\ ops' = ops + 1 /\ ops < MaxOps
        /\ UNCHANGED <<data, store, active, mirror, write, truth, late, left, writes>> /\ missed' = {} /\ cleared' = {}
    BY <1>1 DEF BeginConnect, Settled
  <2> QED BY <2>1, <2>2, <2>3
<1>2. CASE ExportLocal
  BY <1>2 DEF ExportLocal
<1>3. CASE Import
  BY <1>3 DEF Import
<1>4. CASE BackupLocal
  BY <1>4 DEF BackupLocal
<1>5. CASE WipeLocal
  BY <1>5 DEF WipeLocal
<1>6. CASE MarkConnected
  BY <1>6 DEF MarkConnected
<1>7. CASE Activate
  BY <1>7, NoOpFields DEF Activate
<1>8. CASE ConnectFails
  BY <1>8, NoOpFields DEF ConnectFails
<1> QED BY <1>1, <1>2, <1>3, <1>4, <1>5, <1>6, <1>7, <1>8 DEF ConnectStep

LEMMA ResyncShape ==
  ASSUME ShapeInv, BeginResync \/ ResyncStep
  PROVE  ShapeInv'
<1> USE DEF ShapeInv, Typed, Shape, Relocated, Mirroring, Connecting, Mode, data, mirror, history, Config, Op, Goto
<1>1. CASE BeginResync
  <2>1. Typed'
    BY <1>1, NoOpFields DEF BeginResync
  <2>2. Shape'
    BY <1>1, NoOpFields DEF BeginResync
  <2> QED BY <2>1, <2>2
<1>2. CASE ResyncRead
  BY <1>2 DEF ResyncRead
<1>3. CASE ResyncPush
  <2>1. ext' \in [Dbs -> SUBSET Ids] /\ missed' \subseteq missed \cup local \cup Ids
    BY <1>3 DEF ResyncPush
  <2> QED BY <1>3, <2>1 DEF ResyncPush
<1>4. CASE ResyncClear
  <2>1. FlagOnly
    BY <1>4, FlagKeeps DEF ResyncClear
  <2>2. cleared' \subseteq Ids
    BY <1>4 DEF ResyncClear, Difference
  <2>3. Typed'
    BY <1>4, <2>1, <2>2, NoOpFields DEF ResyncClear, FlagOnly
  <2>4. Shape'
    BY <1>4, <2>1, NoOpFields DEF ResyncClear, FlagOnly
  <2> QED BY <2>3, <2>4
<1>5. CASE ResyncFails
  <2>1. ext' \in [Dbs -> SUBSET Ids]
    <3>1. PICK part \in SUBSET op.snap : ext' = [ext EXCEPT ![active] = @ \cup part]
      BY <1>5 DEF ResyncFails
    <3> QED BY <3>1
  <2> QED BY <1>5, <2>1, NoOpFields DEF ResyncFails
<1> QED BY <1>1, <1>2, <1>3, <1>4, <1>5 DEF ResyncStep

LEMMA DisconnectShape ==
  ASSUME ShapeInv, DisconnectStep \/ \E move \in BOOLEAN : BeginDisconnect(move)
  PROVE  ShapeInv'
<1> USE DEF ShapeInv, Typed, Shape, Relocated, Mirroring, Connecting, Mode, data, mirror, history, Config, Op, Goto, Rec
<1>1. ASSUME NEW move \in BOOLEAN, BeginDisconnect(move) PROVE ShapeInv'
  <2>1. op' \in Op /\ op'.pc \in {"fetch", "revert"}
    BY <1>1, NoOpFields DEF BeginDisconnect
  <2>2. op'.pc = "fetch" => Relocated /\ active # None
    BY <1>1, NoOpFields DEF BeginDisconnect
  <2>3. /\ rec.pc = "idle" /\ cfg # None /\ ops' = ops + 1 /\ ops < MaxOps
        /\ UNCHANGED <<data, cfg, store, active, mirror, write, history, writes>>
    BY <1>1 DEF BeginDisconnect, Settled
  <2> QED BY <2>1, <2>2, <2>3
<1>2. CASE FetchExternal
  <2>1. Typed'
    BY <1>2 DEF FetchExternal
  <2>2. Shape'
    BY <1>2 DEF FetchExternal
  <2> QED BY <2>1, <2>2
<1>3. CASE RestoreLocal
  BY <1>3 DEF RestoreLocal
<1>4. CASE DisconnectFails
  BY <1>4, NoOpFields DEF DisconnectFails
<1>5. CASE RevertToLocal
  BY <1>5 DEF RevertToLocal
<1>6. CASE DropConfig
  <2>1. truth' \subseteq Ids /\ left' \subseteq Ids
    BY <1>6 DEF DropConfig
  <2>2. rec' \in Rec /\ rec'.pc = rec.pc
    BY <1>6 DEF DropConfig
  <2>3. /\ cfg' = None /\ active' = None /\ op' = NoOp /\ op.pc = "drop"
        /\ UNCHANGED <<data, store, queued, flags, write, late, missed, cleared, ops, writes>>
    BY <1>6 DEF DropConfig
  <2> QED BY <2>1, <2>2, <2>3, NoOpFields
<1> QED BY <1>1, <1>2, <1>3, <1>4, <1>5, <1>6 DEF DisconnectStep

LEMMA RestartShape ==
  ASSUME ShapeInv, Restart
  PROVE  ShapeInv'
  <1>1. Typed'
    BY NoOpFields, NoRecFields DEF ShapeInv, Typed, Shape, Difference, Relocated, Mirroring, Connecting, Mode, data, mirror, history, Config, Op, Rec, Restart, Boots, Activated
  <1>2. Shape'
    BY NoOpFields, NoRecFields DEF ShapeInv, Typed, Shape, Relocated, Mirroring, Connecting, Mode, data, mirror, history, Config, Op, Rec, Restart, Boots, Activated
<1> QED BY <1>1, <1>2 DEF ShapeInv

-----------------------------------------------------------------------------
(* Nothing is lost.                                                                         *)

\* The entities that nobody removed, wrote too late or left behind.
Safe == truth \ (late \cup left)

\* Where they are: in the local database until the import is done, in the external one from then on, and while
\* data moves back in the snapshot that is being restored.
Kept ==
    /\ ~Relocated \/ op.pc \in {"export", "import"} => Safe \subseteq local
    /\ Relocated =>
        /\ Safe \subseteq local \cup ext[cfg.db]
        /\ cfg.status = "active" \/ op.pc \in Connecting \ {"export", "import"} => Safe \subseteq ext[cfg.db]
        /\ op.pc = "import" => Safe \subseteq op.snap
        /\ op.pc = "restore" => Safe \subseteq local \cup op.snap
        /\ op.pc \in {"revert", "drop"} /\ op.move /\ active # None => Safe \subseteq local

\* What a returning write does to the entities that should survive.
LEMMA ReturnedSafe ==
  ASSUME Returned
  PROVE  /\ ~write.put => Safe' \subseteq Safe \ {write.id}
         /\ write.put => Safe' \subseteq Safe \cup {write.id}
         /\ write.put /\ TooLate => Safe' \subseteq Safe \ {write.id}
<1> USE DEF Safe, Returned, Applied
<1>1. CASE ~write.put
  BY <1>1
<1>2. CASE write.put /\ TooLate
  BY <1>2
<1>3. CASE write.put /\ ~TooLate
  BY <1>3
<1> QED BY <1>1, <1>2, <1>3

\* Every group of actions preserves Kept.
LEMMA WriteKept ==
  ASSUME ShapeInv, Kept, WriteStep \/ \E x \in Ids, put \in BOOLEAN : BeginWrite(x, put)
  PROVE  Kept'
<1> USE DEF ShapeInv, Typed, Shape, Kept, Relocated, Mirroring, Connecting, Mode, data, mirror, history, Config
<1>1. ASSUME NEW x \in Ids, NEW put \in BOOLEAN, BeginWrite(x, put) PROVE Kept'
  BY <1>1 DEF BeginWrite, Safe
<1>2. CASE WriteLocal
  BY <1>2, ReturnedSafe DEF WriteLocal, Applied, TooLate
<1>3. CASE WriteMirrored
  BY <1>3, ReturnedSafe DEF WriteMirrored, Applied, TooLate
<1>4. CASE WriteExternal
  BY <1>4, ReturnedSafe DEF WriteExternal, Applied, TooLate
<1>5. CASE WriteRejected
  BY <1>5 DEF WriteRejected, Safe
<1> QED BY <1>1, <1>2, <1>3, <1>4, <1>5 DEF WriteStep

LEMMA ReconcileKept ==
  ASSUME ShapeInv, Kept, FlagLands \/ RecStep
  PROVE  Kept'
<1> USE DEF ShapeInv, Typed, Shape, Kept, Relocated, Mirroring, Connecting, Mode, data, mirror, history, Config, Safe, Rec
<1>1. CASE FlagLands
  BY <1>1, FlagKeeps DEF FlagLands, FlagOnly
<1>2. CASE RecExport
  BY <1>2 DEF RecExport
<1>3. CASE RecWipe
  BY <1>3 DEF RecWipe
<1>4. CASE RecImport
  BY <1>4 DEF RecImport
<1>5. CASE RecMark
  BY <1>5, FlagKeeps DEF RecMark, FlagOnly
<1>6. CASE RecFails
  BY <1>6, FlagKeeps DEF RecFails, FlagOnly
<1> QED BY <1>1, <1>2, <1>3, <1>4, <1>5, <1>6 DEF RecStep

LEMMA ConnectKept ==
  ASSUME ShapeInv, Kept, ConnectStep \/ \E d \in Dbs, mode \in {"relocate", "mirror"}, ack \in BOOLEAN : BeginConnect(d, mode, ack)
  PROVE  Kept'
<1> USE DEF ShapeInv, Typed, Shape, Kept, Relocated, Mirroring, Connecting, Mode, data, mirror, history, Config, Op, Goto, Safe
<1>1. ASSUME NEW d \in Dbs, NEW mode \in {"relocate", "mirror"}, NEW ack \in BOOLEAN, BeginConnect(d, mode, ack)
      PROVE  Kept'
  <2>1. op' \in Op /\ op'.pc = "export"
    BY <1>1, NoOpFields DEF BeginConnect
  <2>2. cfg' \in Config /\ cfg'.status = "migrating" /\ cfg'.mode = mode /\ cfg'.db = d
    BY <1>1 DEF BeginConnect
  <2>3. cfg = None /\ UNCHANGED <<data, store, active, mirror, write, truth, late, left, writes>>
    BY <1>1 DEF BeginConnect
  <2> QED BY <2>1, <2>2, <2>3
<1>2. CASE ExportLocal
  BY <1>2 DEF ExportLocal
<1>3. CASE Import
  BY <1>3 DEF Import
<1>4. CASE BackupLocal
  BY <1>4 DEF BackupLocal
<1>5. CASE WipeLocal
  BY <1>5 DEF WipeLocal
<1>6. CASE MarkConnected
  BY <1>6 DEF MarkConnected
<1>7. CASE Activate
  BY <1>7, NoOpFields DEF Activate
<1>8. CASE ConnectFails
  BY <1>8, NoOpFields DEF ConnectFails
<1> QED BY <1>1, <1>2, <1>3, <1>4, <1>5, <1>6, <1>7, <1>8 DEF ConnectStep

LEMMA ResyncKept ==
  ASSUME ShapeInv, Kept, BeginResync \/ ResyncStep
  PROVE  Kept'
<1> USE DEF ShapeInv, Typed, Shape, Kept, Relocated, Mirroring, Connecting, Mode, data, mirror, history, Config, Op, Goto, Safe
<1>1. CASE BeginResync
  BY <1>1, NoOpFields DEF BeginResync
<1>2. CASE ResyncRead
  BY <1>2 DEF ResyncRead
<1>3. CASE ResyncPush
  BY <1>3 DEF ResyncPush
<1>4. CASE ResyncClear
  BY <1>4, NoOpFields, FlagKeeps DEF ResyncClear, FlagOnly
<1>5. CASE ResyncFails
  BY <1>5, NoOpFields DEF ResyncFails
<1> QED BY <1>1, <1>2, <1>3, <1>4, <1>5 DEF ResyncStep

LEMMA DisconnectKept ==
  ASSUME ShapeInv, Kept, DisconnectStep \/ \E move \in BOOLEAN : BeginDisconnect(move)
  PROVE  Kept'
<1> USE DEF ShapeInv, Typed, Shape, Kept, Relocated, Mirroring, Connecting, Mode, data, mirror, history, Config, Op, Goto, Safe
<1>1. ASSUME NEW move \in BOOLEAN, BeginDisconnect(move) PROVE Kept'
  BY <1>1, NoOpFields DEF BeginDisconnect
<1>2. CASE FetchExternal
  BY <1>2 DEF FetchExternal
<1>3. CASE RestoreLocal
  BY <1>3 DEF RestoreLocal
<1>4. CASE DisconnectFails
  BY <1>4, NoOpFields DEF DisconnectFails
<1>5. CASE RevertToLocal
  BY <1>5 DEF RevertToLocal
<1>6. CASE DropConfig
  BY <1>6, NoOpFields DEF DropConfig
<1> QED BY <1>1, <1>2, <1>3, <1>4, <1>5, <1>6 DEF DisconnectStep

LEMMA RestartKept ==
  ASSUME ShapeInv, Kept, Restart
  PROVE  Kept'
  BY NoOpFields, NoRecFields DEF ShapeInv, Typed, Shape, Kept, Relocated, Mirroring, Connecting, Mode, data, mirror, history, Config, Op,
     Safe, Restart, Boots, Activated

-----------------------------------------------------------------------------
(* An unflagged mirror is exact.                                                            *)

Excused == missed \cup cleared

\* Unless a reconciliation was requested meanwhile, its snapshot differs from the local data, and what it has
\* imported from it, in nothing but what is excused; when it has marked the mirror and no flag is under way, so
\* does the copy.  What a connect has exported and imported lacks only what was written past it.
CopyOK ==
    cfg # None =>
        /\ rec.pc \in {"wipe", "import"} /\ ~queued =>
             local \ rec.snap \subseteq Excused /\ rec.snap \ local \subseteq Excused
        /\ rec.pc = "import" /\ ~queued => ext[cfg.db] \ local \subseteq Excused
        /\ rec.pc = "mark" /\ ~queued => Difference(cfg.db) \subseteq Excused
        /\ rec.pc = "idle" /\ flags = 0 /\ Mirroring /\ cfg.status = "active" =>
             cfg.outOfSync \/ Difference(cfg.db) \subseteq Excused
        /\ op.pc = "import" => local \ op.snap \subseteq missed
        /\ op.pc \in {"backup", "wipe", "connected"} => local \ ext[cfg.db] \subseteq missed

\* Every group of actions preserves CopyOK.
LEMMA WriteCopy ==
  ASSUME ShapeInv, CopyOK, WriteStep \/ \E x \in Ids, put \in BOOLEAN : BeginWrite(x, put)
  PROVE  CopyOK'
<1> USE DEF ShapeInv, Typed, Shape, CopyOK, Excused, Difference, Relocated, Mirroring, Connecting, Mode, data, mirror, history, Config
<1>1. ASSUME NEW x \in Ids, NEW put \in BOOLEAN, BeginWrite(x, put) PROVE CopyOK'
  BY <1>1 DEF BeginWrite
<1>2. CASE WriteLocal
  <2>1. /\ local \ {write.id} \subseteq local' /\ local' \subseteq local \cup {write.id}
        /\ cfg # None => missed' = missed \cup {write.id}
        /\ UNCHANGED <<ext, cfg, op, mirror, cleared>>
    BY <1>2 DEF WriteLocal, Applied
  <2> QED BY <2>1
<1>3. CASE WriteMirrored
  <2>1. RequestReconcile /\ flags' = flags + 1
    BY <1>3 DEF WriteMirrored
  <2>2. CASE rec.pc # "idle"
    BY <1>3, <2>1, <2>2, RequestEffect DEF WriteMirrored
  <2>3. CASE rec.pc = "idle"
    <3>1. rec'.pc \in {"idle", "export"}
      BY <2>1, <2>3, RequestEffect
    <3> QED BY <1>3, <2>1, <3>1 DEF WriteMirrored
  <2> QED BY <2>2, <2>3
<1>4. CASE WriteExternal
  BY <1>4 DEF WriteExternal
<1>5. CASE WriteRejected
  BY <1>5 DEF WriteRejected
<1> QED BY <1>1, <1>2, <1>3, <1>4, <1>5 DEF WriteStep

LEMMA ReconcileCopy ==
  ASSUME ShapeInv, CopyOK, FlagLands \/ RecStep
  PROVE  CopyOK'
<1> USE DEF ShapeInv, Typed, Shape, CopyOK, Excused, Difference, Relocated, Mirroring, Connecting, Mode, data, mirror, history, Config, Rec
<1>1. CASE FlagLands
  BY <1>1, FlagEffect DEF FlagLands
<1>2. CASE RecExport
  BY <1>2 DEF RecExport
<1>3. CASE RecWipe
  BY <1>3 DEF RecWipe
<1>4. CASE RecImport
  BY <1>4 DEF RecImport
<1>5. CASE RecMark
  <2>1. rec'.pc \in {"idle", "export"} /\ (rec'.pc = "idle" => ~queued \/ active = None)
    BY <1>5, DrainMore, NoRecFields DEF RecMark
  <2>2. FlagOnly /\ rec.pc = "mark" /\ UNCHANGED <<local, ext, op, missed, cleared>>
    BY <1>5, FlagKeeps DEF RecMark
  <2> QED BY <2>1, <2>2 DEF FlagOnly
<1>6. CASE RecFails
  BY <1>6, FlagEffect, DrainEffect, NoRecFields DEF RecFails
<1> QED BY <1>1, <1>2, <1>3, <1>4, <1>5, <1>6 DEF RecStep

LEMMA ConnectCopy ==
  ASSUME ShapeInv, CopyOK, ConnectStep \/ \E d \in Dbs, mode \in {"relocate", "mirror"}, ack \in BOOLEAN : BeginConnect(d, mode, ack)
  PROVE  CopyOK'
<1> USE DEF ShapeInv, Typed, Shape, CopyOK, Excused, Difference, Relocated, Mirroring, Connecting, Mode, data, mirror, history, Config, Op, Goto
<1>1. ASSUME NEW d \in Dbs, NEW mode \in {"relocate", "mirror"}, NEW ack \in BOOLEAN, BeginConnect(d, mode, ack)
      PROVE  CopyOK'
  <2>2. cfg' \in Config /\ cfg'.status = "migrating" /\ cfg'.mode = mode /\ cfg'.db = d
    BY <1>1 DEF BeginConnect
  <2>3. rec.pc = "idle" /\ UNCHANGED mirror /\ op'.pc = "export"
    BY <1>1, NoOpFields DEF BeginConnect, Settled, Op
  <2> QED BY <2>2, <2>3
<1>2. CASE ExportLocal
  BY <1>2 DEF ExportLocal
<1>3. CASE Import
  BY <1>3 DEF Import
<1>4. CASE BackupLocal
  BY <1>4 DEF BackupLocal
<1>5. CASE WipeLocal
  BY <1>5 DEF WipeLocal
<1>6. CASE MarkConnected
  BY <1>6 DEF MarkConnected
<1>7. CASE Activate
  BY <1>7, NoOpFields DEF Activate
<1>8. CASE ConnectFails
  BY <1>8, NoOpFields DEF ConnectFails
<1> QED BY <1>1, <1>2, <1>3, <1>4, <1>5, <1>6, <1>7, <1>8 DEF ConnectStep

LEMMA ResyncCopy ==
  ASSUME ShapeInv, CopyOK, BeginResync \/ ResyncStep
  PROVE  CopyOK'
<1> USE DEF ShapeInv, Typed, Shape, CopyOK, Excused, Difference, Relocated, Mirroring, Connecting, Mode, data, mirror, history, Config, Op, Goto
<1>1. CASE BeginResync
  BY <1>1 DEF BeginResync
<1>2. CASE ResyncRead
  BY <1>2 DEF ResyncRead
<1>3. CASE ResyncPush
  BY <1>3 DEF ResyncPush
<1>4. CASE ResyncClear
  BY <1>4, NoOpFields, FlagKeeps DEF ResyncClear, FlagOnly
<1>5. CASE ResyncFails
  BY <1>5, NoOpFields DEF ResyncFails
<1> QED BY <1>1, <1>2, <1>3, <1>4, <1>5 DEF ResyncStep

LEMMA DisconnectCopy ==
  ASSUME ShapeInv, CopyOK, DisconnectStep \/ \E move \in BOOLEAN : BeginDisconnect(move)
  PROVE  CopyOK'
<1> USE DEF ShapeInv, Typed, Shape, CopyOK, Excused, Difference, Relocated, Mirroring, Connecting, Mode, data, mirror, history, Config, Op, Goto
<1>1. ASSUME NEW move \in BOOLEAN, BeginDisconnect(move) PROVE CopyOK'
  BY <1>1 DEF BeginDisconnect
<1>2. CASE FetchExternal
  BY <1>2 DEF FetchExternal
<1>3. CASE RestoreLocal
  BY <1>3 DEF RestoreLocal
<1>4. CASE DisconnectFails
  BY <1>4, NoOpFields DEF DisconnectFails
<1>5. CASE RevertToLocal
  BY <1>5 DEF RevertToLocal
<1>6. CASE DropConfig
  BY <1>6 DEF DropConfig
<1> QED BY <1>1, <1>2, <1>3, <1>4, <1>5, <1>6 DEF DisconnectStep

LEMMA RestartCopy ==
  ASSUME ShapeInv, CopyOK, Restart
  PROVE  CopyOK'
<1>1. /\ missed' = IF cfg # None /\ (rec.pc # "idle" \/ flags > 0) THEN missed \cup Difference(cfg.db) ELSE missed
      /\ UNCHANGED <<data, cfg, cleared>>
      /\ rec'.pc = "idle" /\ op'.pc = "idle"
  BY NoRecFields, NoOpFields DEF Restart
<1>2. flags \in Nat
  BY DEF ShapeInv, Typed
<1> QED BY <1>1, <1>2 DEF CopyOK, Excused, Difference, data, Mirroring, Relocated

-----------------------------------------------------------------------------
(* The Boolean variable, apart from the rest: the provers treat it best alone. *)
QueuedOK == queued \in BOOLEAN

\* Every step keeps it Boolean.
LEMMA QueuedStep ==
  ASSUME QueuedOK, [Next]_vars
  PROVE  QueuedOK'
<1> USE DEF QueuedOK, mirror, history
<1>1. ASSUME NEW x \in Ids, NEW put \in BOOLEAN, BeginWrite(x, put) PROVE QueuedOK'
  BY <1>1 DEF BeginWrite
<1>2. ASSUME NEW d \in Dbs, NEW mode \in {"relocate", "mirror"}, NEW ack \in BOOLEAN, BeginConnect(d, mode, ack)
      PROVE  QueuedOK'
  BY <1>2 DEF BeginConnect
<1>3. CASE BeginResync \/ \E move \in BOOLEAN : BeginDisconnect(move)
  BY <1>3 DEF BeginResync, BeginDisconnect
<1>4. CASE WriteStep
  BY <1>4 DEF WriteStep, WriteLocal, WriteMirrored, WriteExternal, WriteRejected, RequestReconcile
<1>5. CASE FlagLands \/ RecStep
  BY <1>5 DEF FlagLands, RecStep, RecExport, RecWipe, RecImport, RecMark, RecFails, Drain
<1>6. CASE ConnectStep
  BY <1>6 DEF ConnectStep, ExportLocal, Import, BackupLocal, WipeLocal, MarkConnected, Activate, ConnectFails
<1>7. CASE ResyncStep
  BY <1>7 DEF ResyncStep, ResyncRead, ResyncPush, ResyncClear, ResyncFails
<1>8. CASE DisconnectStep
  BY <1>8 DEF DisconnectStep, FetchExternal, RestoreLocal, DisconnectFails, RevertToLocal, DropConfig
<1>9. CASE Restart
  BY <1>9 DEF Restart
<1>10. CASE UNCHANGED vars
  BY <1>10 DEF vars
<1> QED BY <1>1, <1>2, <1>3, <1>4, <1>5, <1>6, <1>7, <1>8, <1>9, <1>10 DEF Next

-----------------------------------------------------------------------------
\* The inductive invariant.
Invariant == ShapeInv /\ QueuedOK /\ Kept /\ CopyOK

\* The conjunction is inductive.
LEMMA InvariantHolds == Spec => []Invariant
<1>1. Init => Invariant
  BY InitShape DEF Init, Invariant, QueuedOK, Kept, CopyOK, Safe, Relocated
<1>2. Invariant /\ [Next]_vars => Invariant'
  <2> SUFFICES ASSUME Invariant, [Next]_vars PROVE Invariant'
    OBVIOUS
  <2> USE DEF Invariant
  <2>0. QueuedOK'
    BY QueuedStep
  <2>1. CASE WriteStep \/ \E x \in Ids, put \in BOOLEAN : BeginWrite(x, put)
    BY <2>0, <2>1, WriteShape, WriteKept, WriteCopy
  <2>2. CASE FlagLands \/ RecStep
    BY <2>0, <2>2, ReconcileShape, ReconcileKept, ReconcileCopy
  <2>3. CASE ConnectStep \/ \E d \in Dbs, mode \in {"relocate", "mirror"}, ack \in BOOLEAN : BeginConnect(d, mode, ack)
    BY <2>0, <2>3, ConnectShape, ConnectKept, ConnectCopy
  <2>4. CASE BeginResync \/ ResyncStep
    BY <2>0, <2>4, ResyncShape, ResyncKept, ResyncCopy
  <2>5. CASE DisconnectStep \/ \E move \in BOOLEAN : BeginDisconnect(move)
    BY <2>0, <2>5, DisconnectShape, DisconnectKept, DisconnectCopy
  <2>6. CASE Restart
    BY <2>0, <2>6, RestartShape, RestartKept, RestartCopy
  <2>7. CASE UNCHANGED vars
    BY <2>0, <2>7 DEF ShapeInv, Typed, Shape, Kept, CopyOK, Excused, Difference, Safe, Relocated, Mirroring, Mode, vars, data, mirror,
       history
  <2> QED BY <2>1, <2>2, <2>3, <2>4, <2>5, <2>6, <2>7 DEF Next
<1> QED BY <1>1, <1>2, PTL DEF Spec

\* Every reachable state is well typed, whatever databases, entities, modes and failures there are.
THEOREM DatabaseTypeCorrect == Spec => []TypeOK
<1>1. Invariant => TypeOK
  BY DEF Invariant, ShapeInv, Typed, QueuedOK, TypeOK
<1> QED BY <1>1, InvariantHolds, PTL

\* What a caller was told is stored is seen in the store in use, through connect, activation, disconnect,
\* resync, failures between any two of their steps and restarts, unless it was written too late or left behind.
THEOREM NothingIsLost == Spec => []NothingLost
<1>1. Invariant => NothingLost
  BY DEF Invariant, ShapeInv, Typed, Shape, Kept, NothingLost, Configured, Seen, Safe, Relocated, Mode, Config
<1> QED BY <1>1, InvariantHolds, PTL

\* A mirror that is not flagged out of sync equals the local data when no pass and no flag is under way, except
\* in what the write-through has no part in and in what differed when Re-sync cleared the flag.
THEOREM MirrorExact == Spec => []MirrorExactOrFlagged
<1>1. Invariant => MirrorExactOrFlagged
  BY NoOpFields, NoRecFields DEF Invariant, ShapeInv, Typed, Shape, CopyOK, Excused, Difference, MirrorExactOrFlagged, IdleMirror,
     Relocated, Mirroring, Mode, Config
<1> QED BY <1>1, InvariantHolds, PTL
=============================================================================
