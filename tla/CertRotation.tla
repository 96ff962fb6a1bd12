---------------------------- MODULE CertRotation ----------------------------
(***************************************************************************)
(* The certificates of NestIdP: the one row of settings that holds, for    *)
(* signing and for encryption, an active and a pending certificate; the    *)
(* operations an administrator performs on them; the automatic check that  *)
(* starts and completes rotations; and the first use that generates a      *)
(* missing signing pair.                                                   *)
(*                                                                         *)
(* Every await is a step of its own.  Key generation runs synchronously    *)
(* and belongs to the step that asks for it.  A certificate stands for its *)
(* pair of certificate and key: the code always writes both together.      *)
(* CERT_ROTATION_DRY_RUN and the notifications change no state and are     *)
(* left out, and so is jitter, a delay before the check begins.            *)
(***************************************************************************)
EXTENDS Integers, FiniteSets, Sequences

CONSTANTS
    Kinds,        \* the kinds the row holds, out of "signing" and "encryption"
    Ids,          \* names for certificates; enough of them that a fresh one always exists
    Day,          \* instants in a day: the scheduler fires once per instant
    Lead,         \* Lead[k]: days before expiry at which a rotation starts
    Overlap,      \* Overlap[k]: days a pending certificate is published before it is promoted
    Validity,     \* days a generated certificate is valid
    Grace,        \* boot grace, in instants
    Threshold,    \* failures in a row that disable the automatic rotation of a kind; 0: never
    Lifetimes,    \* Lifetimes[k]: instants a certificate found at the start may have left
    Admins,       \* calls of administrators in progress at once
    Signers,      \* requests that need the signing pair
    MaxOps,       \* bound: calls of administrators
    MaxFaults,    \* bound: database calls and key generations that fail
    MaxRestarts,  \* bound: restarts of the process
    None

ASSUME CertConstants ==
    /\ Kinds \subseteq {"signing", "encryption"} /\ Kinds # {}
    /\ Day \in Nat \ {0} /\ Validity \in Nat \ {0}
    /\ Lead \in [Kinds -> Nat \ {0}] /\ Overlap \in [Kinds -> Nat]
    /\ Lifetimes \in [Kinds -> SUBSET Nat]
    /\ {Grace, Threshold, MaxOps, MaxFaults, MaxRestarts} \subseteq Nat
    /\ None \notin Kinds \cup Ids

\* More than the row, a snapshot of it and everybody's certificates can refer to.
ASSUME EnoughIds ==
    /\ Ids # {} /\ IsFiniteSet(Admins) /\ IsFiniteSet(Signers)
    /\ IsFiniteSet(Ids) => Cardinality(Ids) > 4 * Cardinality(Kinds) + 1 + Cardinality(Admins) + Cardinality(Signers)

VARIABLES
    row,       \* row[k]: what the settings row holds of kind k
    check,     \* the automatic check in progress; autoRotationInFlight while it is not idle
    tick,      \* the timer: whether it fired at this instant, and whether the next firing is the boot one
    op,        \* op[a]: the administrator's call
    signer,    \* signer[s]: the first-use call
    raced,     \* history: kinds that calls the check does not exclude wrote since it began
    manual,    \* history: kinds an administrator ever touched
    ops, faults, restarts   \* bounded counters

counters == <<ops, faults, restarts>>
history == <<raced, manual>>
vars == <<row, check, tick, op, signer, history, counters>>

-----------------------------------------------------------------------------
\* Time is relative: left is the instants until notAfter (0 once it has passed), age the instants since
\* the rotation started, counted no further than any overlap asks.
Cert == [id: Ids, left: Nat]
MaybeCert == Cert \cup {None}

\* None is not a certificate.
ASSUME NoneIsNoCert == None \notin Cert

\* on: the toggle; fails: consecutive failures; off: auto-disabled after too many.
Row == [active: MaybeCert, pending: MaybeCert, age: Nat, on: BOOLEAN, fails: Nat, off: BOOLEAN]

\* kind: the one being evaluated; snap: the row the check works on; cert: the one it will write.
Check == [pc: {"idle", "read", "evaluate", "start", "reread", "promote", "fail", "finish"},
          boot: BOOLEAN, kind: Kinds \cup {None}, snap: [Kinds -> Row], cert: MaybeCert]
NoSnap == [k \in Kinds |-> [active |-> None, pending |-> None, age |-> 0, on |-> FALSE, fails |-> 0,
                           off |-> FALSE]]
NoCheck == [pc |-> "idle", boot |-> FALSE, kind |-> None, snap |-> NoSnap, cert |-> None]
Checking == check.pc # "idle"

Ops == {"primary", "start", "complete", "cancel"}
\* early: no check was running when the call looked.
Op == [pc: {"idle", "read", "write"}, op: Ops, kind: Kinds \cup {None}, cert: MaybeCert, early: BOOLEAN]
NoOp == [pc |-> "idle", op |-> "start", kind |-> None, cert |-> None, early |-> FALSE]

\* used: it returned the pair it had generated.
Signer == [pc: {"idle", "claim"}, cert: MaybeCert, used: BOOLEAN]
NoSigner == [pc |-> "idle", cert |-> None, used |-> FALSE]

\* The loop over the kinds: signing, then encryption.
First == IF "signing" \in Kinds THEN "signing" ELSE "encryption"
HasNext(k) == k = "signing" /\ "encryption" \in Kinds

\* A freshly generated certificate differs from every one still referred to.
Held(rows) == {rows[k].active : k \in Kinds} \cup {rows[k].pending : k \in Kinds}
InUse == Held(row) \cup Held(check.snap)
         \cup {check.cert} \cup {op[a].cert : a \in Admins} \cup {signer[s].cert : s \in Signers}
Generated == [id |-> CHOOSE i \in Ids : \A c \in InUse \ {None} : c.id # i, left |-> Validity * Day]

\* isCertExpiringSoon for the lead days.
ExpiringSoon(k, c) == c.left <= Lead[k] * Day

\* Mutant: the overlap is the configured one, however little time is left.
MutEffectiveOverlap(k, c) == Overlap[k]

\* effectiveOverlapDays: the whole days left of the active certificate bound the overlap.
EffectiveOverlap(k, c) == IF c.left \div Day < Overlap[k] THEN c.left \div Day ELSE Overlap[k]
OverlapElapsed(k, r) == r.age >= EffectiveOverlap(k, r.active) * Day

WithinBootGrace(c) == c.left <= Grace

Promoted(r, c) == [r EXCEPT !.active = c, !.pending = None, !.age = 0]
Pending(r, c) == [r EXCEPT !.pending = c, !.age = 0]
Cleared(r) == [r EXCEPT !.pending = None, !.age = 0]

-----------------------------------------------------------------------------
(* The automatic check.                                                    *)

Write(k, r) == row' = [row EXCEPT ![k] = r]

\* On to the next kind, or to the final update; snap is the row the step returned.
Advance(snap) ==
    check' = IF HasNext(check.kind)
             THEN [check EXCEPT !.pc = "evaluate", !.kind = "encryption", !.snap = snap, !.cert = None]
             ELSE [NoCheck EXCEPT !.pc = "finish"]

\* runAutoRotationCheck: a caller that finds a check in flight only reads the settings.
BeginCheck(boot) ==
    check' = IF Checking THEN check ELSE [NoCheck EXCEPT !.pc = "read", !.boot = boot, !.kind = First]

\* The timer; the first firing after a start of the process is the boot tick.
Tick ==
    /\ ~tick.fired
    /\ BeginCheck(tick.boot)
    /\ tick' = [fired |-> TRUE, boot |-> FALSE]
    /\ UNCHANGED <<row, op, signer, history, counters>>

\* POST cert-rotation/run-check.
RunCheckOnDemand ==
    /\ ops < MaxOps /\ ops' = ops + 1
    /\ BeginCheck(FALSE)
    /\ UNCHANGED <<row, tick, op, signer, history, faults, restarts>>

CheckRead ==
    /\ check.pc = "read"
    /\ check' = [check EXCEPT !.pc = "evaluate", !.snap = row]
    /\ UNCHANGED <<row, tick, op, signer, history, counters>>

\* Mutant: a rotation in progress is completed without waiting for the overlap.
MutCompletes(k, r) == r.pending # None

\* Mutant: an active certificate that has expired is left alone.
MutManaged(r) == r.on /\ ~r.off /\ r.active # None /\ r.active.left > 0

\* evaluateAutoRotationForKind, on the snapshot.
Managed(r) == r.on /\ ~r.off /\ r.active # None
Completes(k, r) == r.pending # None /\ OverlapElapsed(k, r)
Starts(k, r) == /\ r.pending = None /\ ExpiringSoon(k, r.active)
                /\ (check.boot => WithinBootGrace(r.active))

CheckSkip ==
    /\ check.pc = "evaluate"
    /\ LET k == check.kind  r == check.snap[k] IN
       Managed(r) => ~Completes(k, r) /\ ~Starts(k, r)
    /\ Advance(check.snap)
    /\ UNCHANGED <<row, tick, op, signer, history, counters>>

CheckEvaluate ==
    /\ check.pc = "evaluate"
    /\ LET k == check.kind  r == check.snap[k] IN
       /\ Managed(r)
       /\ \/ Completes(k, r) /\ check' = [check EXCEPT !.pc = "reread"]
          \/ Starts(k, r) /\ check' = [check EXCEPT !.pc = "start", !.cert = Generated]
    /\ UNCHANGED <<row, tick, op, signer, history, counters>>

\* Something the evaluation of a kind needs fails: key generation, a read or an update.
CheckFault ==
    /\ check.pc \in {"start", "reread", "promote"}
    /\ faults < MaxFaults /\ faults' = faults + 1
    /\ check' = [check EXCEPT !.pc = "fail", !.cert = None]
    /\ UNCHANGED <<row, tick, op, signer, history, ops, restarts>>

\* An automatic transition clears the failures along with what it writes (clearFailureData).
Succeed(k, r) == Write(k, [r EXCEPT !.fails = 0])

\* autoStartKind.
CheckStart ==
    /\ check.pc = "start"
    /\ Succeed(check.kind, Pending(row[check.kind], check.cert))
    /\ Advance(row')
    /\ UNCHANGED <<tick, op, signer, raced, manual, counters>>

\* autoCompleteKind reads the row again.
CheckReread ==
    /\ check.pc = "reread"
    /\ IF row[check.kind].pending # None
       THEN check' = [check EXCEPT !.pc = "promote", !.cert = row[check.kind].pending]
       ELSE Advance(row)
    /\ UNCHANGED <<row, tick, op, signer, history, counters>>

CheckPromote ==
    /\ check.pc = "promote"
    /\ Succeed(check.kind, Promoted(row[check.kind], check.cert))
    /\ Advance(row')
    /\ UNCHANGED <<tick, op, signer, raced, manual, counters>>

\* recordAutoRotationFailure: the count is the snapshot's, plus one.
CheckFail ==
    /\ check.pc = "fail"
    /\ LET k == check.kind  n == check.snap[k].fails + 1 IN
       Write(k, [row[k] EXCEPT !.fails = n, !.off = @ \/ (Threshold > 0 /\ n >= Threshold)])
    /\ Advance(row')
    /\ UNCHANGED <<tick, op, signer, raced, manual, counters>>

\* The last update, of lastAutoRotationCheckAt, then the flag is cleared.
CheckFinish ==
    /\ check.pc = "finish"
    /\ check' = NoCheck /\ raced' = {}
    /\ UNCHANGED <<row, tick, op, signer, manual, counters>>

\* A call outside the handling of one kind rejects: the check ends there.
CheckAborts ==
    /\ check.pc \in {"read", "fail", "finish"}
    /\ faults < MaxFaults /\ faults' = faults + 1
    /\ check' = NoCheck /\ raced' = {}
    /\ UNCHANGED <<row, tick, op, signer, manual, ops, restarts>>

-----------------------------------------------------------------------------
(* The administrator.                                                      *)

\* Mutant: complete and cancel do not ask whether a check is in flight.
MutMayBegin(o) == TRUE

\* assertNoAutoRotationCheckInFlight stands before the first await of complete and cancel only.
MayBegin(o) == o \in {"complete", "cancel"} => ~Checking

BeginOp(a, o, k) ==
    /\ op[a].pc = "idle" /\ ops < MaxOps
    /\ MayBegin(o)
    /\ op' = [op EXCEPT ![a] = [NoOp EXCEPT !.pc = "read", !.op = o, !.kind = k, !.early = ~Checking]]
    /\ ops' = ops + 1
    /\ UNCHANGED <<row, check, tick, signer, history, faults, restarts>>

\* What the row must look like when it is read, by operation.
Accepts(o, r) == CASE o = "primary" -> r.pending = None
                   [] o = "start" -> r.active # None /\ r.pending = None
                   [] OTHER -> r.pending # None

\* The row is read and the certificate made (or the uploaded one checked); complete takes the pending one.
ReadOp(a) ==
    /\ op[a].pc = "read"
    /\ LET o == op[a]  r == row[o.kind] IN
       op' = [op EXCEPT ![a] =
                IF ~Accepts(o.op, r) THEN NoOp
                ELSE [o EXCEPT !.pc = "write", !.cert = CASE o.op = "complete" -> r.pending
                                                          [] o.op = "cancel" -> None
                                                          [] OTHER -> Generated]]
    /\ UNCHANGED <<row, check, tick, signer, history, counters>>

\* The update names the columns it sets and asks nothing of the row again.
Written(o, r) == CASE o.op = "primary" -> [r EXCEPT !.active = o.cert]
                   [] o.op = "start" -> Pending(r, o.cert)
                   [] o.op = "complete" -> Promoted(r, o.cert)
                   [] o.op = "cancel" -> Cleared(r)

\* Excused: nothing keeps this write out of a running check.
WriteOp(a) ==
    /\ op[a].pc = "write"
    /\ LET o == op[a] IN
       /\ Write(o.kind, Written(o, row[o.kind]))
       /\ raced' = IF Checking /\ (o.op \in {"primary", "start"} \/ o.early) THEN raced \cup {o.kind}
                   ELSE raced
       /\ manual' = manual \cup {o.kind}
    /\ op' = [op EXCEPT ![a] = NoOp]
    /\ UNCHANGED <<check, tick, signer, counters>>

\* A validation not modelled, or a database call, fails.
AbandonOp(a) ==
    /\ op[a].pc # "idle"
    /\ op' = [op EXCEPT ![a] = NoOp]
    /\ UNCHANGED <<row, check, tick, signer, history, counters>>

\* updateSettings, one update: enabling also clears the failures.
Toggle(k, on) ==
    /\ ops < MaxOps /\ ops' = ops + 1
    /\ Write(k, IF on THEN [row[k] EXCEPT !.on = TRUE, !.fails = 0, !.off = FALSE]
                ELSE [row[k] EXCEPT !.on = FALSE])
    /\ raced' = (IF Checking THEN raced \cup {k} ELSE raced) /\ manual' = manual \cup {k}
    /\ UNCHANGED <<check, tick, op, signer, faults, restarts>>

-----------------------------------------------------------------------------
(* ensureSigningMaterial: the first use of the signing pair generates it.  *)

\* The row is read: an active pair is returned, a pending one alone is an error, and neither changes
\* anything; otherwise a pair is generated.
NeedPair(s) ==
    /\ "signing" \in Kinds /\ signer[s].pc = "idle"
    /\ row["signing"].active = None /\ row["signing"].pending = None
    /\ signer' = [signer EXCEPT ![s].pc = "claim", ![s].cert = Generated]
    /\ UNCHANGED <<row, check, tick, op, history, counters>>

\* Mutant: the update is not conditional on the pair being absent.
MutClaimable == TRUE

Claimable == row["signing"].active = None

\* Only the caller whose conditional update found no pair writes; the other one starts over.
ClaimPair(s) ==
    /\ signer[s].pc = "claim"
    /\ IF Claimable
       THEN Write("signing", [row["signing"] EXCEPT !.active = signer[s].cert])
       ELSE UNCHANGED row
    /\ signer' = [signer EXCEPT ![s] = [NoSigner EXCEPT !.used = signer[s].used \/ Claimable]]
    /\ UNCHANGED <<check, tick, op, history, counters>>

-----------------------------------------------------------------------------
(* Time, and the process.                                                  *)

Longest == CHOOSE n \in {Overlap[k] : k \in Kinds} : \A k \in Kinds : Overlap[k] <= n

\* Mutant: the count of what is left goes on below zero.
MutOlder(c) == IF c = None THEN c ELSE [c EXCEPT !.left = @ - 1]

Older(c) == IF c = None \/ c.left = 0 THEN c ELSE [c EXCEPT !.left = @ - 1]

\* An instant passes.  Nothing takes as long as that, and the timer fires in each of them.
Pass ==
    /\ tick.fired /\ ~Checking
    /\ \A a \in Admins : op[a].pc = "idle"
    /\ \A s \in Signers : signer[s].pc = "idle"
    /\ row' = [k \in Kinds |-> [row[k] EXCEPT
                  !.active = Older(@), !.pending = Older(@),
                  !.age = IF row[k].pending # None /\ @ < Longest * Day THEN @ + 1 ELSE @]]
    /\ tick' = [tick EXCEPT !.fired = FALSE]
    /\ UNCHANGED <<check, op, signer, history, counters>>

\* The process stops wherever it is and starts again: only the row stays.
Restart ==
    /\ restarts < MaxRestarts /\ restarts' = restarts + 1
    /\ check' = NoCheck /\ raced' = {} /\ tick' = [tick EXCEPT !.boot = TRUE]
    /\ op' = [a \in Admins |-> NoOp]
    /\ signer' = [s \in Signers |-> [NoSigner EXCEPT !.used = signer[s].used]]
    /\ UNCHANGED <<row, manual, ops, faults>>

Found(k) == {None} \cup [id: {CHOOSE i \in Ids : TRUE}, left: Lifetimes[k]]

Init ==
    /\ \E found \in [Kinds -> UNION {Found(k) : k \in Kinds}], on \in [Kinds -> BOOLEAN] :
          /\ \A k \in Kinds : found[k] \in Found(k)
          /\ row = [k \in Kinds |-> [NoSnap[k] EXCEPT !.active = found[k], !.on = on[k]]]
    /\ check = NoCheck /\ tick = [fired |-> FALSE, boot |-> TRUE]
    /\ op = [a \in Admins |-> NoOp] /\ signer = [s \in Signers |-> NoSigner]
    /\ raced = {} /\ manual = {}
    /\ ops = 0 /\ faults = 0 /\ restarts = 0

CheckStep == CheckRead \/ CheckSkip \/ CheckEvaluate \/ CheckStart \/ CheckReread \/ CheckPromote
             \/ CheckFail \/ CheckFinish
OpStep(a) == ReadOp(a) \/ WriteOp(a)

Next ==
    \/ Tick \/ RunCheckOnDemand \/ CheckStep \/ CheckFault \/ CheckAborts
    \/ \E a \in Admins : OpStep(a) \/ AbandonOp(a) \/ \E o \in Ops, k \in Kinds : BeginOp(a, o, k)
    \/ \E k \in Kinds, on \in BOOLEAN : Toggle(k, on)
    \/ \E s \in Signers : NeedPair(s) \/ ClaimPair(s)
    \/ Pass \/ Restart

Spec == Init /\ [][Next]_vars

\* A check, a call and a first use go on until they end; the timer fires and time passes.
Fairness ==
    /\ WF_vars(CheckStep) /\ WF_vars(Tick) /\ WF_vars(Pass)
    /\ \A a \in Admins : WF_vars(OpStep(a))
    /\ \A s \in Signers : WF_vars(ClaimPair(s))
FairSpec == Spec /\ Fairness

-----------------------------------------------------------------------------
TypeOK ==
    /\ row \in [Kinds -> Row] /\ check \in Check
    /\ tick \in [fired: BOOLEAN, boot: BOOLEAN]
    /\ op \in [Admins -> Op] /\ signer \in [Signers -> Signer]
    /\ raced \subseteq Kinds /\ manual \subseteq Kinds
    /\ ops \in 0..MaxOps /\ faults \in 0..MaxFaults /\ restarts \in 0..MaxRestarts

\* Left to itself, automatic rotation replaces a certificate before it expires: the overlap shrinks
\* with the time that is left (effectiveOverlapDays).  A failed check costs an instant, and a restart
\* two: the check it cuts short, and the one after it, which may be put off.  The rotation survives as
\* many as leave the check that starts it and the one that completes it an instant of the lead, but
\* fewer than a day of them: the clamp counts whole days, so the promotion may fall due with one day
\* left.  Validity must leave a certificate that was published for the overlap, or a day, more than
\* the lead, and no certificate found at the start may be due already.
KeptAlive ==
    \A k \in Kinds : /\ row[k].on /\ ~row[k].off /\ k \notin manual /\ row[k].active # None
                     /\ Lead[k] + Overlap[k] < Validity /\ Lead[k] + 1 < Validity
                     /\ \A n \in Lifetimes[k] : n > Lead[k] * Day
                     /\ faults + 2 * restarts + 2 <= Lead[k] * Day /\ faults + restarts < Day
                     => row[k].active.left > 0

\* What an automatic check promotes is the pending certificate of that moment, published for the whole
\* overlap.  Excused are kinds into which a call wrote during the check that nothing keeps out of it:
\* startRotation, a new primary pair, the toggle, and a complete or cancel that looked at
\* autoRotationInFlight before the check began.
AutoPromotesElapsed ==
    [][\A k \in Kinds :
         check.pc = "promote" /\ check'.pc \notin {"promote", "idle", "fail"} /\ check.kind = k /\ k \notin raced
         => row'[k].active = row[k].pending /\ OverlapElapsed(k, row[k])]_vars

\* Of several first uses at once only one ever signs with a pair it generated itself: the others use
\* the pair that was stored, which is the one the metadata publish (ensureSigningMaterial).
FirstUseUnique ==
    \A s, t \in Signers : signer[s].used /\ signer[t].used => s = t

\* A rotation in progress, of whomever, is completed, once failures stop,
\* unless automatic rotation is off or disabled.
RotationEnds ==
    \A k \in Kinds : (row[k].pending # None) ~> (row[k].pending = None \/ ~row[k].on \/ row[k].off)
=============================================================================
