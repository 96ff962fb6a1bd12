------------------------ MODULE CertRotation_proofs ------------------------
(***************************************************************************)
(* Proofs about CertRotation: its types, that a first pair is stored once, *)
(* that an automatic check promotes only what was published for the        *)
(* overlap, and that rotation left to itself comes before the expiry.      *)
(*                                                                         *)
(* Working relates the snapshot and the plan of a check to the row, which  *)
(* others write between its steps.  Kept says what a kind can still        *)
(* afford: how much of the lead, of the overlap and of the last day may be *)
(* gone, given the failures and restarts so far and whether the check of   *)
(* this instant is still to come.                                          *)
(***************************************************************************)
EXTENDS CertRotation, TLAPS, FiniteSetTheorems

USE CertConstants, NoneIsNoCert

(* A fresh certificate.                                                    *)

\* An image of a finite set is no larger.
LEMMA ImageBound ==
  ASSUME NEW S, IsFiniteSet(S), NEW f
  PROVE  IsFiniteSet({f[x] : x \in S}) /\ Cardinality({f[x] : x \in S}) <= Cardinality(S)
<1> DEFINE T == {f[x] : x \in S}
           g == [x \in S |-> f[x]]
<1>1. g \in Surjection(S, T)
  BY DEF Surjection
<1> QED BY <1>1, FS_Surjection

\* The union of two finite sets has no more elements than both together.
LEMMA UnionBound ==
  ASSUME NEW S, NEW T, NEW m \in Nat, NEW n \in Nat,
         IsFiniteSet(S), IsFiniteSet(T), Cardinality(S) <= m, Cardinality(T) <= n
  PROVE  IsFiniteSet(S \cup T) /\ Cardinality(S \cup T) <= m + n
<1>1. /\ IsFiniteSet(S \cap T) /\ Cardinality(S \cap T) \in Nat
      /\ Cardinality(S) \in Nat /\ Cardinality(T) \in Nat
  BY FS_Intersection, FS_CardinalityType
<1>2. IsFiniteSet(S \cup T)
      /\ Cardinality(S \cup T) = Cardinality(S) + Cardinality(T) - Cardinality(S \cap T)
  BY FS_Union, Zenon
<1> DEFINE s == Cardinality(S)
           t == Cardinality(T)
           b == Cardinality(S \cap T)
           u == Cardinality(S \cup T)
<1>3. s \in Nat /\ t \in Nat /\ b \in Nat /\ u = s + t - b /\ s <= m /\ t <= n
  BY <1>1, <1>2
<1> HIDE DEF s, t, b, u
<1>4. u <= m + n
  BY <1>3
<1> QED BY <1>2, <1>4 DEF u

\* There are at most two kinds.
LEMMA KindsFinite == IsFiniteSet(Kinds) /\ Cardinality(Kinds) \in Nat
<1>1. IsFiniteSet({"signing", "encryption"})
  <2>1. IsFiniteSet({"signing"})
    BY FS_Singleton, Zenon
  <2>2. IsFiniteSet({"signing"} \cup {"encryption"})
    BY <2>1, FS_AddElement
  <2>3. {"signing"} \cup {"encryption"} = {"signing", "encryption"}
    OBVIOUS
  <2> QED BY <2>2, <2>3
<1> QED BY <1>1, FS_Subset, FS_CardinalityType

\* The certificates referred to are finitely many, and fewer than the names.
LEMMA InUseBound ==
    /\ IsFiniteSet(InUse)
    /\ Cardinality(InUse) <= 4 * Cardinality(Kinds) + 1 + Cardinality(Admins) + Cardinality(Signers)
<1> DEFINE K == Cardinality(Kinds)
           A == Cardinality(Admins)
           S == Cardinality(Signers)
           r == row
           s == check.snap
           C1 == {[j \in Kinds |-> r[j].active][k] : k \in Kinds}
           C2 == {[j \in Kinds |-> r[j].pending][k] : k \in Kinds}
           C3 == {[j \in Kinds |-> s[j].active][k] : k \in Kinds}
           C4 == {[j \in Kinds |-> s[j].pending][k] : k \in Kinds}
           C5 == {[b \in Admins |-> op[b].cert][a] : a \in Admins}
           C6 == {[u \in Signers |-> signer[u].cert][t] : t \in Signers}
<1>1. K \in Nat /\ A \in Nat /\ S \in Nat
  BY KindsFinite, EnoughIds, FS_CardinalityType
<1>2. /\ IsFiniteSet(C1) /\ Cardinality(C1) <= K /\ IsFiniteSet(C2) /\ Cardinality(C2) <= K
      /\ IsFiniteSet(C3) /\ Cardinality(C3) <= K /\ IsFiniteSet(C4) /\ Cardinality(C4) <= K
  <2>1. \A f : IsFiniteSet({f[k] : k \in Kinds}) /\ Cardinality({f[k] : k \in Kinds}) <= K
    BY KindsFinite, ImageBound
  <2> QED BY <2>1, Zenon
<1>3. IsFiniteSet(C5) /\ Cardinality(C5) <= A
  <2>1. \A f : IsFiniteSet({f[k] : k \in Admins}) /\ Cardinality({f[k] : k \in Admins}) <= A
    BY EnoughIds, ImageBound
  <2> QED BY <2>1, Zenon
<1>4. IsFiniteSet(C6) /\ Cardinality(C6) <= S
  <2>1. \A f : IsFiniteSet({f[k] : k \in Signers}) /\ Cardinality({f[k] : k \in Signers}) <= S
    BY EnoughIds, ImageBound
  <2> QED BY <2>1, Zenon
<1>5. InUse = ((C1 \cup C2) \cup (C3 \cup C4)) \cup ({check.cert} \cup (C5 \cup C6))
  <2>1. C5 = {op[a].cert : a \in Admins} /\ C6 = {signer[t].cert : t \in Signers}
    OBVIOUS
  <2>2. C1 \cup C2 = Held(row) /\ C3 \cup C4 = Held(check.snap)
    BY DEF Held
  <2> HIDE DEF C1, C2, C3, C4, C5, C6
  <2> QED BY <2>1, <2>2 DEF InUse
<1> HIDE DEF C1, C2, C3, C4, C5, C6, K, A, S
<1>6. IsFiniteSet(C1 \cup C2) /\ Cardinality(C1 \cup C2) <= K + K
  BY <1>1, <1>2, UnionBound
<1>7. IsFiniteSet(C3 \cup C4) /\ Cardinality(C3 \cup C4) <= K + K
  BY <1>1, <1>2, UnionBound
<1>8. IsFiniteSet(C5 \cup C6) /\ Cardinality(C5 \cup C6) <= A + S
  BY <1>1, <1>3, <1>4, UnionBound
<1>9. IsFiniteSet({check.cert} \cup (C5 \cup C6))
      /\ Cardinality({check.cert} \cup (C5 \cup C6)) <= 1 + (A + S)
  <2>1. IsFiniteSet({check.cert}) /\ Cardinality({check.cert}) <= 1 /\ 1 \in Nat /\ A + S \in Nat
    <3>1. IsFiniteSet({check.cert}) /\ Cardinality({check.cert}) = 1
      BY FS_Singleton, Zenon
    <3> QED BY <1>1, <3>1
  <2> QED BY <1>8, <2>1, UnionBound
<1>10. /\ IsFiniteSet((C1 \cup C2) \cup (C3 \cup C4))
       /\ Cardinality((C1 \cup C2) \cup (C3 \cup C4)) <= (K + K) + (K + K)
  <2>1. K + K \in Nat
    BY <1>1
  <2> QED BY <1>6, <1>7, <2>1, UnionBound
<1>11. IsFiniteSet(InUse) /\ Cardinality(InUse) <= ((K + K) + (K + K)) + (1 + (A + S))
  <2>1. (K + K) + (K + K) \in Nat /\ 1 + (A + S) \in Nat
    BY <1>1
  <2> QED BY <1>5, <1>9, <1>10, <2>1, UnionBound
<1>12. ((K + K) + (K + K)) + (1 + (A + S)) = 4 * K + 1 + A + S
  BY <1>1
<1> QED BY <1>11, <1>12 DEF K, A, S

\* What a generated certificate has left.
Fresh == Validity * Day

\* A name is always free, so what is generated is a certificate, with its whole life ahead.
LEMMA GeneratedCert == Generated \in Cert /\ Generated # None /\ Generated.left = Fresh
<1> DEFINE f == [c \in InUse |-> c.id]
           Named == {f[c] : c \in InUse}
<1>1. \E i \in Ids : i \notin Named
  <2> SUFFICES ASSUME Ids \subseteq Named PROVE FALSE
    OBVIOUS
  <2>1. IsFiniteSet(Named) /\ Cardinality(Named) <= Cardinality(InUse)
    BY InUseBound, ImageBound
  <2>2. IsFiniteSet(Ids) /\ Cardinality(Ids) <= Cardinality(Named)
    BY <2>1, FS_Subset
  <2>3. Cardinality(Ids) \in Nat /\ Cardinality(Named) \in Nat /\ Cardinality(InUse) \in Nat
    BY <2>1, <2>2, InUseBound, FS_CardinalityType
  <2>4. Cardinality(Kinds) \in Nat /\ Cardinality(Admins) \in Nat /\ Cardinality(Signers) \in Nat
    BY KindsFinite, EnoughIds, FS_CardinalityType
  <2> HIDE DEF Named
  <2> QED BY <2>1, <2>2, <2>3, <2>4, InUseBound, EnoughIds
<1>2. \E i \in Ids : \A c \in InUse \ {None} : c.id # i
  BY <1>1
<1>3. Validity * Day \in Nat
  OBVIOUS
<1> QED BY <1>2, <1>3 DEF Generated, Cert, Fresh

-----------------------------------------------------------------------------
(* The records.                                                            *)

\* What a promotion makes of the row.
LEMMA PromotedRow ==
  ASSUME NEW r \in Row, NEW c \in MaybeCert
  PROVE  /\ Promoted(r, c) \in Row
         /\ Promoted(r, c).active = c /\ Promoted(r, c).pending = None /\ Promoted(r, c).age = 0
         /\ Promoted(r, c).on = r.on /\ Promoted(r, c).off = r.off
<1>1. ASSUME NEW n \in Nat, NEW q, q = [r EXCEPT !.active = c, !.pending = None, !.age = n]
      PROVE  q \in Row /\ q.active = c /\ q.pending = None /\ q.age = n /\ q.on = r.on /\ q.off = r.off
  BY <1>1 DEF Row, MaybeCert
<1>2. 0 \in Nat
  OBVIOUS
<1> QED BY <1>1, <1>2, Zenon DEF Promoted

\* What the publication of a pending certificate makes of the row.
LEMMA PendingRow ==
  ASSUME NEW r \in Row, NEW c \in MaybeCert
  PROVE  /\ Pending(r, c) \in Row
         /\ Pending(r, c).active = r.active /\ Pending(r, c).pending = c /\ Pending(r, c).age = 0
         /\ Pending(r, c).on = r.on /\ Pending(r, c).off = r.off
<1>1. ASSUME NEW n \in Nat, NEW q, q = [r EXCEPT !.pending = c, !.age = n]
      PROVE  /\ q \in Row /\ q.active = r.active /\ q.pending = c /\ q.age = n
             /\ q.on = r.on /\ q.off = r.off
  BY <1>1 DEF Row, MaybeCert
<1>2. 0 \in Nat
  OBVIOUS
<1> QED BY <1>1, <1>2, Zenon DEF Pending

\* What a cancellation makes of the row.
LEMMA ClearedRow ==
  ASSUME NEW r \in Row
  PROVE  Cleared(r) \in Row /\ Cleared(r).active = r.active /\ Cleared(r).pending = None
<1>1. None \in MaybeCert
  BY DEF MaybeCert
<1>2. Cleared(r) = Pending(r, None)
  BY DEF Cleared, Pending
<1> QED BY <1>1, <1>2, PendingRow

\* The updates of the failures.
LEMMA SucceededRow ==
  ASSUME NEW r \in Row, NEW q, q = [r EXCEPT !.fails = 0]
  PROVE  /\ q \in Row
         /\ q.active = r.active /\ q.pending = r.pending /\ q.age = r.age /\ q.on = r.on /\ q.off = r.off
<1>1. ASSUME NEW n \in Nat, q = [r EXCEPT !.fails = n]
      PROVE  /\ q \in Row
             /\ q.active = r.active /\ q.pending = r.pending /\ q.age = r.age /\ q.on = r.on
             /\ q.off = r.off
  BY <1>1 DEF Row
<1>2. 0 \in Nat
  OBVIOUS
<1> QED BY <1>1, <1>2, q = [r EXCEPT !.fails = 0], Zenon

\* The check is at a kind.
Evaluating == {"evaluate", "start", "reread", "promote", "fail"}

\* The record of no snapshot is a row for each kind.
LEMMA NoSnapTyped == NoSnap \in [Kinds -> Row]
  BY DEF NoSnap, Row, MaybeCert

\* The fields of the record of no check.
LEMMA NoCheckFields ==
    /\ NoCheck \in Check /\ NoCheck.pc = "idle" /\ ~NoCheck.boot /\ NoCheck.cert = None
  BY NoSnapTyped DEF NoCheck, Check, MaybeCert

\* The fields of the record of no call.
LEMMA NoOpFields == NoOp \in Op /\ NoOp.pc = "idle" /\ NoOp.cert = None
  BY DEF NoOp, Op, Ops, MaybeCert

\* The fields of the record of no first use.
LEMMA NoSignerFields ==
    /\ NoSigner \in Signer /\ NoSigner.pc = "idle" /\ ~NoSigner.used /\ NoSigner.cert = None
  BY DEF NoSigner, Signer, MaybeCert

\* A check in flight goes on; otherwise one begins with the first kind.
LEMMA Begun ==
  ASSUME check \in Check, NEW boot \in BOOLEAN, BeginCheck(boot)
  PROVE  /\ check' \in Check
         /\ Checking => check' = check
         /\ ~Checking => /\ check'.pc = "read" /\ check'.boot = boot
                         /\ check'.kind = First /\ check'.cert = None
<1>1. First \in Kinds
  BY DEF First
<1> DEFINE c == [NoCheck EXCEPT !.pc = "read", !.boot = boot, !.kind = First]
<1>2. c \in Check /\ c.pc = "read" /\ c.boot = boot /\ c.kind = First /\ c.cert = None
  BY <1>1, NoCheckFields DEF Check
<1>3. ~Checking => check' = c
  BY DEF BeginCheck
<1>4. Checking => check' = check
  BY DEF BeginCheck
<1> HIDE DEF c
<1> QED BY <1>2, <1>3, <1>4

\* After a kind comes the next one, on the given row, or the final update.
LEMMA Advanced ==
  ASSUME check \in Check, NEW snap \in [Kinds -> Row], check.kind \in Kinds, Advance(snap)
  PROVE  /\ check' \in Check
         /\ HasNext(check.kind) => /\ check'.pc = "evaluate" /\ check'.kind = "encryption"
                                   /\ check'.snap = snap
                                   /\ check'.boot = check.boot /\ check'.cert = None
         /\ ~HasNext(check.kind) => check'.pc = "finish" /\ ~check'.boot /\ check'.cert = None
<1>1. CASE HasNext(check.kind)
  <2>1. check' = [check EXCEPT !.pc = "evaluate", !.kind = "encryption", !.snap = snap, !.cert = None]
    BY <1>1 DEF Advance
  <2>2. "encryption" \in Kinds
    BY <1>1 DEF HasNext
  <2> QED BY <1>1, <2>1, <2>2 DEF Check, MaybeCert
<1>2. CASE ~HasNext(check.kind)
  <2> DEFINE c == [NoCheck EXCEPT !.pc = "finish"]
  <2>1. c \in Check /\ c.pc = "finish" /\ ~c.boot /\ c.cert = None
    BY NoCheckFields DEF Check
  <2>2. check' = c
    BY <1>2 DEF Advance
  <2> HIDE DEF c
  <2> QED BY <1>2, <2>1, <2>2
<1> QED BY <1>1, <1>2

-----------------------------------------------------------------------------
(* Types, and what each step of a check and of a call holds in its hands.  *)

\* The check: its kind is one, what it will write is there, and only the boot check defers.
CheckOK ==
    /\ check.pc \in Evaluating => check.kind \in Kinds
    /\ check.pc = "read" => check.kind = First
    /\ check.pc \in {"start", "promote"} => check.cert # None
    /\ check.pc = "start" => check.cert.left = Fresh
    /\ check.pc \in {"idle", "finish"} => ~check.boot
    /\ check.boot => tick.fired /\ ~tick.boot

\* The calls: complete and cancel passed the guard, and what a call will write is there.
OpsOK ==
    \A a \in Admins : op[a].pc # "idle" =>
        /\ op[a].kind \in Kinds
        /\ op[a].op \in {"complete", "cancel"} => op[a].early
        /\ op[a].pc = "write" /\ op[a].op # "cancel" => op[a].cert # None

\* The first uses: they exist for signing only and hold a fresh pair.
SignersOK ==
    \A s \in Signers :
        /\ signer[s].pc = "claim" => signer[s].cert # None /\ signer[s].cert.left = Fresh
        /\ signer[s].used \/ signer[s].pc = "claim" => "signing" \in Kinds

\* Types and these shapes; whoever wrote during a check is an administrator.
Shape == TypeOK /\ CheckOK /\ OpsOK /\ SignersOK /\ raced \subseteq manual

\* A write changes the row of its kind.
LEMMA WriteTyped ==
  ASSUME row \in [Kinds -> Row], NEW k \in Kinds, NEW r \in Row, Write(k, r)
  PROVE  row' \in [Kinds -> Row] /\ row'[k] = r /\ \A j \in Kinds \ {k} : row'[j] = row[j]
  BY DEF Write

\* The steps that ask for a check preserve Shape.
LEMMA BeginShape ==
  ASSUME Shape, Tick \/ RunCheckOnDemand
  PROVE  Shape'
<1> USE DEF Shape, TypeOK, history, counters
<1>0. check \in Check /\ tick.boot \in BOOLEAN
  OBVIOUS
<1>1. CASE Tick
  <2>1. check' \in Check /\ (Checking => check' = check)
        /\ (~Checking => check'.pc = "read" /\ check'.boot = tick.boot /\ check'.kind = First)
    BY <1>0, <1>1, Begun DEF Tick
  <2>2. /\ tick'.fired /\ ~tick'.boot /\ tick' \in [fired: BOOLEAN, boot: BOOLEAN]
        /\ UNCHANGED <<row, op, signer, raced, manual, ops, faults, restarts>>
    BY <1>1 DEF Tick
  <2>3. CheckOK'
    BY <2>1, <2>2 DEF CheckOK, Evaluating, Checking
  <2> QED BY <2>1, <2>2, <2>3 DEF OpsOK, SignersOK
<1>2. CASE RunCheckOnDemand
  <2>1. check' \in Check /\ (Checking => check' = check)
        /\ (~Checking => check'.pc = "read" /\ ~check'.boot /\ check'.kind = First)
    BY <1>0, <1>2, Begun DEF RunCheckOnDemand
  <2>2. ops' \in 0..MaxOps /\ UNCHANGED <<row, tick, op, signer, raced, manual, faults, restarts>>
    BY <1>2 DEF RunCheckOnDemand
  <2>3. CheckOK'
    BY <2>1, <2>2 DEF CheckOK, Evaluating, Checking
  <2> QED BY <2>1, <2>2, <2>3 DEF OpsOK, SignersOK
<1> QED BY <1>1, <1>2

\* What a step of the check does to its own state.
LEMMA CheckTyped ==
  ASSUME check \in Check, row \in [Kinds -> Row], CheckOK
  PROVE  /\ CheckRead => /\ check' \in Check /\ check'.pc = "evaluate" /\ check'.snap = row
                         /\ check'.kind = check.kind /\ check'.boot = check.boot
         /\ CheckFault => /\ check' \in Check /\ check'.pc = "fail" /\ check'.snap = check.snap
                          /\ check'.kind = check.kind /\ check'.boot = check.boot
         /\ CheckEvaluate => /\ check' \in Check /\ check'.kind = check.kind /\ check'.boot = check.boot
                             /\ check'.snap = check.snap
                             /\ \/ check'.pc = "reread"
                                \/ check'.pc = "start" /\ check'.cert # None /\ check'.cert.left = Fresh
         /\ CheckReread /\ row[check.kind].pending # None
              => /\ check' \in Check /\ check'.kind = check.kind /\ check'.boot = check.boot
                 /\ check'.pc = "promote" /\ check'.cert = row[check.kind].pending
<1> USE DEF Check, MaybeCert
<1>1. CheckRead => /\ check' \in Check /\ check'.pc = "evaluate" /\ check'.snap = row
                   /\ check'.kind = check.kind /\ check'.boot = check.boot
  BY DEF CheckRead
<1>2. CheckFault => /\ check' \in Check /\ check'.pc = "fail" /\ check'.snap = check.snap
                    /\ check'.kind = check.kind /\ check'.boot = check.boot
  BY DEF CheckFault
<1>3. CheckEvaluate => /\ check' \in Check /\ check'.kind = check.kind /\ check'.boot = check.boot
                       /\ check'.snap = check.snap
                       /\ \/ check'.pc = "reread"
                          \/ check'.pc = "start" /\ check'.cert # None /\ check'.cert.left = Fresh
  <2> DEFINE g == Generated
  <2>1. g \in Cert /\ g # None /\ g.left = Fresh
    BY GeneratedCert
  <2>2. CheckEvaluate => \/ check' = [check EXCEPT !.pc = "reread"]
                         \/ check' = [check EXCEPT !.pc = "start", !.cert = g]
    BY DEF CheckEvaluate
  <2> HIDE DEF g
  <2>3. ASSUME check' = [check EXCEPT !.pc = "reread"]
        PROVE  /\ check' \in Check /\ check'.kind = check.kind /\ check'.boot = check.boot
               /\ check'.snap = check.snap /\ check'.pc = "reread"
    BY <2>3
  <2>4. ASSUME check' = [check EXCEPT !.pc = "start", !.cert = g]
        PROVE  /\ check' \in Check /\ check'.kind = check.kind /\ check'.boot = check.boot
               /\ check'.snap = check.snap /\ check'.pc = "start" /\ check'.cert = g
    BY <2>1, <2>4
  <2> QED BY <2>1, <2>2, <2>3, <2>4
<1>4. CheckReread /\ row[check.kind].pending # None
        => /\ check' \in Check /\ check'.kind = check.kind /\ check'.boot = check.boot
           /\ check'.pc = "promote" /\ check'.cert = row[check.kind].pending
  <2> SUFFICES ASSUME CheckReread, row[check.kind].pending # None
               PROVE  /\ check' \in Check /\ check'.kind = check.kind /\ check'.boot = check.boot
                      /\ check'.pc = "promote" /\ check'.cert = row[check.kind].pending
    OBVIOUS
  <2> DEFINE c == row[check.kind].pending
  <2>1. c \in MaybeCert /\ check' = [check EXCEPT !.pc = "promote", !.cert = c]
    BY DEF CheckReread, CheckOK, Evaluating, Row
  <2> HIDE DEF c
  <2>2. check' \in Check /\ check'.kind = check.kind /\ check'.boot = check.boot
        /\ check'.pc = "promote" /\ check'.cert = c
    BY <2>1
  <2> QED BY <2>2 DEF c
<1> QED BY <1>1, <1>2, <1>3, <1>4

\* What the writes of a check make of the row of its kind.
LEMMA CheckWrites ==
  ASSUME check \in Check, row \in [Kinds -> Row], CheckOK
  PROVE  /\ CheckStart => /\ row' \in [Kinds -> Row] /\ \A j \in Kinds \ {check.kind} : row'[j] = row[j]
                          /\ row'[check.kind].active = row[check.kind].active
                          /\ row'[check.kind].pending = check.cert /\ row'[check.kind].age = 0
                          /\ row'[check.kind].on = row[check.kind].on
                          /\ row'[check.kind].off = row[check.kind].off
         /\ CheckPromote => /\ row' \in [Kinds -> Row]
                            /\ \A j \in Kinds \ {check.kind} : row'[j] = row[j]
                            /\ row'[check.kind].active = check.cert /\ row'[check.kind].pending = None
                            /\ row'[check.kind].on = row[check.kind].on
                            /\ row'[check.kind].off = row[check.kind].off
         /\ CheckFail => /\ row' \in [Kinds -> Row] /\ \A j \in Kinds \ {check.kind} : row'[j] = row[j]
                         /\ row'[check.kind].active = row[check.kind].active
                         /\ row'[check.kind].pending = row[check.kind].pending
                         /\ row'[check.kind].age = row[check.kind].age
                         /\ row'[check.kind].on = row[check.kind].on
                         /\ row[check.kind].off => row'[check.kind].off
<1> DEFINE k == check.kind
<1>1. CheckStart => /\ row' \in [Kinds -> Row] /\ \A j \in Kinds \ {k} : row'[j] = row[j]
                    /\ row'[k].active = row[k].active /\ row'[k].pending = check.cert /\ row'[k].age = 0
                    /\ row'[k].on = row[k].on /\ row'[k].off = row[k].off
  <2> SUFFICES ASSUME CheckStart
               PROVE  /\ row' \in [Kinds -> Row] /\ \A j \in Kinds \ {k} : row'[j] = row[j]
                      /\ row'[k].active = row[k].active /\ row'[k].pending = check.cert
                      /\ row'[k].age = 0
                      /\ row'[k].on = row[k].on /\ row'[k].off = row[k].off
    OBVIOUS
  <2>1. k \in Kinds /\ row[k] \in Row /\ check.cert \in MaybeCert
    BY DEF CheckStart, CheckOK, Evaluating, Check
  <2> DEFINE p == Pending(row[k], check.cert)
             q == [p EXCEPT !.fails = 0]
  <2>2. /\ p \in Row /\ p.active = row[k].active /\ p.pending = check.cert /\ p.age = 0
        /\ p.on = row[k].on
        /\ p.off = row[k].off
    BY <2>1, PendingRow
  <2>3. Write(k, q)
    BY DEF CheckStart, Succeed
  <2> HIDE DEF p
  <2>4. q \in Row /\ q.active = p.active /\ q.pending = p.pending /\ q.age = p.age /\ q.on = p.on
        /\ q.off = p.off
    <3>1. q = [p EXCEPT !.fails = 0]
      OBVIOUS
    <3> HIDE DEF q
    <3> QED BY <2>2, <3>1, SucceededRow
  <2> HIDE DEF q, k
  <2> QED BY <2>1, <2>2, <2>3, <2>4, WriteTyped
<1>2. CheckPromote => /\ row' \in [Kinds -> Row] /\ \A j \in Kinds \ {k} : row'[j] = row[j]
                      /\ row'[k].active = check.cert /\ row'[k].pending = None
                      /\ row'[k].on = row[k].on /\ row'[k].off = row[k].off
  <2> SUFFICES ASSUME CheckPromote
               PROVE  /\ row' \in [Kinds -> Row] /\ \A j \in Kinds \ {k} : row'[j] = row[j]
                      /\ row'[k].active = check.cert /\ row'[k].pending = None
                      /\ row'[k].on = row[k].on /\ row'[k].off = row[k].off
    OBVIOUS
  <2>1. k \in Kinds /\ row[k] \in Row /\ check.cert \in MaybeCert
    BY DEF CheckPromote, CheckOK, Evaluating, Check
  <2> DEFINE p == Promoted(row[k], check.cert)
             q == [p EXCEPT !.fails = 0]
  <2>2. p \in Row /\ p.active = check.cert /\ p.pending = None /\ p.on = row[k].on /\ p.off = row[k].off
    BY <2>1, PromotedRow
  <2>3. Write(k, q)
    BY DEF CheckPromote, Succeed
  <2> HIDE DEF p
  <2>4. q \in Row /\ q.active = p.active /\ q.pending = p.pending /\ q.on = p.on /\ q.off = p.off
    <3>1. q = [p EXCEPT !.fails = 0]
      OBVIOUS
    <3> HIDE DEF q
    <3> QED BY <2>2, <3>1, SucceededRow
  <2> HIDE DEF q, k
  <2> QED BY <2>1, <2>2, <2>3, <2>4, WriteTyped
<1>3. CheckFail => /\ row' \in [Kinds -> Row] /\ \A j \in Kinds \ {k} : row'[j] = row[j]
                   /\ row'[k].active = row[k].active /\ row'[k].pending = row[k].pending
                   /\ row'[k].age = row[k].age /\ row'[k].on = row[k].on
                   /\ row[k].off => row'[k].off
  <2> SUFFICES ASSUME CheckFail
               PROVE  /\ row' \in [Kinds -> Row] /\ \A j \in Kinds \ {k} : row'[j] = row[j]
                      /\ row'[k].active = row[k].active /\ row'[k].pending = row[k].pending
                      /\ row'[k].age = row[k].age /\ row'[k].on = row[k].on
                      /\ row[k].off => row'[k].off
    OBVIOUS
  <2> DEFINE n == check.snap[k].fails + 1
             off == row[k].off \/ (Threshold > 0 /\ n >= Threshold)
             q == [row[k] EXCEPT !.fails = n, !.off = off]
  <2>1. k \in Kinds /\ row[k] \in Row /\ n \in Nat
    BY DEF CheckFail, CheckOK, Evaluating, Check, Row
  <2>2. Write(k, q)
    BY DEF CheckFail
  <2>3. off \in BOOLEAN /\ (row[k].off => off)
    <3>1. row[k].off \in BOOLEAN
      BY <2>1 DEF Row
    <3> QED BY <3>1
  <2> HIDE DEF n, off
  <2>4. q \in Row /\ q.active = row[k].active /\ q.pending = row[k].pending /\ q.age = row[k].age
        /\ q.on = row[k].on /\ q.off = off
    <3> DEFINE r == row[k]
    <3>1. q = [r EXCEPT !.fails = n, !.off = off] /\ r \in Row
      BY <2>1
    <3> HIDE DEF q, r
    <3>2. q \in Row /\ q.active = r.active /\ q.pending = r.pending /\ q.age = r.age /\ q.on = r.on
          /\ q.off = off
      <4>1. n \in Nat /\ off \in BOOLEAN
        BY <2>1, <2>3
      <4> QED BY <3>1, <4>1 DEF Row
    <3> QED BY <3>2 DEF r
  <2> HIDE DEF q, k
  <2>5. row' \in [Kinds -> Row] /\ row'[k] = q /\ \A j \in Kinds \ {k} : row'[j] = row[j]
    BY <2>1, <2>2, <2>4, WriteTyped
  <2> QED BY <2>3, <2>4, <2>5
<1> QED BY <1>1, <1>2, <1>3

\* The steps of a check preserve Shape.
LEMMA CheckShape ==
  ASSUME Shape, CheckStep \/ CheckFault \/ CheckAborts
  PROVE  Shape'
<1> USE DEF Shape, TypeOK
<1>0. check \in Check /\ row \in [Kinds -> Row] /\ CheckOK
  OBVIOUS
<1>a. UNCHANGED <<tick, op, signer, manual, ops, restarts>> /\ raced' \in {raced, {}}
      /\ faults' \in 0..MaxFaults
  BY DEF CheckStep, CheckRead, CheckSkip, CheckEvaluate, CheckStart, CheckReread, CheckPromote,
         CheckFail, CheckFinish,
         CheckFault, CheckAborts, history, counters
<1>b. /\ tick' \in [fired: BOOLEAN, boot: BOOLEAN] /\ op' \in [Admins -> Op]
      /\ signer' \in [Signers -> Signer]
      /\ raced' \subseteq Kinds /\ manual' \subseteq Kinds /\ raced' \subseteq manual'
      /\ ops' \in 0..MaxOps /\ faults' \in 0..MaxFaults /\ restarts' \in 0..MaxRestarts
  BY <1>a
<1>c. OpsOK' /\ SignersOK'
  BY <1>a DEF OpsOK, SignersOK
<1>d. SUFFICES row' \in [Kinds -> Row] /\ check' \in Check /\ CheckOK'
  BY <1>b, <1>c
<1> USE DEF CheckOK, Evaluating
<1>e. ASSUME NEW snap \in [Kinds -> Row], check.pc \in Evaluating, Advance(snap)
      PROVE  check' \in Check /\ CheckOK'
  <2>1. check.kind \in Kinds
    BY <1>e
  <2>2. \/ /\ check'.pc = "evaluate" /\ check'.kind = "encryption" /\ "encryption" \in Kinds
           /\ check'.boot = check.boot
        \/ check'.pc = "finish" /\ ~check'.boot
    BY <1>0, <1>e, <2>1, Advanced DEF HasNext
  <2>3. check' \in Check
    BY <1>0, <1>e, <2>1, Advanced
  <2> QED BY <1>a, <2>2, <2>3
<1>1. CASE CheckRead
  <2>1. check.kind \in Kinds
    BY <1>1 DEF CheckRead, First
  <2>2. /\ check' \in Check /\ check'.pc = "evaluate" /\ check'.kind = check.kind
        /\ check'.boot = check.boot
        /\ row' = row
    BY <1>0, <1>1, CheckTyped DEF CheckRead
  <2> QED BY <1>a, <2>1, <2>2
<1>2. CASE CheckSkip
  <2>1. check.snap \in [Kinds -> Row]
    BY DEF Check
  <2> QED BY <1>0, <1>2, <1>e, <2>1 DEF CheckSkip
<1>3. CASE CheckEvaluate
  BY <1>0, <1>3, <1>a, CheckTyped DEF CheckEvaluate
<1>4. CASE CheckFault
  BY <1>0, <1>4, <1>a, CheckTyped DEF CheckFault
<1>5. CASE CheckReread
  <2>1. CASE row[check.kind].pending # None
    BY <1>0, <1>5, <2>1, <1>a, CheckTyped DEF CheckReread
  <2>2. CASE row[check.kind].pending = None
    BY <1>0, <1>5, <1>e, <2>2 DEF CheckReread
  <2> QED BY <2>1, <2>2
<1>6. CASE CheckStart \/ CheckPromote \/ CheckFail
  <2>1. row' \in [Kinds -> Row] /\ Advance(row') /\ check.pc \in Evaluating
    BY <1>0, <1>6, CheckWrites DEF CheckStart, CheckPromote, CheckFail
  <2> QED BY <1>e, <2>1
<1>7. CASE CheckFinish \/ CheckAborts
  BY <1>0, <1>7, NoCheckFields DEF CheckFinish, CheckAborts
<1> QED BY <1>1, <1>2, <1>3, <1>4, <1>5, <1>6, <1>7 DEF CheckStep

\* What an administrator's write makes of the row: the active certificate is replaced, never removed.
LEMMA OpWrites ==
  ASSUME Shape, NEW a \in Admins, WriteOp(a)
  PROVE  /\ row' \in [Kinds -> Row] /\ op[a].kind \in Kinds
         /\ \A j \in Kinds \ {op[a].kind} : row'[j] = row[j]
         /\ row[op[a].kind].active # None => row'[op[a].kind].active # None
         /\ row'[op[a].kind].pending \in {row[op[a].kind].pending, None} \/ op[a].op = "start"
<1> DEFINE o == op[a]
           k == o.kind
           r == row[k]
           c == o.cert
           w == Written(o, r)
<1>1. /\ o \in Op /\ o.op \in Ops /\ c \in MaybeCert /\ k \in Kinds /\ r \in Row
      /\ o.op # "cancel" => c # None
  BY DEF Shape, TypeOK, OpsOK, WriteOp, Op
<1>2. /\ w \in Row /\ (r.active # None => w.active # None)
      /\ w.pending \in {r.pending, None} \/ o.op = "start"
  <2>1. CASE o.op = "primary"
    <3>1. w = [r EXCEPT !.active = c]
      BY <2>1 DEF Written
    <3> HIDE DEF w, r, c
    <3> QED BY <1>1, <2>1, <3>1 DEF Row
  <2>2. CASE o.op = "start"
    <3>1. w = Pending(r, c)
      BY <2>2 DEF Written
    <3> HIDE DEF w, r, c
    <3> QED BY <1>1, <2>2, <3>1, PendingRow
  <2>3. CASE o.op = "complete"
    <3>1. w = Promoted(r, c)
      BY <2>3 DEF Written
    <3> HIDE DEF w, r, c
    <3> QED BY <1>1, <2>3, <3>1, PromotedRow
  <2>4. CASE o.op = "cancel"
    <3>1. w = Cleared(r)
      BY <2>4 DEF Written
    <3> HIDE DEF w, r, c
    <3> QED BY <1>1, <3>1, ClearedRow
  <2> QED BY <1>1, <2>1, <2>2, <2>3, <2>4 DEF Ops
<1>3. Write(k, w)
  BY DEF WriteOp
<1>4. row \in [Kinds -> Row]
  BY DEF Shape, TypeOK
<1> HIDE DEF w
<1>5. row' \in [Kinds -> Row] /\ row'[k] = w /\ \A j \in Kinds \ {k} : row'[j] = row[j]
  BY <1>1, <1>2, <1>3, <1>4, WriteTyped
<1> QED BY <1>1, <1>2, <1>5

\* The steps of an administrator's call preserve Shape.
LEMMA OpShape ==
  ASSUME Shape, NEW a \in Admins, OpStep(a) \/ AbandonOp(a) \/ \E o \in Ops, k \in Kinds : BeginOp(a, o, k)
  PROVE  Shape'
<1> USE DEF Shape, TypeOK, history, counters
<1>0. op \in [Admins -> Op] /\ OpsOK
  OBVIOUS
<1>1. ASSUME NEW o \in Ops, NEW k \in Kinds, BeginOp(a, o, k) PROVE Shape'
  <2> DEFINE q == [NoOp EXCEPT !.pc = "read", !.op = o, !.kind = k, !.early = ~Checking]
  <2>1. q \in Op /\ q.pc = "read" /\ q.kind = k /\ q.op = o /\ (o \in {"complete", "cancel"} => q.early)
    <3>1. (~Checking) \in BOOLEAN /\ (o \in {"complete", "cancel"} => ~Checking)
      BY <1>1 DEF BeginOp, MayBegin
    <3> DEFINE e == ~Checking
    <3> HIDE DEF e
    <3>2. e \in BOOLEAN /\ (o \in {"complete", "cancel"} => e)
      BY <3>1 DEF e
    <3>3. q = [NoOp EXCEPT !.pc = "read", !.op = o, !.kind = k, !.early = e]
      BY DEF e
    <3> HIDE DEF q
    <3> QED BY <3>2, <3>3, NoOpFields DEF Op
  <2>2. /\ op' = [op EXCEPT ![a] = q] /\ ops' \in 0..MaxOps
        /\ UNCHANGED <<row, check, tick, signer, raced, manual, faults, restarts>>
    <3>1. op' = [op EXCEPT ![a] = q]
      BY <1>1, Zenon DEF BeginOp
    <3> HIDE DEF q
    <3>2. ops < MaxOps /\ ops' = ops + 1
      BY <1>1, Zenon DEF BeginOp
    <3>3. UNCHANGED <<row, check, tick, signer, raced, manual, faults, restarts>>
      BY <1>1 DEF BeginOp
    <3> QED BY <3>1, <3>2, <3>3
  <2> HIDE DEF q
  <2>3. op' \in [Admins -> Op] /\ OpsOK'
    BY <1>0, <2>1, <2>2 DEF OpsOK
  <2> QED BY <2>2, <2>3 DEF CheckOK, SignersOK
<1>2. CASE ReadOp(a)
  <2> DEFINE o == op[a]
             r == row[o.kind]
             c == CASE o.op = "complete" -> r.pending [] o.op = "cancel" -> None [] OTHER -> Generated
             q == IF ~Accepts(o.op, r) THEN NoOp ELSE [o EXCEPT !.pc = "write", !.cert = c]
  <2>1. o \in Op /\ o.pc = "read" /\ o.kind \in Kinds /\ r \in Row
    BY <1>2 DEF ReadOp, OpsOK
  <2>2. CASE ~Accepts(o.op, r)
    <3>1. q = NoOp
      BY <2>2
    <3> QED BY <1>2, <3>1, NoOpFields DEF ReadOp, OpsOK, CheckOK, SignersOK
  <2>3. CASE Accepts(o.op, r)
    <3>1. c \in MaybeCert /\ (o.op # "cancel" => c # None)
      <4>1. CASE o.op = "complete"
        BY <2>1, <2>3, <4>1, Zenon DEF Accepts, Row
      <4>2. CASE o.op = "cancel"
        BY <4>2 DEF MaybeCert
      <4>3. CASE o.op \notin {"complete", "cancel"}
        BY <4>3, GeneratedCert DEF MaybeCert
      <4> QED BY <4>1, <4>2, <4>3
    <3>2. q = [o EXCEPT !.pc = "write", !.cert = c]
      BY <2>3
    <3>3. op' = [op EXCEPT ![a] = q]
          /\ UNCHANGED <<row, check, tick, signer, raced, manual, ops, faults, restarts>>
      BY <1>2 DEF ReadOp
    <3> HIDE DEF c, r, q
    <3>4. /\ q \in Op /\ q.pc = "write" /\ q.kind = o.kind /\ q.op = o.op /\ q.early = o.early
          /\ q.cert = c
      BY <2>1, <3>1, <3>2 DEF Op
    <3>5. o.op \in {"complete", "cancel"} => o.early
      BY <2>1 DEF OpsOK
    <3> HIDE DEF o
    <3>6. op' \in [Admins -> Op] /\ OpsOK'
      BY <1>0, <2>1, <3>1, <3>3, <3>4, <3>5 DEF OpsOK
    <3> QED BY <3>3, <3>6 DEF CheckOK, SignersOK
  <2> QED BY <2>2, <2>3
<1>3. CASE WriteOp(a)
  <2>1. row' \in [Kinds -> Row] /\ op[a].kind \in Kinds
    BY <1>3, OpWrites
  <2>2. op' = [op EXCEPT ![a] = NoOp] /\ raced' \in {raced, raced \cup {op[a].kind}}
        /\ manual' = manual \cup {op[a].kind}
        /\ UNCHANGED <<check, tick, signer, ops, faults, restarts>>
    BY <1>3 DEF WriteOp
  <2> QED BY <2>1, <2>2, NoOpFields DEF OpsOK, CheckOK, SignersOK
<1>4. CASE AbandonOp(a)
  BY <1>4, NoOpFields DEF AbandonOp, OpsOK, CheckOK, SignersOK
<1> QED BY <1>1, <1>2, <1>3, <1>4 DEF OpStep

\* The toggle preserves Shape and leaves the certificates of every kind alone.
LEMMA ToggleShape ==
  ASSUME Shape, NEW k \in Kinds, NEW on \in BOOLEAN, Toggle(k, on)
  PROVE  /\ Shape'
         /\ row'[k].active = row[k].active /\ row'[k].pending = row[k].pending
         /\ \A j \in Kinds \ {k} : row'[j] = row[j]
<1> USE DEF Shape, TypeOK
<1> DEFINE r == row[k]
           w == IF on THEN [r EXCEPT !.on = TRUE, !.fails = 0, !.off = FALSE] ELSE [r EXCEPT !.on = FALSE]
<1>1. w \in Row /\ w.active = r.active /\ w.pending = r.pending
  <2>1. r \in Row
    OBVIOUS
  <2> HIDE DEF r
  <2>2. ASSUME NEW n \in Nat, NEW q, q = [r EXCEPT !.on = TRUE, !.fails = n, !.off = FALSE]
        PROVE  q \in Row /\ q.active = r.active /\ q.pending = r.pending
    BY <2>1, <2>2 DEF Row
  <2>3. ASSUME NEW q, q = [r EXCEPT !.on = FALSE]
        PROVE  q \in Row /\ q.active = r.active /\ q.pending = r.pending
    BY <2>1, <2>3 DEF Row
  <2>4. 0 \in Nat
    OBVIOUS
  <2>5. CASE on
    <3>1. w = [r EXCEPT !.on = TRUE, !.fails = 0, !.off = FALSE]
      BY <2>5
    <3> QED BY ONLY <2>2, <2>4, <3>1, Zenon
  <2>6. CASE ~on
    <3>1. w = [r EXCEPT !.on = FALSE]
      BY <2>6
    <3> QED BY ONLY <2>3, <3>1, Zenon
  <2> QED BY <2>5, <2>6
<1>2. Write(k, w)
  BY DEF Toggle
<1> HIDE DEF w
<1>3. row' \in [Kinds -> Row] /\ row'[k] = w /\ \A j \in Kinds \ {k} : row'[j] = row[j]
  BY <1>1, <1>2, WriteTyped
<1>4. /\ ops' \in 0..MaxOps /\ raced' \in {raced, raced \cup {k}} /\ manual' = manual \cup {k}
      /\ UNCHANGED <<check, tick, op, signer, faults, restarts>>
  BY DEF Toggle
<1>5. CheckOK' /\ OpsOK' /\ SignersOK'
  BY <1>4 DEF CheckOK, OpsOK, SignersOK
<1> QED BY <1>1, <1>3, <1>4, <1>5

\* A first use leaves a pair where there is one, and else stores its own.
LEMMA SignerShape ==
  ASSUME Shape, NEW s \in Signers, NeedPair(s) \/ ClaimPair(s)
  PROVE  /\ Shape'
         /\ row' # row => /\ ClaimPair(s) /\ "signing" \in Kinds /\ row["signing"].active = None
                          /\ row'["signing"].active = signer[s].cert
                          /\ \A j \in Kinds \ {"signing"} : row'[j] = row[j]
                          /\ signer[s].cert \in Cert /\ signer[s].cert.left = Fresh
         /\ ClaimPair(s) => "signing" \in Kinds /\ row'["signing"].active # None
         /\ \A k \in Kinds : /\ row'[k].pending = row[k].pending /\ row'[k].age = row[k].age
                             /\ row'[k].on = row[k].on /\ row'[k].off = row[k].off
<1> USE DEF Shape, TypeOK, history, counters
<1>1. CASE NeedPair(s)
  <2> DEFINE g == Generated
  <2>1. g \in Cert /\ g # None /\ g.left = Fresh
    BY GeneratedCert
  <2>2. /\ signer' = [signer EXCEPT ![s].pc = "claim", ![s].cert = g] /\ "signing" \in Kinds
        /\ UNCHANGED <<row, check, tick, op, raced, manual, ops, faults, restarts>>
    BY <1>1 DEF NeedPair
  <2> HIDE DEF g
  <2>3. /\ signer' \in [Signers -> Signer]
        /\ signer'[s].cert = g /\ \A t \in Signers \ {s} : signer'[t] = signer[t]
    <3> DEFINE q == [signer[s] EXCEPT !.pc = "claim", !.cert = g]
    <3>1. signer[s] \in Signer
      OBVIOUS
    <3>2. q \in Signer /\ q.cert = g
      BY <2>1, <3>1 DEF Signer, MaybeCert
    <3>3. signer' = [signer EXCEPT ![s] = q]
      BY <2>2
    <3> HIDE DEF q
    <3> QED BY <3>2, <3>3
  <2>5. SignersOK'
    BY <2>1, <2>2, <2>3 DEF SignersOK
  <2>4. ~ClaimPair(s)
    BY <1>1 DEF NeedPair, ClaimPair
  <2> QED BY <2>2, <2>3, <2>4, <2>5 DEF CheckOK, OpsOK
<1>2. CASE ClaimPair(s)
  <2> DEFINE c == signer[s].cert
             u == signer[s].used \/ Claimable
             n == [NoSigner EXCEPT !.used = u]
  <2>1. c \in Cert /\ c # None /\ c.left = Fresh /\ "signing" \in Kinds
    BY <1>2 DEF ClaimPair, SignersOK, Signer, MaybeCert
  <2>2. n \in Signer /\ n.pc = "idle"
    <3>1. u \in BOOLEAN
      BY DEF Signer, Claimable
    <3> HIDE DEF u
    <3> QED BY <3>1, NoSignerFields DEF Signer
  <2>3. signer' = [signer EXCEPT ![s] = n]
    BY <1>2, Zenon DEF ClaimPair
  <2>4. UNCHANGED <<check, tick, op, raced, manual, ops, faults, restarts>>
    BY <1>2 DEF ClaimPair
  <2> HIDE DEF n
  <2>5. signer' \in [Signers -> Signer] /\ SignersOK'
    BY <2>1, <2>2, <2>3 DEF SignersOK
  <2> DEFINE r == row["signing"]
             w == [r EXCEPT !.active = c]
  <2>6. r \in Row
    BY <2>1
  <2>7. w \in Row /\ w.active = c /\ w.pending = r.pending /\ w.age = r.age /\ w.on = r.on
        /\ w.off = r.off
    <3> HIDE DEF r, c
    <3> QED BY <2>1, <2>6 DEF Row, MaybeCert
  <2>8. CASE Claimable
    <3>1. Write("signing", w)
      BY <1>2, <2>8 DEF ClaimPair
    <3>2. row' \in [Kinds -> Row] /\ row'["signing"] = w
          /\ \A j \in Kinds \ {"signing"} : row'[j] = row[j]
      <4> HIDE DEF w
      <4> QED BY <2>1, <2>7, <3>1, WriteTyped
    <3>3. Shape'
      BY <2>4, <2>5, <3>2 DEF CheckOK, OpsOK
    <3> QED BY <1>2, <2>1, <2>7, <2>8, <3>2, <3>3 DEF Claimable
  <2>9. CASE ~Claimable
    <3>1. row' = row
      BY <1>2, <2>9 DEF ClaimPair
    <3>2. Shape'
      BY <2>4, <2>5, <3>1 DEF CheckOK, OpsOK
    <3> QED BY <2>1, <2>9, <3>1, <3>2 DEF Claimable
  <2> QED BY <2>8, <2>9
<1> QED BY <1>1, <1>2

\* The maximum is one of the overlaps.
LEMMA LongestBounds == Longest \in Nat /\ \A k \in Kinds : Overlap[k] <= Longest
<1>1. \E n \in {Overlap[k] : k \in Kinds} : \A k \in Kinds : Overlap[k] <= n
  <2>1. PICK k \in Kinds : \A j \in Kinds : Overlap[j] <= Overlap[k]
    <3>1. CASE Kinds = {"signing"} \/ Kinds = {"encryption"}
      BY <3>1
    <3>2. CASE Kinds = {"signing", "encryption"}
      BY <3>2
    <3> QED BY <3>1, <3>2
  <2> QED BY <2>1
<1> QED BY <1>1 DEF Longest

\* An instant takes one from what a certificate has left, down to zero.
LEMMA OlderCert ==
  ASSUME NEW c \in MaybeCert
  PROVE  /\ Older(c) \in MaybeCert
         /\ Older(c) = None <=> c = None
         /\ c # None => Older(c).left = IF c.left = 0 THEN 0 ELSE c.left - 1
<1>1. CASE c = None
  BY <1>1 DEF Older, MaybeCert
<1>2. CASE c \in Cert
  BY <1>2 DEF Older, MaybeCert, Cert
<1> QED BY <1>1, <1>2 DEF MaybeCert

\* An instant makes both certificates older, and the rotation in progress.
LEMMA PassShape ==
  ASSUME Shape, Pass
  PROVE  /\ Shape'
         /\ \A k \in Kinds :
              /\ row'[k].active = Older(row[k].active) /\ row'[k].pending = Older(row[k].pending)
              /\ row'[k].age = IF row[k].pending # None /\ row[k].age < Longest * Day
                               THEN row[k].age + 1 ELSE row[k].age
              /\ row'[k].on = row[k].on /\ row'[k].off = row[k].off
<1> USE DEF Shape, TypeOK, history, counters
<1> DEFINE w(k) == [row[k] EXCEPT !.active = Older(@), !.pending = Older(@),
                                  !.age = IF row[k].pending # None /\ @ < Longest * Day
                                          THEN @ + 1 ELSE @]
<1>1. ASSUME NEW k \in Kinds
      PROVE  /\ w(k) \in Row
             /\ w(k).active = Older(row[k].active) /\ w(k).pending = Older(row[k].pending)
             /\ w(k).age = IF row[k].pending # None /\ row[k].age < Longest * Day
                           THEN row[k].age + 1 ELSE row[k].age
             /\ w(k).on = row[k].on /\ w(k).off = row[k].off
  <2> DEFINE r == row[k]
             a == Older(r.active)
             p == Older(r.pending)
             n == IF r.pending # None /\ r.age < Longest * Day THEN r.age + 1 ELSE r.age
  <2>1. r \in Row
    OBVIOUS
  <2>2. a \in MaybeCert /\ p \in MaybeCert
    BY <2>1, OlderCert DEF Row
  <2>3. n \in Nat
    BY <2>1 DEF Row
  <2>4. w(k) = [r EXCEPT !.active = a, !.pending = p, !.age = n]
    BY <2>1 DEF Row
  <2> HIDE DEF r, a, p, n, w
  <2>5. /\ w(k) \in Row /\ w(k).active = a /\ w(k).pending = p /\ w(k).age = n /\ w(k).on = r.on
        /\ w(k).off = r.off
    BY <2>1, <2>2, <2>3, <2>4 DEF Row
  <2> QED BY <2>5 DEF r, a, p, n
<1>2. row' = [k \in Kinds |-> w(k)]
  BY DEF Pass
<1> HIDE DEF w
<1>3. \A k \in Kinds : row'[k] = w(k)
  BY <1>2
<1>4. row' \in [Kinds -> Row]
  BY <1>1, <1>2
<1>5. /\ tick' \in [fired: BOOLEAN, boot: BOOLEAN] /\ tick'.boot = tick.boot /\ check.pc = "idle"
      /\ UNCHANGED <<check, op, signer, raced, manual, ops, faults, restarts>>
  BY DEF Pass, Checking
<1>6. CheckOK' /\ OpsOK' /\ SignersOK'
  BY <1>5 DEF CheckOK, OpsOK, SignersOK, Evaluating
<1> QED BY <1>1, <1>3, <1>4, <1>5, <1>6

\* A restart preserves Shape.
LEMMA RestartShape ==
  ASSUME Shape, Restart
  PROVE  Shape'
<1> USE DEF Shape, TypeOK
<1>1. /\ check' = NoCheck /\ raced' = {} /\ tick' = [tick EXCEPT !.boot = TRUE]
      /\ op' = [a \in Admins |-> NoOp]
      /\ restarts' \in 0..MaxRestarts
      /\ UNCHANGED <<row, manual, ops, faults>>
  BY DEF Restart
<1>2. tick' \in [fired: BOOLEAN, boot: BOOLEAN] /\ op' \in [Admins -> Op] /\ CheckOK' /\ OpsOK'
  BY <1>1, NoOpFields, NoCheckFields DEF CheckOK, OpsOK, Evaluating
<1> DEFINE n(s) == [NoSigner EXCEPT !.used = signer[s].used]
<1>3. signer' = [s \in Signers |-> n(s)]
  BY DEF Restart
<1>4. ASSUME NEW s \in Signers PROVE n(s) \in Signer /\ n(s).pc = "idle" /\ n(s).used = signer[s].used
  <2> DEFINE u == signer[s].used
  <2>1. u \in BOOLEAN
    BY DEF Signer
  <2>2. n(s) = [NoSigner EXCEPT !.used = u]
    OBVIOUS
  <2> HIDE DEF u, n
  <2>3. n(s) \in Signer /\ n(s).pc = "idle" /\ n(s).used = u
    BY <2>1, <2>2, NoSignerFields DEF Signer
  <2> QED BY <2>3 DEF u
<1> HIDE DEF n
<1>5. signer' \in [Signers -> Signer] /\ SignersOK'
  BY <1>3, <1>4 DEF SignersOK
<1> QED BY <1>1, <1>2, <1>5, NoCheckFields

\* Shape holds initially, no rotation is in progress, and a certificate found has a life found.
LEMMA InitShape ==
  ASSUME Init
  PROVE  /\ Shape
         /\ \A k \in Kinds : /\ row[k].pending = None
                             /\ row[k].active # None => row[k].active.left \in Lifetimes[k]
<1> USE DEF Shape, TypeOK
<1>1. PICK found \in [Kinds -> UNION {Found(k) : k \in Kinds}], on \in [Kinds -> BOOLEAN] :
        /\ \A k \in Kinds : found[k] \in Found(k)
        /\ row = [k \in Kinds |-> [NoSnap[k] EXCEPT !.active = found[k], !.on = on[k]]]
  BY DEF Init
<1>2. ASSUME NEW k \in Kinds
      PROVE  /\ row[k] \in Row /\ row[k].pending = None
             /\ row[k].active # None => row[k].active.left \in Lifetimes[k]
  <2> DEFINE f == found[k]
             b == on[k]
  <2>1. f \in MaybeCert /\ b \in BOOLEAN /\ (f # None => f.left \in Lifetimes[k])
    <3>1. (CHOOSE i \in Ids : TRUE) \in Ids
      BY EnoughIds
    <3> QED BY <1>1, <3>1 DEF Found, MaybeCert, Cert
  <2>2. row[k] = [NoSnap[k] EXCEPT !.active = f, !.on = b]
    BY <1>1
  <2> HIDE DEF f, b
  <2>3. NoSnap[k] \in Row /\ NoSnap[k].pending = None
    BY NoSnapTyped DEF NoSnap
  <2> DEFINE r == NoSnap[k]
  <2>4. r \in Row /\ r.pending = None /\ row[k] = [r EXCEPT !.active = f, !.on = b]
    BY <2>2, <2>3
  <2> HIDE DEF r
  <2>5. row[k] \in Row /\ row[k].pending = None /\ row[k].active = f
    BY <2>1, <2>4 DEF Row
  <2> QED BY <2>1, <2>5
<1>3. row \in [Kinds -> Row]
  BY <1>1, <1>2
<1>4. /\ tick \in [fired: BOOLEAN, boot: BOOLEAN] /\ op \in [Admins -> Op]
      /\ signer \in [Signers -> Signer]
      /\ CheckOK /\ OpsOK /\ SignersOK
  BY NoCheckFields, NoOpFields, NoSignerFields DEF Init, CheckOK, OpsOK, SignersOK, Evaluating
<1>5. check \in Check /\ raced = {} /\ manual = {} /\ ops = 0 /\ faults = 0 /\ restarts = 0
  BY NoCheckFields DEF Init
<1>6. ops \in 0..MaxOps /\ faults \in 0..MaxFaults /\ restarts \in 0..MaxRestarts
  BY <1>5
<1> QED BY <1>2, <1>3, <1>4, <1>5, <1>6

\* Every step preserves Shape.
LEMMA ShapeStep ==
  ASSUME Shape, [Next]_vars
  PROVE  Shape'
<1>1. CASE UNCHANGED vars
  BY <1>1 DEF vars, history, counters, Shape, TypeOK, CheckOK, OpsOK, SignersOK
<1>2. CASE Next
  BY <1>2, BeginShape, CheckShape, OpShape, ToggleShape, SignerShape, PassShape, RestartShape DEF Next
<1> QED BY <1>1, <1>2

-----------------------------------------------------------------------------
(* The first pair.                                                         *)

\* No step removes an active certificate.
LEMMA ActiveKept ==
  ASSUME Shape, [Next]_vars, NEW k \in Kinds, row[k].active # None
  PROVE  row'[k].active # None
<1> USE DEF history, counters
<1>0. check \in Check /\ row \in [Kinds -> Row] /\ CheckOK
  BY DEF Shape, TypeOK
<1>1. CASE CheckStart \/ CheckPromote \/ CheckFail
  BY <1>0, <1>1, CheckWrites DEF CheckOK, CheckPromote, CheckStart, CheckFail
<1>2. CASE CheckRead \/ CheckSkip \/ CheckEvaluate \/ CheckReread \/ CheckFinish \/ CheckFault
           \/ CheckAborts \/ Tick
           \/ RunCheckOnDemand \/ Restart
  BY <1>2 DEF CheckRead, CheckSkip, CheckEvaluate, CheckReread, CheckFinish, CheckFault, CheckAborts,
              Tick,
              RunCheckOnDemand, Restart
<1>3. ASSUME NEW a \in Admins, OpStep(a) \/ AbandonOp(a) \/ \E o \in Ops, j \in Kinds : BeginOp(a, o, j)
      PROVE  row'[k].active # None
  <2>1. CASE WriteOp(a)
    BY <2>1, OpWrites
  <2> QED BY <1>3, <2>1 DEF OpStep, ReadOp, AbandonOp, BeginOp
<1>4. ASSUME NEW j \in Kinds, NEW on \in BOOLEAN, Toggle(j, on) PROVE row'[k].active # None
  BY <1>4, ToggleShape
<1>5. ASSUME NEW s \in Signers, NeedPair(s) \/ ClaimPair(s) PROVE row'[k].active # None
  BY <1>5, SignerShape
<1>6. CASE Pass
  <2>1. row[k].active \in MaybeCert
    BY <1>0 DEF Row
  <2> QED BY <1>6, <2>1, PassShape, OlderCert
<1>7. CASE UNCHANGED vars
  BY <1>7 DEF vars
<1> QED BY <1>1, <1>2, <1>3, <1>4, <1>5, <1>6, <1>7 DEF Next, CheckStep

\* A caller that signs with its own pair stored it.
PairStored == \A s \in Signers : signer[s].used => row["signing"].active # None

\* Every step preserves FirstUseUnique: the update finds the pair of whoever was first.
LEMMA PairStep ==
  ASSUME Shape, PairStored, FirstUseUnique, [Next]_vars
  PROVE  PairStored' /\ FirstUseUnique'
<1> USE DEF PairStored, FirstUseUnique
<1>0. /\ signer \in [Signers -> Signer]
      /\ \A s \in Signers : signer[s].used => "signing" \in Kinds
  BY DEF Shape, TypeOK, SignersOK
<1>1. ASSUME \A s \in Signers : signer'[s].used => signer[s].used
      PROVE  PairStored' /\ FirstUseUnique'
  BY <1>0, <1>1, ActiveKept
<1>2. ASSUME NEW s \in Signers, ClaimPair(s) PROVE PairStored' /\ FirstUseUnique'
  <2>1. "signing" \in Kinds /\ row'["signing"].active # None
    BY <1>2, SignerShape
  <2>2. \A t \in Signers \ {s} : signer'[t] = signer[t]
    BY <1>0, <1>2 DEF ClaimPair
  <2>3. CASE Claimable
    BY <2>1, <2>2, <2>3 DEF Claimable
  <2>4. CASE ~Claimable
    <3> DEFINE u == signer[s].used \/ Claimable
    <3>1. signer'[s].used = u
      <4> DEFINE n == [NoSigner EXCEPT !.used = u]
      <4>1. signer' = [signer EXCEPT ![s] = n]
        BY <1>2, Zenon DEF ClaimPair
      <4>2. n.used = u
        <5> HIDE DEF u
        <5> QED BY NoSignerFields DEF Signer
      <4> HIDE DEF n, u
      <4> QED BY <1>0, <4>1, <4>2
    <3>2. signer'[s].used => signer[s].used
      BY <2>4, <3>1
    <3> QED BY <1>1, <2>2, <3>2
  <2> QED BY <2>3, <2>4
<1>3. ASSUME NEW s \in Signers, NeedPair(s) PROVE PairStored' /\ FirstUseUnique'
  <2>1. \A t \in Signers : signer'[t].used = signer[t].used
    <3>1. \E g : signer' = [signer EXCEPT ![s].pc = "claim", ![s].cert = g]
      BY <1>3 DEF NeedPair
    <3> QED BY <1>0, <3>1 DEF Signer
  <2> QED BY <1>1, <2>1
<1>4. CASE Restart
  <2>1. \A s \in Signers : signer'[s] = [NoSigner EXCEPT !.used = signer[s].used]
    BY <1>4 DEF Restart
  <2>2. ASSUME NEW s \in Signers PROVE signer'[s].used = signer[s].used
    <3> DEFINE u == signer[s].used
    <3>1. signer'[s] = [NoSigner EXCEPT !.used = u]
      BY <2>1
    <3> HIDE DEF u
    <3>2. [NoSigner EXCEPT !.used = u].used = u
      BY DEF NoSigner
    <3>3. signer'[s].used = u
      BY <3>1, <3>2
    <3> QED BY <3>3 DEF u
  <2> QED BY <1>1, <2>2
<1>5. CASE UNCHANGED signer
  BY <1>1, <1>5
<1> QED BY <1>2, <1>3, <1>4, <1>5 
   DEF Next, vars, CheckStep, CheckRead, CheckSkip, CheckEvaluate, CheckStart, CheckReread,
       CheckPromote, CheckFail, CheckFinish, CheckFault, CheckAborts, Tick, RunCheckOnDemand, OpStep, ReadOp,
       WriteOp, AbandonOp, BeginOp, Toggle, Pass

-----------------------------------------------------------------------------
(* What the check works on.                                                *)

\* A rotation in progress replaces something.
RotationOK ==
    /\ \A k \in Kinds : row[k].pending # None => row[k].active # None
    /\ \A a \in Admins : op[a].pc = "write" /\ op[a].op = "start" => row[op[a].kind].active # None
    /\ \A k \in Kinds : check.pc = "evaluate" /\ check.snap[k].active # None => row[k].active # None
    /\ check.pc \in {"start", "reread", "promote"} => row[check.kind].active # None

\* A pair was stored since the snapshot was taken.
Claimed(k) ==
    /\ check.snap[k].active = None
    /\ row[k].active # None /\ row[k].active.left = Fresh /\ row[k].pending = None

\* The snapshot the check evaluates is the row, but for a raced kind and a pair stored since.
SnapOK == \A k \in Kinds \ raced : check.pc = "evaluate" => check.snap[k] = row[k] \/ Claimed(k)

\* What the evaluation found due is due when it is written, but for a raced kind.
DueOK ==
    check.kind \notin raced =>
        LET k == check.kind IN
        /\ check.pc = "start" => row[k].pending = None /\ Starts(k, row[k])
        /\ check.pc \in {"reread", "promote"} => Completes(k, row[k])
        /\ check.pc = "promote" => check.cert = row[k].pending

\* What a check relies on.
Working == RotationOK /\ SnapOK /\ DueOK

\* Every step preserves RotationOK.
LEMMA RotationStep ==
  ASSUME Shape, RotationOK, [Next]_vars
  PROVE  RotationOK'
<1> USE DEF history, counters
<1>0. /\ check \in Check /\ row \in [Kinds -> Row] /\ CheckOK /\ op \in [Admins -> Op] /\ OpsOK
      /\ \A k \in Kinds : row[k].active # None => row'[k].active # None
  BY ActiveKept DEF Shape, TypeOK
<1>1. CASE CheckStep \/ CheckFault \/ CheckAborts
  <2>0. op' = op
    BY <1>1 DEF CheckStep, CheckRead, CheckSkip, CheckEvaluate, CheckStart, CheckReread, CheckPromote,
                CheckFail,
                CheckFinish, CheckFault, CheckAborts
  <2>1. ASSUME NEW snap \in [Kinds -> Row], check.pc \in Evaluating, Advance(snap),
               \A k \in Kinds : snap[k].active # None => row'[k].active # None,
               \A k \in Kinds : row'[k].pending # None => row'[k].active # None
        PROVE  RotationOK'
    <3>1. \/ check'.pc = "evaluate" /\ check'.snap = snap
          \/ check'.pc = "finish"
      BY <1>0, <2>1, Advanced DEF CheckOK
    <3> QED BY <1>0, <2>0, <2>1, <3>1 DEF RotationOK, OpsOK
  <2>2. CASE CheckRead
    <3>1. check'.pc = "evaluate" /\ check'.snap = row /\ row' = row
      BY <1>0, <2>2, CheckTyped DEF CheckRead
    <3> QED BY <1>0, <2>0, <3>1 DEF RotationOK
  <2>3. CASE CheckSkip
    <3>1. check.snap \in [Kinds -> Row] /\ Advance(check.snap) /\ check.pc = "evaluate" /\ row' = row
      BY <1>0, <2>3 DEF CheckSkip, Check
    <3> QED BY <2>1, <3>1 DEF RotationOK, Evaluating
  <2>4. CASE CheckEvaluate
    <3>1. /\ check'.kind = check.kind /\ check'.pc \in {"start", "reread"} /\ row' = row
          /\ check.pc = "evaluate"
          /\ check.snap[check.kind].active # None /\ check.kind \in Kinds
      BY <1>0, <2>4, CheckTyped DEF CheckEvaluate, Managed, CheckOK, Evaluating
    <3> QED BY <1>0, <2>0, <3>1 DEF RotationOK
  <2>5. CASE CheckStart \/ CheckPromote \/ CheckFail
    <3>1. /\ row' \in [Kinds -> Row] /\ Advance(row') /\ check.pc \in Evaluating
          /\ \A j \in Kinds \ {check.kind} : row'[j] = row[j]
          /\ check.kind \in Kinds
      BY <1>0, <2>5, CheckWrites DEF CheckStart, CheckPromote, CheckFail, Evaluating, CheckOK
    <3>2. row'[check.kind].pending # None => row'[check.kind].active # None
      BY <1>0, <2>5, <3>1, CheckWrites DEF CheckStart, CheckPromote, CheckFail, RotationOK
    <3> QED BY <2>1, <3>1, <3>2 DEF RotationOK
  <2>6. CASE CheckReread
    <3>1. CASE row[check.kind].pending # None
      <4>1. check'.pc = "promote" /\ check'.kind = check.kind /\ row' = row /\ check.pc = "reread"
        BY <1>0, <2>6, <3>1, CheckTyped DEF CheckReread
      <4> QED BY <1>0, <2>0, <4>1 DEF RotationOK
    <3>2. CASE row[check.kind].pending = None
      BY <1>0, <2>1, <2>6, <3>2 DEF CheckReread, Evaluating, RotationOK
    <3> QED BY <3>1, <3>2
  <2>7. CASE CheckFinish \/ CheckAborts
    BY <1>0, <2>0, <2>7, NoCheckFields DEF CheckFinish, CheckAborts, RotationOK
  <2>8. CASE CheckFault
    <3>1. check'.pc = "fail" /\ row' = row
      BY <1>0, <2>8, CheckTyped DEF CheckFault
    <3> QED BY <1>0, <2>0, <3>1 DEF RotationOK
  <2> QED BY <1>1, <2>2, <2>3, <2>4, <2>5, <2>6, <2>7, <2>8 DEF CheckStep
<1>2. CASE Tick \/ RunCheckOnDemand
  <2>1. tick.boot \in BOOLEAN
    BY DEF Shape, TypeOK
  <2>2. check' = check \/ check'.pc = "read"
    BY <1>0, <1>2, <2>1, Begun DEF Tick, RunCheckOnDemand
  <2>3. UNCHANGED <<row, op>>
    BY <1>2 DEF Tick, RunCheckOnDemand
  <2> QED BY <1>0, <2>2, <2>3 DEF RotationOK
<1>3. ASSUME NEW a \in Admins, OpStep(a) \/ AbandonOp(a) \/ \E o \in Ops, j \in Kinds : BeginOp(a, o, j)
      PROVE  RotationOK'
  <2>0. check' = check
    BY <1>3 DEF OpStep, ReadOp, WriteOp, AbandonOp, BeginOp
  <2>1. ASSUME NEW o \in Ops, NEW k \in Kinds, BeginOp(a, o, k) PROVE RotationOK'
    <3> DEFINE q == [NoOp EXCEPT !.pc = "read", !.op = o, !.kind = k, !.early = ~Checking]
    <3>1. op' = [op EXCEPT ![a] = q] /\ row' = row
      BY <2>1, Zenon DEF BeginOp
    <3>2. q.pc = "read"
      BY NoOpFields DEF Op
    <3> HIDE DEF q
    <3> QED BY <1>0, <2>0, <3>1, <3>2 DEF RotationOK
  <2>2. CASE ReadOp(a)
    <3>1. row' = row /\ \A b \in Admins \ {a} : op'[b] = op[b]
      BY <1>0, <2>2 DEF ReadOp
    <3>2. op'[a].pc = "write" /\ op'[a].op = "start" => row[op'[a].kind].active # None
      <4>1. CASE ~Accepts(op[a].op, row[op[a].kind])
        BY <1>0, <2>2, <4>1, NoOpFields DEF ReadOp
      <4>2. CASE Accepts(op[a].op, row[op[a].kind])
        <5>1. \E c : op' = [op EXCEPT ![a] = [op[a] EXCEPT !.pc = "write", !.cert = c]]
          BY <2>2, <4>2 DEF ReadOp
        <5>2. op'[a].op = op[a].op /\ op'[a].kind = op[a].kind
          BY <1>0, <5>1 DEF Op
        <5> QED BY <4>2, <5>2 DEF Accepts
      <4> QED BY <4>1, <4>2
    <3> QED BY <1>0, <2>0, <3>1, <3>2 DEF RotationOK
  <2>3. CASE WriteOp(a)
    <3>1. op' = [op EXCEPT ![a] = NoOp] /\ op[a].pc = "write"
      BY <2>3 DEF WriteOp
    <3>2. /\ op[a].kind \in Kinds /\ \A j \in Kinds \ {op[a].kind} : row'[j] = row[j]
          /\ row'[op[a].kind].pending \in {row[op[a].kind].pending, None} \/ op[a].op = "start"
      BY <2>3, OpWrites
    <3> QED BY <1>0, <2>0, <3>1, <3>2, NoOpFields DEF RotationOK, OpsOK, CheckOK, Evaluating
  <2>4. CASE AbandonOp(a)
    BY <1>0, <2>4, NoOpFields DEF AbandonOp, RotationOK
  <2> QED BY <1>3, <2>1, <2>2, <2>3, <2>4 DEF OpStep
<1>4. ASSUME NEW k \in Kinds, NEW on \in BOOLEAN, Toggle(k, on) PROVE RotationOK'
  <2>1. row'[k].active = row[k].active /\ row'[k].pending = row[k].pending
        /\ \A j \in Kinds \ {k} : row'[j] = row[j]
    BY <1>4, ToggleShape
  <2>2. UNCHANGED <<check, op>>
    BY <1>4 DEF Toggle
  <2> QED BY <1>0, <2>1, <2>2 DEF RotationOK, OpsOK, CheckOK, Evaluating
<1>5. ASSUME NEW s \in Signers, NeedPair(s) \/ ClaimPair(s) PROVE RotationOK'
  <2>1. UNCHANGED <<check, op>>
    BY <1>5 DEF NeedPair, ClaimPair
  <2>2. \A k \in Kinds : row'[k].pending = row[k].pending
    BY <1>5, SignerShape
  <2> QED BY <1>0, <2>1, <2>2 DEF RotationOK, OpsOK, CheckOK, Evaluating
<1>6. CASE Pass
  <2>1. \A k \in Kinds : row'[k].pending # None => row[k].pending # None
    BY <1>0, <1>6, PassShape, OlderCert DEF Row
  <2>2. UNCHANGED <<check, op>> /\ check.pc = "idle" /\ \A a \in Admins : op[a].pc = "idle"
    BY <1>6 DEF Pass, Checking
  <2> QED BY <1>0, <2>1, <2>2 DEF RotationOK
<1>7. CASE Restart
  BY <1>0, <1>7, NoOpFields, NoCheckFields DEF Restart, RotationOK
<1>8. CASE UNCHANGED vars
  BY <1>8 DEF vars, RotationOK
<1> QED BY <1>1, <1>2, <1>3, <1>4, <1>5, <1>6, <1>7, <1>8 DEF Next


\* Every step preserves Working: whoever writes while a check evaluates is excused by raced.
LEMMA WorkingStep ==
  ASSUME Shape, Working, [Next]_vars
  PROVE  Working'
<1> USE DEF history, counters
<1>0. /\ check \in Check /\ row \in [Kinds -> Row] /\ CheckOK /\ OpsOK
      /\ RotationOK /\ SnapOK /\ DueOK
  BY DEF Shape, TypeOK, Working
<1>a. RotationOK'
  BY <1>0, RotationStep
<1>b. SUFFICES SnapOK' /\ DueOK'
  BY <1>a DEF Working
<1>c. ASSUME check'.pc \in {"idle", "read", "fail", "finish"} PROVE SnapOK' /\ DueOK'
  BY <1>c DEF SnapOK, DueOK
\* The row keeps the kinds that no call wrote.
<1>d. ASSUME check' = check, raced \subseteq raced', \A k \in Kinds \ raced' : row'[k] = row[k]
      PROVE  SnapOK' /\ DueOK'
  <2>1. SnapOK'
    BY <1>0, <1>d DEF SnapOK, Claimed
  <2>2. DueOK'
    <3>1. CASE check.kind \in raced' \/ check.pc \notin Evaluating
      BY <1>d, <3>1 DEF DueOK, Evaluating
    <3>2. CASE check.kind \notin raced' /\ check.pc \in Evaluating
      <4>1. row'[check.kind] = row[check.kind] /\ check.kind \notin raced
        BY <1>0, <1>d, <3>2 DEF CheckOK
      <4> QED BY <1>0, <1>d, <4>1 DEF DueOK, Starts, Completes
    <3> QED BY <3>1, <3>2
  <2> QED BY <2>1, <2>2
<1>e. ASSUME NEW snap \in [Kinds -> Row], check.pc \in Evaluating, Advance(snap),
             \A k \in Kinds \ raced' : \/ snap[k] = row'[k]
                                       \/ /\ snap[k].active = None
                                          /\ row'[k].active # None /\ row'[k].active.left = Fresh
                                          /\ row'[k].pending = None
      PROVE  SnapOK' /\ DueOK'
  <2>1. \/ check'.pc = "evaluate" /\ check'.snap = snap
        \/ check'.pc = "finish"
    BY <1>0, <1>e, Advanced DEF CheckOK
  <2> QED BY <1>c, <1>e, <2>1 DEF SnapOK, DueOK, Claimed
<1>1. CASE CheckStep \/ CheckFault \/ CheckAborts
  <2>1. CASE CheckRead
    <3>1. check'.pc = "evaluate" /\ check'.snap = row /\ row' = row
      BY <1>0, <2>1, CheckTyped DEF CheckRead
    <3> QED BY <3>1 DEF SnapOK, DueOK
  <2>2. CASE CheckSkip
    <3>1. /\ check.snap \in [Kinds -> Row] /\ Advance(check.snap) /\ check.pc = "evaluate" /\ row' = row
          /\ raced' = raced
      BY <1>0, <2>2 DEF CheckSkip, Check
    <3> QED BY <1>0, <1>e, <3>1 DEF SnapOK, Claimed, Evaluating
  <2>3. CASE CheckEvaluate
    <3>1. /\ check'.kind = check.kind /\ check'.boot = check.boot /\ row' = row /\ raced' = raced
          /\ check.pc = "evaluate" /\ check.kind \in Kinds /\ Managed(check.snap[check.kind])
      BY <1>0, <2>3, CheckTyped DEF CheckEvaluate, CheckOK, Evaluating
    <3>2. \/ check'.pc = "reread" /\ Completes(check.kind, check.snap[check.kind])
          \/ check'.pc = "start" /\ Starts(check.kind, check.snap[check.kind])
      <4>1. CASE Completes(check.kind, check.snap[check.kind]) /\ check' = [check EXCEPT !.pc = "reread"]
        BY <1>0, <4>1 DEF Check
      <4>2. CASE Starts(check.kind, check.snap[check.kind])
                 /\ check' = [check EXCEPT !.pc = "start", !.cert = Generated]
        BY <1>0, <4>2 DEF Check
      <4> QED BY <2>3, <4>1, <4>2 DEF CheckEvaluate
    <3>3. check.kind \notin raced => check.snap[check.kind] = row[check.kind]
      BY <1>0, <3>1 DEF SnapOK, Claimed, Managed
    <3>4. SnapOK'
      BY <3>2 DEF SnapOK
    <3>5. DueOK'
      BY <3>1, <3>2, <3>3 DEF DueOK, Completes, Starts
    <3> QED BY <3>4, <3>5
  <2>4. CASE CheckStart \/ CheckPromote \/ CheckFail
    <3>1. row' \in [Kinds -> Row] /\ Advance(row') /\ check.pc \in Evaluating
      BY <1>0, <2>4, CheckWrites DEF CheckStart, CheckPromote, CheckFail, Evaluating
    <3> QED BY <1>e, <3>1
  <2>5. CASE CheckReread
    <3>1. row' = row /\ raced' = raced /\ check.pc = "reread"
      BY <2>5 DEF CheckReread
    <3>2. CASE row[check.kind].pending # None
      <4>1. check'.pc = "promote" /\ check'.kind = check.kind /\ check'.cert = row[check.kind].pending
        BY <1>0, <2>5, <3>2, CheckTyped
      <4> QED BY <1>0, <3>1, <4>1 DEF SnapOK, DueOK, Completes
    <3>3. CASE row[check.kind].pending = None
      <4>1. Advance(row)
        BY <2>5, <3>3 DEF CheckReread
      <4> QED BY <1>0, <1>e, <3>1, <4>1 DEF Evaluating
    <3> QED BY <3>2, <3>3
  <2>6. CASE CheckFinish \/ CheckAborts
    BY <1>c, <2>6, NoCheckFields DEF CheckFinish, CheckAborts
  <2>7. CASE CheckFault
    BY <1>0, <1>c, <2>7, CheckTyped
  <2> QED BY <1>1, <2>1, <2>2, <2>3, <2>4, <2>5, <2>6, <2>7 DEF CheckStep
<1>2. CASE Tick \/ RunCheckOnDemand
  <2>1. tick.boot \in BOOLEAN /\ UNCHANGED <<row, raced>>
    BY <1>2 DEF Shape, TypeOK, Tick, RunCheckOnDemand
  <2>2. check' = check \/ check'.pc = "read"
    BY <1>0, <1>2, <2>1, Begun DEF Tick, RunCheckOnDemand
  <2> QED BY <1>c, <1>d, <2>1, <2>2
<1>3. ASSUME NEW a \in Admins, OpStep(a) \/ AbandonOp(a) \/ \E o \in Ops, j \in Kinds : BeginOp(a, o, j)
      PROVE  SnapOK' /\ DueOK'
  <2>1. CASE WriteOp(a)
    <3>1. /\ check' = check /\ op[a].pc = "write" /\ op[a].op \in Ops
          /\ \A j \in Kinds \ {op[a].kind} : row'[j] = row[j]
      BY <2>1, OpWrites DEF WriteOp, Shape, TypeOK, Op
    <3>2. CASE Checking
      <4>1. raced' = raced \cup {op[a].kind}
        BY <1>0, <2>1, <3>1, <3>2 DEF WriteOp, OpsOK, Ops
      <4> QED BY <1>d, <3>1, <4>1
    <3>3. CASE ~Checking
      BY <1>c, <3>1, <3>3 DEF Checking
    <3> QED BY <3>2, <3>3
  <2>2. CASE ReadOp(a) \/ AbandonOp(a) \/ \E o \in Ops, j \in Kinds : BeginOp(a, o, j)
    <3>1. UNCHANGED <<check, row, raced>>
      BY <2>2 DEF ReadOp, AbandonOp, BeginOp
    <3> QED BY <1>d, <3>1
  <2> QED BY <1>3, <2>1, <2>2 DEF OpStep
<1>4. ASSUME NEW k \in Kinds, NEW on \in BOOLEAN, Toggle(k, on) PROVE SnapOK' /\ DueOK'
  <2>1. \A j \in Kinds \ {k} : row'[j] = row[j]
    BY <1>4, ToggleShape
  <2>2. check' = check /\ raced' = IF Checking THEN raced \cup {k} ELSE raced
    BY <1>4 DEF Toggle
  <2>3. CASE Checking
    BY <1>d, <2>1, <2>2, <2>3
  <2>4. CASE ~Checking
    BY <1>c, <2>2, <2>4 DEF Checking
  <2> QED BY <2>3, <2>4
<1>5. ASSUME NEW s \in Signers, NeedPair(s) \/ ClaimPair(s) PROVE SnapOK' /\ DueOK'
  <2>1. check' = check /\ raced' = raced
    BY <1>5 DEF NeedPair, ClaimPair
  <2>2. CASE row' = row
    BY <1>d, <2>1, <2>2
  <2>3. CASE row' # row
    <3> DEFINE k == "signing"
    <3>1. /\ k \in Kinds /\ row[k].active = None /\ row'[k].active # None /\ row'[k].active.left = Fresh
          /\ row'[k].pending = row[k].pending
          /\ \A j \in Kinds \ {k} : row'[j] = row[j]
      BY <1>5, <2>3, SignerShape
    <3>2. row'[k].pending = None
      BY <1>0, <3>1 DEF RotationOK
    <3>3. SnapOK'
      BY <1>0, <2>1, <3>1, <3>2 DEF SnapOK, Claimed
    <3>4. CASE check.pc \in {"start", "reread", "promote"}
      <4>1. check.kind # k /\ check.kind \in Kinds
        BY <1>0, <3>1, <3>4 DEF RotationOK, CheckOK, Evaluating
      <4>2. row'[check.kind] = row[check.kind]
        BY <3>1, <4>1
      <4>3. DueOK'
        BY <1>0, <2>1, <4>2 DEF DueOK, Starts, Completes
      <4> QED BY <3>3, <4>3
    <3>5. CASE check.pc \notin {"start", "reread", "promote"}
      BY <2>1, <3>3, <3>5 DEF DueOK
    <3> QED BY <3>4, <3>5
  <2> QED BY <2>2, <2>3
<1>6. CASE Pass \/ Restart
  <2>1. check'.pc = "idle"
    BY <1>6, NoCheckFields DEF Pass, Restart, Checking
  <2> QED BY <1>c, <2>1
<1>7. CASE UNCHANGED vars
  <2>1. UNCHANGED <<check, row, raced>>
    BY <1>7 DEF vars
  <2> QED BY <1>d, <2>1
<1> QED BY <1>1, <1>2, <1>3, <1>4, <1>5, <1>6, <1>7 DEF Next

-----------------------------------------------------------------------------
(* Spans of time.                                                          *)

\* The lead, and the overlap or at least a day, in instants.
LeadTime(k) == Lead[k] * Day
Cover(k) == (IF Overlap[k] = 0 THEN 1 ELSE Overlap[k]) * Day

\* Multiplication, for provers that know little of it.
LEMMA Times ==
  ASSUME NEW a \in Nat, NEW b \in Nat, NEW d \in Nat
  PROVE  a * d \in Nat /\ (a <= b => a * d <= b * d) /\ (a + b) * d = a * d + b * d
<1>1. a * d \in Nat
  OBVIOUS
<1>2. (a + b) * d = a * d + b * d
  OBVIOUS
<1>3. ASSUME a <= b PROVE a * d <= b * d
  <2> DEFINE n == b - a
  <2>1. n \in Nat /\ b = a + n
    BY <1>3
  <2> HIDE DEF n
  <2>2. b * d = a * d + n * d /\ n * d \in Nat /\ a * d \in Nat
    BY <2>1
  <2> DEFINE x == a * d
             y == b * d
             z == n * d
  <2>3. x \in Nat /\ z \in Nat /\ y = x + z
    BY <2>2
  <2> HIDE DEF x, y, z
  <2>4. x <= y
    BY <2>3
  <2> QED BY <2>4 DEF x, y
<1> QED BY <1>1, <1>2, <1>3

\* How lead, overlap and validity compare.
LEMMA Spans ==
  ASSUME NEW k \in Kinds
  PROVE  /\ LeadTime(k) \in Nat /\ Cover(k) \in Nat /\ Fresh \in Nat
         /\ Day <= LeadTime(k) /\ Day <= Cover(k)
         /\ LeadTime(k) > Day => LeadTime(k) >= 2 * Day
         /\ Lead[k] + Overlap[k] < Validity /\ Lead[k] + 1 < Validity
              => Fresh >= LeadTime(k) + Cover(k) + Day
<1> DEFINE l == Lead[k]
           o == IF Overlap[k] = 0 THEN 1 ELSE Overlap[k]
<1>1. l \in Nat /\ o \in Nat /\ l >= 1 /\ o >= 1 /\ Day \in Nat /\ Validity \in Nat
      /\ (Lead[k] + Overlap[k] < Validity /\ Lead[k] + 1 < Validity => l + o + 1 <= Validity)
  OBVIOUS
<1>2. LeadTime(k) = l * Day /\ Cover(k) = o * Day /\ Fresh = Validity * Day
  BY DEF LeadTime, Cover, Fresh
<1> HIDE DEF l, o
<1>3. l * Day \in Nat /\ o * Day \in Nat /\ Validity * Day \in Nat
  BY <1>1, Times
<1>4. 1 * Day <= l * Day /\ 1 * Day <= o * Day
  <2>1. 1 \in Nat
    OBVIOUS
  <2> QED BY <1>1, <2>1, Times
<1>5. l >= 2 => 2 * Day <= l * Day
  <2>1. 2 \in Nat
    OBVIOUS
  <2> QED BY <1>1, <2>1, Times
<1>6. l + o + 1 <= Validity => ((l + o) + 1) * Day <= Validity * Day
  BY <1>1, Times
<1>7. ((l + o) + 1) * Day = l * Day + o * Day + Day
  BY <1>1
<1>8. l = 1 => l * Day = Day
  BY <1>1
<1> QED BY <1>1, <1>2, <1>3, <1>4, <1>5, <1>6, <1>7, <1>8

\* The overlap is clamped by the whole days that are left.
LEMMA Clamp ==
  ASSUME NEW k \in Kinds, NEW c \in Cert
  PROVE  LET e == EffectiveOverlap(k, c) * Day IN
         /\ e \in Nat /\ e <= Cover(k) /\ e <= Longest * Day
         /\ e <= c.left
         /\ c.left < 2 * Day => e <= Day
         /\ c.left < Day => e = 0
<1> DEFINE q == c.left \div Day
           m == EffectiveOverlap(k, c)
           o == IF Overlap[k] = 0 THEN 1 ELSE Overlap[k]
           n == c.left
<1>1. q \in Nat /\ q * Day <= n /\ n < q * Day + Day /\ n \in Nat /\ Day \in Nat /\ Day >= 1
  BY DEF Cert
<1>2. /\ m \in Nat /\ m <= q /\ m <= o /\ m <= Longest /\ Longest \in Nat /\ o \in Nat
  <2>1. q \in Nat
    BY <1>1
  <2> HIDE DEF q
  <2>2. m = IF q < Overlap[k] THEN q ELSE Overlap[k]
    BY DEF EffectiveOverlap, q
  <2> QED BY <2>1, <2>2, LongestBounds
<1> HIDE DEF q, m, o
<1>3. m * Day \in Nat /\ m * Day <= q * Day /\ m * Day <= o * Day /\ m * Day <= Longest * Day
  BY <1>1, <1>2, Times
<1>4. n < 2 * Day => q <= 1
  <2> SUFFICES ASSUME q >= 2 PROVE n >= 2 * Day
    BY <1>1
  <2>1. 2 \in Nat
    OBVIOUS
  <2>2. 2 * Day <= q * Day
    BY <1>1, <2>1, Times
  <2> QED BY <1>1, <2>2
<1>5. n < Day => q = 0
  <2> SUFFICES ASSUME q >= 1 PROVE n >= Day
    BY <1>1
  <2>1. 1 \in Nat
    OBVIOUS
  <2>2. 1 * Day <= q * Day
    BY <1>1, <2>1, Times
  <2> QED BY <1>1, <2>2
<1>6. m <= 1 => m * Day <= Day
  <2>1. 1 \in Nat
    OBVIOUS
  <2>2. m <= 1 => m * Day <= 1 * Day
    BY <1>1, <1>2, <2>1, Times
  <2> QED BY <1>1, <2>2
<1>7. m = 0 => m * Day = 0
  BY <1>1
<1>8. Cover(k) = o * Day
  BY DEF Cover, o
<1>9. n = c.left
  OBVIOUS
<1> HIDE DEF n
<1> QED BY <1>1, <1>2, <1>3, <1>4, <1>5, <1>6, <1>7, <1>8, <1>9 DEF m

-----------------------------------------------------------------------------
(* What a rotation can still afford.                                       *)

\* What was lost: an instant to a failure, and up to two to a restart.
Lost == faults + restarts
Cost == faults + 2 * restarts

\* The check that runs at this instant is still to evaluate the kind.
WillEvaluate(k) ==
    \/ check.pc = "read"
    \/ check.pc \in {"evaluate", "start", "reread", "promote"} /\ check.kind = k
    \/ check.pc \in Evaluating /\ check.kind = "signing" /\ k = "encryption"

\* The check of this instant is past the kind, or never came to it.
Missed(k) == (tick.fired \/ Checking) /\ ~WillEvaluate(k)

\* The boot check, which may put the start of a rotation off, is still ahead.
BootAhead(k) ==
    \/ tick.boot
    \/ /\ check.boot
       /\ \/ check.pc = "read"
          \/ check.pc = "evaluate" /\ check.kind = k
          \/ check.pc \in Evaluating /\ check.kind = "signing" /\ k = "encryption"

\* The hypotheses of KeptAlive about a kind.
LeftAlone(k) ==
    /\ row[k].on /\ ~row[k].off /\ k \notin manual /\ row[k].active # None
    /\ Lead[k] + Overlap[k] < Validity /\ Lead[k] + 1 < Validity
    /\ \A n \in Lifetimes[k] : n > Lead[k] * Day
    /\ Cost + 2 <= LeadTime(k) /\ Lost < Day

\* How much of the lead is gone; how long the pending certificate is published; the sum that a
\* rotation in progress keeps constant.
Gone(k) == LeadTime(k) - row[k].active.left
Published(k) == Fresh - row[k].pending.left
Whole(k) == row[k].active.left + Published(k)

\* No rotation in progress: the lead has lost no more than was paid for.
WaitOK(k) ==
    /\ Gone(k) <= Cost
    /\ BootAhead(k) => Gone(k) + 1 <= Cost
    /\ Gone(k) >= 0 /\ Missed(k) => Gone(k) + 1 <= Cost
    /\ Gone(k) >= 0 /\ Missed(k) /\ BootAhead(k) => Gone(k) + 2 <= Cost

\* A rotation in progress: the age is what was published; the lead lost before the start and the
\* last day of it were paid for, and so is what passed after the overlap.
PublishOK(k) ==
    /\ Published(k) >= 0
    /\ row[k].age = IF Published(k) < Longest * Day THEN Published(k) ELSE Longest * Day
    /\ LeadTime(k) - Cost <= Whole(k) /\ Whole(k) <= LeadTime(k)
    /\ Whole(k) <= Day => Gone(k) <= Cost + 1 /\ (Missed(k) => Gone(k) <= Cost)
    /\ Whole(k) > Day /\ row[k].active.left <= Day
         => /\ Day - row[k].active.left <= Lost
            /\ Missed(k) \/ ~OverlapElapsed(k, row[k]) => Day - row[k].active.left + 1 <= Lost
    /\ Published(k) >= Cover(k)
         => Published(k) - Cover(k) <= Lost /\ (Missed(k) => Published(k) - Cover(k) + 1 <= Lost)
    /\ row[k].active.left > 0

\* A kind left alone is kept alive.
Kept(k) ==
    LeftAlone(k) => IF row[k].pending = None THEN WaitOK(k) ELSE PublishOK(k)

\* The types of these numbers.
LEMMA Numbers ==
  ASSUME Shape, NEW k \in Kinds
  PROVE  /\ Lost \in Nat /\ Cost \in Nat /\ Lost <= Cost /\ Cost <= 2 * Lost
         /\ LeadTime(k) \in Nat /\ Cover(k) \in Nat /\ Fresh \in Nat /\ Longest * Day \in Nat
         /\ row[k] \in Row /\ row[k].age \in Nat
         /\ row[k].active # None => /\ row[k].active \in Cert /\ row[k].active.left \in Nat
                                    /\ Gone(k) \in Int
         /\ row[k].pending # None => /\ row[k].pending \in Cert /\ row[k].pending.left \in Nat
                                     /\ Published(k) \in Int
<1>1. Lost \in Nat /\ Cost \in Nat /\ Lost <= Cost /\ Cost <= 2 * Lost
  BY DEF Shape, TypeOK, Lost, Cost
<1>2. row[k] \in Row
  BY DEF Shape, TypeOK
<1>3. Longest * Day \in Nat
  BY LongestBounds
<1> QED BY <1>1, <1>2, <1>3, Spans DEF Row, MaybeCert, Cert, Gone, Published

\* Steps that leave the kind's row alone, and pay for what they cost.
LEMMA FrameKept ==
  ASSUME Shape, Shape', NEW k \in Kinds, Kept(k),
         row'[k].active = row[k].active, row'[k].pending = row[k].pending, row'[k].age = row[k].age,
         row'[k].on => row[k].on, row[k].off => row'[k].off, manual \subseteq manual',
         Lost <= Lost', Lost' - Lost <= Cost' - Cost,
         Missed(k)' => Missed(k) \/ Lost + 1 <= Lost',
         BootAhead(k)' => BootAhead(k) \/ Cost + 2 <= Cost'
  PROVE  Kept(k)'
<1>a. faults' \in Nat /\ restarts' \in Nat
  BY DEF Shape, TypeOK
<1>b. Lost' \in Nat /\ Cost' \in Nat
  BY <1>a DEF Lost, Cost
<1>0. /\ Lost \in Nat /\ Cost \in Nat /\ Lost' \in Nat /\ Cost' \in Nat /\ Cost <= Cost'
      /\ LeadTime(k) \in Nat /\ Cover(k) \in Nat /\ Longest * Day \in Nat
  BY <1>b, Numbers
<1>c. LeadTime(k)' = LeadTime(k) /\ Fresh' = Fresh /\ Longest' = Longest /\ Cover(k)' = Cover(k)
  BY DEF LeadTime, Fresh, Longest, Cover
<1>d. Lost + 1 <= Lost' => Cost + 1 <= Cost'
  <2> DEFINE l == Lost
             m == Lost'
             c == Cost
             d == Cost'
  <2>1. l \in Nat /\ m \in Nat /\ c \in Nat /\ d \in Nat /\ m - l <= d - c
    BY <1>0
  <2> HIDE DEF l, m, c, d
  <2>2. l + 1 <= m => c + 1 <= d
    BY ONLY <2>1
  <2> QED BY <2>2 DEF l, m, c, d
<1>1. SUFFICES ASSUME LeftAlone(k)'
               PROVE  /\ row[k].pending = None => WaitOK(k)'
                      /\ row[k].pending # None => PublishOK(k)'
  BY DEF Kept
<1>2. LeftAlone(k)
  BY <1>0, <1>1, <1>c DEF LeftAlone
<1>3. row[k].active # None /\ row[k].active.left \in Nat /\ Gone(k) \in Int /\ Gone(k)' = Gone(k)
  BY <1>2, <1>c, Numbers DEF LeftAlone, Gone
<1>4. ASSUME row[k].pending = None PROVE WaitOK(k)'
  <2>1. WaitOK(k)
    BY <1>2, <1>4 DEF Kept
  <2>2. /\ Gone(k) <= Cost /\ (BootAhead(k) => Gone(k) + 1 <= Cost)
        /\ Gone(k) >= 0 /\ Missed(k) => Gone(k) + 1 <= Cost
        /\ Gone(k) >= 0 /\ Missed(k) /\ BootAhead(k) => Gone(k) + 2 <= Cost
    BY <2>1 DEF WaitOK
  <2>a. (BootAhead(k)' => BootAhead(k) \/ Cost + 2 <= Cost')
        /\ (Missed(k)' => Missed(k) \/ Cost + 1 <= Cost')
    BY <1>d
  <2> DEFINE g == Gone(k)
             c == Cost
             d == Cost'
  <2>b. g \in Int /\ c \in Nat /\ d \in Nat /\ c <= d
    BY <1>0, <1>3
  <2>3. /\ Gone(k) <= Cost' /\ (BootAhead(k)' => Gone(k) + 1 <= Cost')
    BY <1>0, <1>3, <2>2
  <2>4. Gone(k) >= 0 /\ Missed(k)' => Gone(k) + 1 <= Cost'
    <3> SUFFICES ASSUME g >= 0, Missed(k)' PROVE g + 1 <= d
      OBVIOUS
    <3>1. g <= c /\ (g + 1 <= c \/ c + 1 <= d)
      BY <2>2, <2>a
    <3> HIDE DEF g, c, d
    <3> QED BY ONLY <2>b, <3>1
  <2>5. Gone(k) >= 0 /\ Missed(k)' /\ BootAhead(k)' => Gone(k) + 2 <= Cost'
    <3> SUFFICES ASSUME g >= 0, Missed(k)', BootAhead(k)' PROVE g + 2 <= d
      OBVIOUS
    <3>1. g <= c /\ (BootAhead(k) => g + 1 <= c) /\ (Missed(k) /\ BootAhead(k) => g + 2 <= c)
      BY <2>2
    <3>2. (BootAhead(k) \/ c + 2 <= d) /\ (Missed(k) \/ c + 1 <= d)
      BY <2>a
    <3> HIDE DEF g, c, d
    <3> QED BY ONLY <2>b, <3>1, <3>2
  <2> QED BY <1>3, <2>3, <2>4, <2>5 DEF WaitOK
<1>5. ASSUME row[k].pending # None PROVE PublishOK(k)'
  <2>1. PublishOK(k) /\ Published(k) \in Int /\ Published(k)' = Published(k) /\ Whole(k)' = Whole(k)
        /\ Whole(k) \in Int
    <3>1. PublishOK(k) /\ Published(k) \in Int /\ Published(k)' = Published(k)
      BY <1>2, <1>5, <1>c, Numbers DEF Kept, Published
    <3>2. Whole(k)' = Whole(k)
      BY <3>1 DEF Whole
    <3>3. Whole(k) \in Int
      BY <1>3, <3>1 DEF Whole
    <3> QED BY <3>1, <3>2, <3>3
  <2>2. OverlapElapsed(k, row[k])' <=> OverlapElapsed(k, row[k])
    BY DEF OverlapElapsed, EffectiveOverlap
  <2>3. Published(k)' >= 0
        /\ row'[k].age = IF Published(k)' < Longest * Day THEN Published(k)' ELSE Longest * Day
    BY <2>1 DEF PublishOK
  <2>4. LeadTime(k) - Cost' <= Whole(k) /\ Whole(k) <= LeadTime(k)
    <3>1. LeadTime(k) - Cost <= Whole(k) /\ Whole(k) <= LeadTime(k)
      BY <2>1 DEF PublishOK
    <3> DEFINE l == LeadTime(k)
               c == Cost
               d == Cost'
               w == Whole(k)
    <3>2. l \in Nat /\ c \in Nat /\ d \in Nat /\ w \in Int /\ c <= d /\ l - c <= w
      BY <1>0, <2>1, <3>1
    <3> HIDE DEF l, c, d, w
    <3>3. l - d <= w
      BY ONLY <3>2
    <3> QED BY <3>1, <3>3 DEF l, d, w
  <2> DEFINE g == Gone(k)
             n == row[k].active.left
             t == Published(k) - Cover(k)
             l == Lost
             m == Lost'
             c == Cost
             d == Cost'
             due == OverlapElapsed(k, row[k])
  <2>n. /\ g \in Int /\ n \in Nat /\ t \in Int /\ l \in Nat /\ m \in Nat /\ c \in Nat /\ d \in Nat
        /\ Day \in Nat
        /\ c <= d /\ l <= m
    BY <1>0, <1>3, <2>1
  <2>m. Missed(k)' => Missed(k) \/ (c + 1 <= d /\ l + 1 <= m)
    BY <1>d
  <2>5. Whole(k) <= Day => g <= d + 1 /\ (Missed(k)' => g <= d)
    <3>1. Whole(k) <= Day => g <= c + 1 /\ (Missed(k) => g <= c)
      BY <2>1 DEF PublishOK
    <3> HIDE DEF g, n, t, l, m, c, d, due
    <3>2. g <= c + 1 => g <= d + 1 /\ (c + 1 <= d => g <= d) /\ (g <= c => g <= d)
      BY ONLY <2>n
    <3> QED BY <2>m, <3>1, <3>2
  <2>6. Whole(k) > Day /\ n <= Day => Day - n <= m /\ (Missed(k)' \/ ~due => Day - n + 1 <= m)
    <3>1. Whole(k) > Day /\ n <= Day => Day - n <= l /\ (Missed(k) \/ ~due => Day - n + 1 <= l)
      BY <2>1 DEF PublishOK
    <3> HIDE DEF g, n, t, l, m, c, d, due
    <3>2. Day - n <= l => Day - n <= m /\ (l + 1 <= m => Day - n + 1 <= m)
          /\ (Day - n + 1 <= l => Day - n + 1 <= m)
      BY ONLY <2>n
    <3> QED BY <2>m, <3>1, <3>2
  <2>7. Published(k) >= Cover(k) => t <= m /\ (Missed(k)' => t + 1 <= m)
    <3>1. Published(k) >= Cover(k) => t <= l /\ (Missed(k) => t + 1 <= l)
      BY <2>1 DEF PublishOK
    <3> HIDE DEF g, n, t, l, m, c, d, due
    <3>2. t <= l => t <= m /\ (l + 1 <= m => t + 1 <= m) /\ (t + 1 <= l => t + 1 <= m)
      BY ONLY <2>n
    <3> QED BY <2>m, <3>1, <3>2
  <2> QED BY <1>3, <2>1, <2>2, <2>3, <2>4, <2>5, <2>6, <2>7, <1>c DEF PublishOK
<1> QED BY <1>4, <1>5

\* A new certificate is far from due.
LEMMA NewKept ==
  ASSUME Shape', NEW k \in Kinds, row'[k].pending = None, row'[k].active # None => Gone(k)' < 0
  PROVE  Kept(k)'
<1>1. SUFFICES ASSUME row'[k].active # None PROVE WaitOK(k)'
  BY DEF Kept, LeftAlone
<1>2. Cost' \in Nat
  <2>1. faults' \in Nat /\ restarts' \in Nat
    BY DEF Shape, TypeOK
  <2> DEFINE f == faults'
             r == restarts'
  <2>2. f \in Nat /\ r \in Nat /\ Cost' = f + 2 * r
    BY <2>1 DEF Cost
  <2> HIDE DEF f, r
  <2> QED BY <2>2
<1>3. Gone(k)' \in Int
  <2>1. row'[k].active.left \in Nat /\ LeadTime(k)' = LeadTime(k) /\ LeadTime(k) \in Nat
    BY <1>1, Spans DEF Shape, TypeOK, Row, MaybeCert, Cert, LeadTime
  <2> HIDE DEF LeadTime
  <2> QED BY <2>1 DEF Gone
<1> DEFINE g == Gone(k)'
           c == Cost'
<1>4. g \in Int /\ c \in Nat /\ g < 0
  BY <1>1, <1>2, <1>3
<1> HIDE DEF g, c
<1>5. g <= c /\ g + 1 <= c /\ ~(g >= 0)
  BY ONLY <1>4
<1> QED BY <1>5 DEF WaitOK, g, c

\* A certificate of full life does not come near the lead.
LEMMA FullLife ==
  ASSUME NEW k \in Kinds, Lead[k] + Overlap[k] < Validity, Lead[k] + 1 < Validity,
         NEW t \in Int, t < Cover(k) + Day
  PROVE  LeadTime(k) - (Fresh - t) < 0
<1> DEFINE l == LeadTime(k)
           c == Cover(k)
           f == Fresh
<1>1. l \in Nat /\ c \in Nat /\ f \in Nat /\ f >= l + c + Day /\ t < c + Day /\ Day \in Nat
  BY Spans
<1> HIDE DEF l, c, f
<1>2. l - (f - t) < 0
  BY ONLY <1>1, t \in Int
<1> QED BY <1>2 DEF l, c, f

\* The start of a rotation: what is left is what a wait could afford.
LEMMA StartKept ==
  ASSUME Shape, Shape', Working, CheckStart, NEW k \in Kinds, check.kind = k, Kept(k)
  PROVE  Kept(k)'
<1>0. check \in Check /\ row \in [Kinds -> Row] /\ CheckOK
  BY DEF Shape, TypeOK
<1>1. /\ row'[k].active = row[k].active /\ row'[k].pending = check.cert /\ row'[k].age = 0
      /\ row'[k].on = row[k].on /\ row'[k].off = row[k].off
      /\ check.pc = "start" /\ check.cert # None /\ check.cert.left = Fresh
      /\ UNCHANGED <<manual, faults, restarts>>
  BY <1>0, CheckWrites DEF CheckStart, CheckOK, counters
<1>2. SUFFICES ASSUME LeftAlone(k)' PROVE PublishOK(k)'
  BY <1>1 DEF Kept
<1>3. LeftAlone(k) /\ Cost' = Cost /\ Lost' = Lost
  BY <1>1, <1>2 DEF LeftAlone, LeadTime, Cost, Lost
<1>4. row[k].pending = None /\ ExpiringSoon(k, row[k].active)
  BY <1>1, <1>3 DEF Working, DueOK, Starts, LeftAlone, Shape
<1>5. WaitOK(k)
  BY <1>3, <1>4 DEF Kept
<1> DEFINE left == row[k].active.left
           l == LeadTime(k)
           c == Cost
           longest == Longest * Day
<1>6. /\ left \in Nat /\ l \in Nat /\ c \in Nat /\ Day \in Nat /\ Day >= 1 /\ left <= l /\ l - left <= c
      /\ c + 2 <= l
      /\ longest \in Nat /\ Cover(k) \in Nat /\ Cover(k) >= Day /\ Lost \in Nat /\ Fresh \in Nat
  <2>1. left <= l
    BY <1>4 DEF ExpiringSoon, LeadTime
  <2>2. l - left <= c /\ c + 2 <= l /\ row[k].active # None
    BY <1>3, <1>5 DEF WaitOK, Gone, LeftAlone
  <2>3. left \in Nat /\ l \in Nat /\ c \in Nat /\ longest \in Nat /\ Lost \in Nat
    BY <2>2, Numbers
  <2>4. Day \in Nat /\ Day >= 1 /\ Cover(k) \in Nat /\ Cover(k) >= Day /\ Fresh \in Nat
    BY Spans
  <2> QED BY <2>1, <2>2, <2>3, <2>4
<1>7. /\ LeadTime(k)' = l /\ Fresh' = Fresh /\ Cover(k)' = Cover(k) /\ (Longest * Day)' = longest
  BY DEF LeadTime, Fresh, Cover, Longest
<1>8. Published(k)' = 0 /\ Whole(k)' = left /\ Gone(k)' = l - left
  <2>1. Published(k)' = Fresh - Fresh
    BY <1>1, <1>7 DEF Published
  <2> QED BY <1>1, <1>6, <1>7, <2>1 DEF Whole, Gone
<1> HIDE DEF left, l, c, longest
<1>9. /\ l - c <= left /\ left > 0 /\ l - left <= c + 1
      /\ 0 = IF 0 < longest THEN 0 ELSE longest
      /\ ~(0 >= Cover(k))
      /\ ~(left > Day /\ left <= Day)
  BY ONLY <1>6
<1>10. row'[k].active.left = left /\ Cost' = c
  BY <1>1, <1>3 DEF left, c
<1> QED BY <1>1, <1>6, <1>7, <1>8, <1>9, <1>10 DEF PublishOK

\* The promotion: the overlap and less than a day have passed, so the new certificate outlives the lead.
LEMMA PromoteKept ==
  ASSUME Shape, Shape', Working, CheckPromote, NEW k \in Kinds, check.kind = k, Kept(k)
  PROVE  Kept(k)'
<1>0. check \in Check /\ row \in [Kinds -> Row] /\ CheckOK
  BY DEF Shape, TypeOK
<1>1. /\ row'[k].active = check.cert /\ row'[k].pending = None
      /\ row'[k].on = row[k].on /\ row'[k].off = row[k].off
      /\ check.pc = "promote"
      /\ UNCHANGED <<manual, faults, restarts>>
  BY <1>0, CheckWrites DEF CheckPromote, counters
<1>2. SUFFICES ASSUME LeftAlone(k)' PROVE Gone(k)' < 0
  BY <1>1, NewKept DEF Kept
<1>3. LeftAlone(k) /\ Lost \in Nat
  BY <1>1, <1>2, Numbers DEF LeftAlone, LeadTime, Cost, Lost, Working, RotationOK
<1>4. row[k].pending # None /\ check.cert = row[k].pending
  BY <1>1, <1>3 DEF Working, DueOK, Completes, LeftAlone, Shape
<1>5. PublishOK(k) /\ Published(k) \in Int /\ Cover(k) \in Nat /\ Fresh \in Nat
      /\ row[k].pending.left \in Nat
  BY <1>3, <1>4, Numbers DEF Kept
<1> DEFINE t == Published(k)
           c == Cover(k)
           m == Lost
<1>6. t \in Int /\ t < c + Day
  <2>1. t \in Int /\ c \in Nat /\ m \in Nat /\ m < Day /\ Day \in Nat /\ Day >= 1
        /\ (t >= c => t - c <= m)
    BY <1>3, <1>5 DEF PublishOK, LeftAlone
  <2> HIDE DEF t, c, m
  <2> QED BY ONLY <2>1
<1>7. LeadTime(k) - (Fresh - t) < 0
  <2> HIDE DEF t
  <2> QED BY <1>3, <1>6, FullLife DEF LeftAlone
<1>8. row'[k].active.left = Fresh - t
  BY <1>1, <1>4, <1>5 DEF Published
<1>9. Gone(k)' = LeadTime(k) - (Fresh - t)
  BY <1>8 DEF Gone, LeadTime
<1> QED BY <1>7, <1>9

\* A kind is left alone by the check: it is not due, or the boot check defers it, once.
LEMMA SkipKept ==
  ASSUME Shape, Shape', Working, CheckSkip, NEW k \in Kinds, check.kind = k, Kept(k)
  PROVE  Kept(k)'
<1>0. check \in Check /\ row \in [Kinds -> Row] /\ CheckOK /\ check.pc = "evaluate"
      /\ check.snap \in [Kinds -> Row]
  BY DEF Shape, TypeOK, CheckSkip, Check
<1>1. UNCHANGED <<row, tick, manual, faults, restarts>> /\ Advance(check.snap)
  BY DEF CheckSkip, history, counters
<1>2. CASE ~LeftAlone(k)
  BY <1>1, <1>2 DEF Kept, LeftAlone, LeadTime, Cost, Lost
<1>3. CASE LeftAlone(k)
  <2> DEFINE r == row[k]
  <2>0. check.snap[k] = r \/ Claimed(k)
    BY <1>0, <1>3 DEF Working, SnapOK, LeftAlone, Shape
  <2>a. r \in Row /\ r.active \in Cert /\ r.active # None /\ r.active.left \in Nat /\ Gone(k) \in Int
        /\ LeadTime(k) \in Nat
        /\ LeadTime(k)' = LeadTime(k) /\ Fresh' = Fresh /\ Longest' = Longest /\ Cover(k)' = Cover(k)
    BY <1>3, Numbers DEF LeftAlone, LeadTime, Fresh, Longest, Cover
  <2>b. Cost' = Cost /\ Lost' = Lost /\ Gone(k)' = Gone(k)
    BY <1>1, <2>a DEF Cost, Lost, Gone
  <2>c. Cost \in Nat /\ Lost \in Nat /\ Cover(k) \in Nat /\ Longest * Day \in Nat
    BY Numbers
  <2>1. CASE Claimed(k)
    <3>1. Gone(k) < 0
      <4>1. LeadTime(k) - (Fresh - 0) < 0
        <5>1. 0 \in Int /\ 0 < Cover(k) + Day
          BY <2>c
        <5> QED BY <1>3, <5>1, FullLife DEF LeftAlone
      <4>2. r.active.left = Fresh /\ Fresh \in Nat
        BY <2>1, Spans DEF Claimed
      <4> QED BY <4>1, <4>2 DEF Gone
    <3>2. r.pending = None
      BY <2>1 DEF Claimed
    <3> QED BY <1>1, <2>b, <3>1, <3>2, NewKept
  <2>2. CASE check.snap[k] = r /\ r.pending = None
    <3>1. Managed(r) /\ ~Starts(k, r)
      BY <1>3, <2>2, <2>a DEF CheckSkip, Managed, LeftAlone
    <3>2. CASE ~ExpiringSoon(k, r.active)
      <4>1. Gone(k) < 0
        BY <2>a, <3>2 DEF ExpiringSoon, Gone, LeadTime
      <4> QED BY <1>1, <2>2, <2>b, <4>1, NewKept
    <3>3. CASE check.boot
      <4>1. BootAhead(k) /\ ~tick.boot
        BY <1>0, <3>3 DEF BootAhead, CheckOK
      <4>2. ~BootAhead(k)'
        BY <1>0, <1>1, <4>1, Advanced DEF BootAhead, HasNext
      <4>3. WaitOK(k)
        BY <1>3, <2>2 DEF Kept
      <4>4. WaitOK(k)'
        BY <2>b, <4>1, <4>2, <4>3 DEF WaitOK
      <4> QED BY <1>1, <2>2, <4>4 DEF Kept
    <3> QED BY <2>2, <3>1, <3>2, <3>3 DEF Starts
  <2>3. CASE check.snap[k] = r /\ r.pending # None
    <3>1. ~OverlapElapsed(k, r)
      BY <1>3, <2>3, <2>a DEF CheckSkip, Managed, LeftAlone, Completes
    <3>2. PublishOK(k) /\ Published(k) \in Int
      BY <1>3, <2>3, Numbers DEF Kept
    <3> DEFINE e == EffectiveOverlap(k, r.active) * Day
               t == Published(k)
               n == r.active.left
               g == Longest * Day
    <3>3. /\ e \in Nat /\ e <= Cover(k) /\ e <= g /\ e <= n /\ (n < Day => e = 0) /\ r.age < e
          /\ r.age \in Nat
      <4>1. r.age < e
        BY <2>a, <3>1, Clamp DEF OverlapElapsed, Row
      <4> QED BY <2>a, <4>1, Clamp DEF Row
    <3>4. r.age = (IF t < g THEN t ELSE g) /\ t >= 0
      BY <3>2 DEF PublishOK
    <3>5. Whole(k) = n + t /\ Gone(k) = LeadTime(k) - n /\ n \in Nat /\ g \in Nat /\ t \in Int
      BY <2>a, <2>c, <3>2 DEF Whole, Gone
    <3> DEFINE w == Whole(k)
               x == Gone(k)
               l == LeadTime(k)
               c == Cost
               v == Cover(k)
    <3>6. l - c <= w /\ l \in Nat /\ c \in Nat /\ v \in Nat /\ Day \in Nat
      BY <2>a, <2>c, <3>2 DEF PublishOK
    <3>7. (w <= Day => x <= c) /\ ~(t >= v)
      <4>1. w = n + t /\ x = l - n /\ e <= v
        BY <3>3, <3>5
      <4> HIDE DEF e, t, n, g, w, x, l, c, v
      <4>2. t < e
        BY ONLY <3>3, <3>4, <3>5
      <4>3. ~(t >= v)
        BY ONLY <3>3, <3>5, <3>6, <4>1, <4>2
      <4>4. ASSUME w <= Day PROVE x <= c
        <5>1. t = 0
          BY ONLY <3>3, <3>4, <3>5, <3>6, <4>1, <4>2, <4>4
        <5> QED BY ONLY <3>5, <3>6, <4>1, <5>1
      <4> QED BY <4>3, <4>4
    <3>8. Published(k)' = t /\ Whole(k)' = w
          /\ (OverlapElapsed(k, row[k])' <=> OverlapElapsed(k, row[k]))
      BY <1>1, <2>a DEF Published, Whole, OverlapElapsed, EffectiveOverlap
    <3>9. PublishOK(k)'
      BY <1>1, <2>a, <2>b, <3>1, <3>2, <3>7, <3>8 DEF PublishOK
    <3> QED BY <1>1, <2>3, <3>9 DEF Kept
  <2> QED BY <2>0, <2>1, <2>2, <2>3
<1> QED BY <1>2, <1>3

\* The boot tick of a process that started again comes at the instant of the restart.
BootPaid == tick.boot /\ tick.fired => restarts >= 1

\* An instant passes.  The check of that instant is over, so every clause has an instant to spare; the
\* last day is the hard one: it may come before the promotion is due only if the start was late.
LEMMA PassKept ==
  ASSUME Shape, Shape', BootPaid, Pass, NEW k \in Kinds, Kept(k)
  PROVE  Kept(k)'
<1>1. /\ tick.fired /\ check.pc = "idle" /\ ~check.boot /\ tick' = [tick EXCEPT !.fired = FALSE]
      /\ UNCHANGED <<check, manual, faults, restarts>>
  BY DEF Pass, Checking, Shape, CheckOK, history, counters
<1>2. tick'.boot = tick.boot /\ ~tick'.fired
  BY <1>1 DEF Shape, TypeOK
<1>3. Missed(k) /\ ~Missed(k)' /\ (BootAhead(k)' => tick.boot /\ BootAhead(k))
  BY <1>1, <1>2 DEF Missed, WillEvaluate, BootAhead, Evaluating, Checking
<1>4. /\ row'[k].active = Older(row[k].active) /\ row'[k].pending = Older(row[k].pending)
      /\ row'[k].age = IF row[k].pending # None /\ row[k].age < Longest * Day
                       THEN row[k].age + 1 ELSE row[k].age
      /\ row'[k].on = row[k].on /\ row'[k].off = row[k].off
  BY PassShape
<1>5. row[k].active \in MaybeCert /\ row[k].pending \in MaybeCert
  BY Numbers DEF Row
<1>6. (row'[k].active = None <=> row[k].active = None)
      /\ (row'[k].pending = None <=> row[k].pending = None)
  BY <1>4, <1>5, OlderCert
<1>7. Cost' = Cost /\ Lost' = Lost /\ LeadTime(k)' = LeadTime(k) /\ Fresh' = Fresh
      /\ Cover(k)' = Cover(k)
      /\ (Longest * Day)' = Longest * Day
  BY <1>1 DEF Cost, Lost, LeadTime, Fresh, Cover, Longest
<1>8. SUFFICES ASSUME LeftAlone(k)'
               PROVE  /\ row[k].pending = None => WaitOK(k)'
                      /\ row[k].pending # None => PublishOK(k)'
  BY <1>6 DEF Kept
<1>9. LeftAlone(k)
  BY <1>1, <1>4, <1>6, <1>7, <1>8 DEF LeftAlone
<1> DEFINE n == row[k].active.left
           m == row'[k].active.left
           l == LeadTime(k)
           c == Cost
           f == Lost
           g == Longest * Day
           v == Cover(k)
           x == Gone(k)
           y == Gone(k)'
<1>10. /\ n \in Nat /\ m = (IF n = 0 THEN 0 ELSE n - 1) /\ l \in Nat /\ c \in Nat /\ f \in Nat
       /\ g \in Nat /\ v \in Nat
       /\ x = l - n /\ y = l - m /\ c + 2 <= l /\ f < Day /\ Day \in Nat /\ Day >= 1 /\ Day <= v
       /\ f <= c
       /\ (l > Day => l >= 2 * Day)
  <2>1. m = IF n = 0 THEN 0 ELSE n - 1
    BY <1>4, <1>5, <1>9, OlderCert DEF LeftAlone
  <2>2. y = l - m /\ x = l - n
    BY <1>7 DEF Gone
  <2>3. c + 2 <= l /\ f < Day /\ row[k].active # None
    BY <1>9 DEF LeftAlone
  <2>4. n \in Nat /\ l \in Nat /\ c \in Nat /\ f \in Nat /\ g \in Nat /\ v \in Nat /\ f <= c
    BY <2>3, Numbers
  <2>5. Day \in Nat /\ Day >= 1 /\ Day <= v /\ (l > Day => l >= 2 * Day)
    BY Spans
  <2> QED BY <2>1, <2>2, <2>3, <2>4, <2>5
<1>11. ASSUME row[k].pending = None PROVE WaitOK(k)'
  <2>1. /\ x <= c /\ (x >= 0 => x + 1 <= c) /\ (x >= 0 /\ BootAhead(k) => x + 2 <= c)
    BY <1>3, <1>9, <1>11 DEF Kept, WaitOK
  <2>2. BootAhead(k)' => c >= 2
    <3>1. BootAhead(k)' => restarts >= 1
      BY <1>1, <1>3 DEF BootPaid
    <3>2. faults \in Nat /\ restarts \in Nat
      BY DEF Shape, TypeOK
    <3> QED BY <3>1, <3>2 DEF Cost
  <2> HIDE DEF n, m, l, c, f, g, v, x, y
  <2>3. y <= c
    BY ONLY <1>10, <2>1
  <2>4. ASSUME BootAhead(k)' PROVE y + 1 <= c
    <3>1. c >= 2 /\ (x >= 0 => x + 2 <= c)
      BY <1>3, <2>1, <2>2, <2>4
    <3> QED BY ONLY <1>10, <3>1
  <2> QED BY <1>3, <1>7, <2>3, <2>4 DEF WaitOK, c, y
<1>12. ASSUME row[k].pending # None PROVE PublishOK(k)'
  <2> DEFINE t == Published(k)
             u == Published(k)'
             w == Whole(k)
             p == row[k].pending.left
             q == row'[k].pending.left
             a == row[k].age
             b == row'[k].age
             e == EffectiveOverlap(k, row'[k].active) * Day
             due == OverlapElapsed(k, row[k])'
  <2>1. /\ t >= 0 /\ a = (IF t < g THEN t ELSE g) /\ l - c <= w /\ w <= l
        /\ (w <= Day => x <= c)
        /\ (w > Day /\ n <= Day => Day - n + 1 <= f)
        /\ (t >= v => t - v + 1 <= f)
        /\ n > 0
    BY <1>3, <1>9, <1>12 DEF Kept, PublishOK
  <2>2. p \in Nat /\ q = (IF p = 0 THEN 0 ELSE p - 1) /\ t = Fresh - p /\ u = Fresh - q /\ Fresh \in Nat
        /\ w = n + t /\ a \in Nat /\ b = (IF a < g THEN a + 1 ELSE a)
    BY <1>4, <1>5, <1>7, <1>12, OlderCert, Numbers DEF Published, Whole
  <2>3. Fresh >= l + v + Day
    BY <1>9, Spans DEF LeftAlone
  <2>4. u = t + 1 /\ m = n - 1 /\ y = x + 1 /\ n >= 2
    <3> HIDE DEF n, m, l, c, f, g, v, x, y, t, u, w, p, q, a, b
    <3>1. p > 0
      BY ONLY <1>10, <2>1, <2>2, <2>3
    <3>2. n >= 2
      <4>1. CASE w <= Day
        BY ONLY <1>10, <2>1, <4>1
      <4>2. CASE w > Day
        BY ONLY <1>10, <2>1, <2>2, <4>2
      <4> QED BY <1>10, <2>1, <2>2, <4>1, <4>2
    <3> QED BY ONLY <1>10, <2>1, <2>2, <3>1, <3>2
  <2>5. Whole(k)' = w
    <3>1. Whole(k)' = m + u
      BY DEF Whole
    <3> HIDE DEF n, m, l, c, f, g, v, x, y, t, u, w, p, q, a, b
    <3> QED BY <1>10, <2>2, <2>4, <3>1
  <2>6. /\ e \in Nat /\ e <= g /\ (m < Day => e = 0) /\ (m < 2 * Day => e <= Day)
        /\ (due <=> b >= e)
    <3>1. row'[k].active \in Cert
      BY <1>4, <1>5, <1>6, <1>9, OlderCert DEF LeftAlone, MaybeCert
    <3>2. due <=> b >= e
      BY DEF OverlapElapsed, EffectiveOverlap
    <3> QED BY <3>1, <3>2, Clamp
  <2> HIDE DEF n, m, l, c, f, g, v, x, y, t, u, w, p, q, a, b, e, due
  <2>7. u >= 0 /\ b = IF u < g THEN u ELSE g
    BY ONLY <1>10, <2>1, <2>2, <2>4
  <2>8. m > 0
    BY ONLY <1>10, <2>4
  <2>9. w <= Day => y <= c + 1
    BY ONLY <1>10, <2>1, <2>2, <2>4
  <2>10. ASSUME w > Day, m <= Day PROVE Day - m <= f /\ (~due => Day - m + 1 <= f)
    <3>1. CASE n <= Day
      <4>1. Day - m <= f
        BY ONLY <1>10, <2>1, <2>4, <2>10, <3>1
      <4>2. e = 0
        BY ONLY <1>10, <2>4, <2>6, <3>1
      <4>3. due
        BY <2>2, <1>10, <2>6, <4>2
      <4> QED BY <4>1, <4>3
    <3>2. CASE n = Day + 1
      <4>1. m = Day
        BY ONLY <1>10, <2>4, <3>2
      <4>2. ASSUME ~due PROVE f >= 1
        <5>1. e <= Day /\ b < e
          BY <1>10, <2>2, <2>6, <4>1, <4>2
        <5>2. u < Day
          BY ONLY <1>10, <2>2, <2>4, <2>6, <2>7, <5>1
        <5>3. w < 2 * Day
          BY ONLY <1>10, <2>1, <2>2, <2>4, <4>1, <5>2
        <5>4. c >= 1
          BY ONLY <1>10, <2>1, <2>2, <2>10, <5>3
        <5>5. c <= 2 * f
          BY Numbers DEF c, f
        <5> QED BY ONLY <1>10, <5>4, <5>5
      <4> QED BY <1>10, <4>1, <4>2
    <3> QED BY <1>10, <2>4, <2>10, <3>1, <3>2
  <2>11. u >= v => u - v <= f
    BY ONLY <1>10, <2>1, <2>2, <2>4
  <2>12. l - c <= w /\ w <= l
    BY <2>1
  <2>13. /\ Published(k)' >= 0
         /\ row'[k].age = IF Published(k)' < Longest * Day THEN Published(k)' ELSE Longest * Day
         /\ LeadTime(k) - Cost <= Whole(k)' /\ Whole(k)' <= LeadTime(k)
         /\ row'[k].active.left > 0
    BY <2>5, <2>7, <2>8, <2>12 DEF m, l, c, g, u, b
  <2>14. Whole(k)' <= Day => Gone(k)' <= Cost + 1
    BY <2>5, <2>9 DEF y, c
  <2>15. Whole(k)' > Day /\ row'[k].active.left <= Day
           => /\ Day - row'[k].active.left <= Lost
              /\ ~OverlapElapsed(k, row[k])' => Day - row'[k].active.left + 1 <= Lost
    BY <2>5, <2>10 DEF m, f, due
  <2>16. Published(k)' >= Cover(k) => Published(k)' - Cover(k) <= Lost
    BY <2>11 DEF u, v, f
  <2> QED BY <1>3, <1>7, <2>13, <2>14, <2>15, <2>16 DEF PublishOK
<1> QED BY <1>11, <1>12

\* A check that goes on to the next kind leaves the kinds it still has to evaluate, and no others.
LEMMA AdvanceAhead ==
  ASSUME check \in Check, CheckOK, tick \in [fired: BOOLEAN, boot: BOOLEAN], NEW snap \in [Kinds -> Row],
         Advance(snap), check.pc \in Evaluating, tick' = tick,
         NEW k \in Kinds, k # check.kind \/ check.pc = "fail"
  PROVE  (Missed(k)' => Missed(k)) /\ (BootAhead(k)' => BootAhead(k))
<1>1. check.kind \in Kinds /\ check.kind \in {"signing", "encryption"}
      /\ k \in {"signing", "encryption"} /\ Checking
  BY DEF CheckOK, Evaluating, Checking
<1>2. CASE HasNext(check.kind)
  <2>1. check.kind = "signing" /\ check'.pc = "evaluate" /\ check'.kind = "encryption"
        /\ check'.boot = check.boot
    BY <1>1, <1>2, Advanced DEF HasNext
  <2>2. CASE k = "encryption"
    <3>1. WillEvaluate(k)'
      BY <2>1, <2>2 DEF WillEvaluate
    <3>2. ~Missed(k)'
      BY <3>1 DEF Missed
    <3>3. check.boot => BootAhead(k)
      BY <2>1, <2>2 DEF BootAhead
    <3>4. BootAhead(k)' => BootAhead(k)
      BY <2>1, <3>3 DEF BootAhead
    <3> QED BY <3>2, <3>4
  <2>3. CASE k = "signing"
    <3>1. Missed(k)
      BY <1>1, <2>1, <2>3 DEF Missed, WillEvaluate
    <3>2. BootAhead(k)' => BootAhead(k)
      BY <2>1, <2>3 DEF BootAhead
    <3> QED BY <3>1, <3>2
  <2> QED BY <1>1, <2>2, <2>3
<1>3. CASE ~HasNext(check.kind)
  <2>1. check'.pc = "finish" /\ ~check'.boot
    BY <1>1, <1>3, Advanced
  <2>2. check.kind = "signing" => k # "encryption"
    BY <1>3 DEF HasNext
  <2>3. Missed(k)
    BY <1>1, <2>2 DEF Missed, WillEvaluate, Evaluating
  <2>4. BootAhead(k)' => BootAhead(k)
    BY <2>1 DEF BootAhead
  <2> QED BY <2>3, <2>4
<1> QED BY <1>2, <1>3

\* Every step preserves BootPaid.
LEMMA PaidStep ==
  ASSUME Shape, BootPaid, [Next]_vars
  PROVE  BootPaid'
<1> USE DEF history, counters, BootPaid
<1>0. tick \in [fired: BOOLEAN, boot: BOOLEAN] /\ restarts \in Nat
  BY DEF Shape, TypeOK
<1>1. CASE Tick
  BY <1>1 DEF Tick
<1>2. CASE Restart
  <2>1. restarts' = restarts + 1
    BY <1>2 DEF Restart
  <2>2. restarts + 1 >= 1
    BY <1>0
  <2> QED BY <2>1, <2>2
<1>3. CASE Pass
  BY <1>0, <1>3 DEF Pass
<1>4. CASE UNCHANGED <<tick, restarts>>
  BY <1>4
<1> QED BY <1>1, <1>2, <1>3, <1>4 
   DEF Next, vars, CheckStep, CheckRead, CheckSkip, CheckEvaluate, CheckStart, CheckReread,
       CheckPromote, CheckFail, CheckFinish, CheckFault, CheckAborts, RunCheckOnDemand, OpStep, ReadOp, WriteOp,
       AbandonOp, BeginOp, Toggle, NeedPair, ClaimPair

\* A step that neither fails nor restarts costs nothing.
LEMMA NothingSpent ==
  ASSUME Shape, faults' = faults, restarts' = restarts
  PROVE  Lost <= Lost' /\ Lost' - Lost <= Cost' - Cost
<1>1. Lost \in Nat /\ Cost \in Nat /\ Lost' = Lost /\ Cost' = Cost
  BY DEF Shape, TypeOK, Lost, Cost
<1> QED BY <1>1

\* A failure costs one instant, a restart two.
LEMMA Spending ==
  ASSUME Shape
  PROVE  /\ faults' = faults + 1 /\ restarts' = restarts
              => Lost + 1 <= Lost' /\ Lost <= Lost' /\ Lost' - Lost <= Cost' - Cost
         /\ faults' = faults /\ restarts' = restarts + 1
              => Lost + 1 <= Lost' /\ Lost <= Lost' /\ Lost' - Lost <= Cost' - Cost /\ Cost + 2 <= Cost'
<1>1. faults \in Nat /\ restarts \in Nat
  BY DEF Shape, TypeOK
<1>2. ASSUME faults' = faults + 1, restarts' = restarts
      PROVE  Lost + 1 <= Lost' /\ Lost <= Lost' /\ Lost' - Lost <= Cost' - Cost
  <2>1. Lost' = Lost + 1 /\ Cost' = Cost + 1 /\ Lost \in Nat /\ Cost \in Nat
    BY <1>1, <1>2 DEF Lost, Cost
  <2> QED BY <2>1
<1>3. ASSUME faults' = faults, restarts' = restarts + 1
      PROVE  Lost + 1 <= Lost' /\ Lost <= Lost' /\ Lost' - Lost <= Cost' - Cost /\ Cost + 2 <= Cost'
  <2>1. Lost' = Lost + 1 /\ Cost' = Cost + 2 /\ Lost \in Nat /\ Cost \in Nat
    BY <1>1, <1>3 DEF Lost, Cost
  <2> QED BY <2>1
<1> QED BY <1>2, <1>3

\* Every step preserves Kept, by kind of step.
LEMMA KeptStep ==
  ASSUME Shape, Working, BootPaid, [Next]_vars, NEW k \in Kinds, Kept(k)
  PROVE  Kept(k)'
<1> USE DEF history, counters
<1>0. /\ check \in Check /\ row \in [Kinds -> Row] /\ CheckOK /\ tick \in [fired: BOOLEAN, boot: BOOLEAN]
      /\ Shape' /\ k \in {"signing", "encryption"}
  BY ShapeStep DEF Shape, TypeOK
\* Steps that leave the row and the costs alone.
<1>a. ASSUME row'[k] = row[k], UNCHANGED <<faults, restarts>>, manual \subseteq manual',
             Missed(k)' => Missed(k), BootAhead(k)' => BootAhead(k)
      PROVE  Kept(k)'
  BY <1>0, <1>a, NothingSpent, FrameKept
<1>b. ASSUME row'[k] = row[k], UNCHANGED <<check, tick, faults, restarts>>, manual \subseteq manual'
      PROVE  Kept(k)'
  BY <1>a, <1>b DEF Missed, WillEvaluate, BootAhead, Checking
<1>c. ASSUME ~LeftAlone(k)' PROVE Kept(k)'
  BY <1>c DEF Kept
<1>1. CASE CheckStep
  <2>0. UNCHANGED <<tick, manual, faults, restarts>>
    BY <1>1 DEF CheckStep, CheckRead, CheckSkip, CheckEvaluate, CheckStart, CheckReread, CheckPromote,
                CheckFail, CheckFinish
  <2>1. CASE CheckRead
    <3>1. row' = row /\ check.pc = "read" /\ check'.pc = "evaluate" /\ check'.kind = First
          /\ check'.boot = check.boot
      BY <1>0, <2>1, CheckTyped DEF CheckRead, CheckOK
    <3>2. k = First \/ (First = "signing" /\ k = "encryption")
      BY <1>0 DEF First
    <3>3. ~Missed(k)'
      BY <3>1, <3>2 DEF Missed, WillEvaluate, Evaluating
    <3>4. BootAhead(k)' => BootAhead(k)
      BY <2>0, <3>1 DEF BootAhead
    <3> QED BY <1>a, <2>0, <3>1, <3>3, <3>4
  <2>2. CASE CheckSkip
    <3>1. check.snap \in [Kinds -> Row] /\ Advance(check.snap) /\ check.pc \in Evaluating /\ row' = row
      BY <1>0, <2>2 DEF CheckSkip, Check, Evaluating
    <3>2. CASE k = check.kind
      BY <1>0, <2>2, <3>2, SkipKept
    <3>3. CASE k # check.kind
      BY <1>0, <1>a, <2>0, <3>1, <3>3, AdvanceAhead
    <3> QED BY <3>2, <3>3
  <2>3. CASE CheckEvaluate
    <3>1. /\ check'.kind = check.kind /\ check'.boot = check.boot /\ check'.pc \in {"start", "reread"}
          /\ check.pc = "evaluate" /\ row' = row
      BY <1>0, <2>3, CheckTyped DEF CheckEvaluate
    <3>2. WillEvaluate(k)' <=> WillEvaluate(k)
      BY <3>1 DEF WillEvaluate, Evaluating
    <3>3. (Missed(k)' => Missed(k)) /\ (BootAhead(k)' => BootAhead(k))
      BY <2>0, <3>1, <3>2 DEF Missed, BootAhead, Evaluating, Checking
    <3> QED BY <1>a, <2>0, <3>1, <3>3
  <2>4. CASE CheckStart \/ CheckPromote
    <3>1. row' \in [Kinds -> Row] /\ Advance(row') /\ check.pc \in Evaluating
          /\ \A j \in Kinds \ {check.kind} : row'[j] = row[j]
      BY <1>0, <2>4, CheckWrites DEF CheckStart, CheckPromote, Evaluating
    <3>2. CASE k = check.kind
      BY <1>0, <2>4, <3>2, StartKept, PromoteKept
    <3>3. CASE k # check.kind
      <4>1. (Missed(k)' => Missed(k)) /\ (BootAhead(k)' => BootAhead(k))
        BY <1>0, <2>0, <3>1, <3>3, AdvanceAhead
      <4> QED BY <1>a, <2>0, <3>1, <3>3, <4>1
    <3> QED BY <3>2, <3>3
  <2>5. CASE CheckReread
    <3>1. row' = row /\ check.pc = "reread"
      BY <2>5 DEF CheckReread
    <3>2. CASE row[check.kind].pending # None
      <4>1. check'.kind = check.kind /\ check'.boot = check.boot /\ check'.pc = "promote"
        BY <1>0, <2>5, <3>2, CheckTyped
      <4>2. WillEvaluate(k)' <=> WillEvaluate(k)
        BY <3>1, <4>1 DEF WillEvaluate, Evaluating
      <4>3. (Missed(k)' => Missed(k)) /\ (BootAhead(k)' => BootAhead(k))
        BY <2>0, <3>1, <4>1, <4>2 DEF Missed, BootAhead, Evaluating, Checking
      <4> QED BY <1>a, <2>0, <3>1, <4>3
    <3>3. CASE row[check.kind].pending = None
      <4>1. Advance(row) /\ check.pc \in Evaluating
        BY <2>5, <3>3 DEF CheckReread, Evaluating
      <4>2. CASE k = check.kind
        <5>1. k \in raced
          BY <3>1, <3>3, <4>2 DEF Working, DueOK, Completes
        <5>2. k \in manual'
          BY <2>0, <5>1 DEF Shape
        <5> QED BY <1>c, <5>2 DEF LeftAlone
      <4>3. CASE k # check.kind
        BY <1>0, <1>a, <2>0, <3>1, <4>1, <4>3, AdvanceAhead
      <4> QED BY <4>2, <4>3
    <3> QED BY <3>2, <3>3
  <2>6. CASE CheckFail
    <3>1. /\ row' \in [Kinds -> Row] /\ Advance(row') /\ check.pc = "fail" /\ check.pc \in Evaluating
          /\ row'[k].active = row[k].active /\ row'[k].pending = row[k].pending
          /\ row'[k].age = row[k].age
          /\ row'[k].on = row[k].on /\ (row[k].off => row'[k].off)
      BY <1>0, <2>6, CheckWrites DEF CheckFail, Evaluating
    <3>2. (Missed(k)' => Missed(k)) /\ (BootAhead(k)' => BootAhead(k))
      BY <1>0, <2>0, <3>1, AdvanceAhead
    <3> QED BY <1>0, <2>0, <3>1, <3>2, NothingSpent, FrameKept
  <2>7. CASE CheckFinish
    <3>1. row' = row /\ check.pc = "finish" /\ check' = NoCheck
      BY <2>7 DEF CheckFinish
    <3>2. Missed(k)
      BY <3>1 DEF Missed, WillEvaluate, Checking, Evaluating
    <3>3. BootAhead(k)' => BootAhead(k)
      BY <2>0, <3>1, NoCheckFields DEF BootAhead
    <3> QED BY <1>a, <2>0, <3>1, <3>2, <3>3
  <2> QED BY <1>1, <2>1, <2>2, <2>3, <2>4, <2>5, <2>6, <2>7 DEF CheckStep
<1>2. CASE CheckFault \/ CheckAborts
  <2>1. row' = row /\ tick' = tick /\ manual' = manual /\ faults' = faults + 1 /\ restarts' = restarts
    BY <1>2 DEF CheckFault, CheckAborts
  <2>2. BootAhead(k)' => BootAhead(k)
    <3>1. CASE CheckFault
      <4>1. check'.pc = "fail" /\ check'.kind = check.kind /\ check'.boot = check.boot
            /\ check.pc \in Evaluating
        BY <1>0, <3>1, CheckTyped DEF CheckFault, Evaluating
      <4> QED BY <2>1, <4>1 DEF BootAhead
    <3>2. CASE CheckAborts
      BY <2>1, <3>2, NoCheckFields DEF BootAhead, CheckAborts
    <3> QED BY <1>2, <3>1, <3>2
  <2> QED BY <1>0, <2>1, <2>2, Spending, FrameKept
<1>3. CASE Tick \/ RunCheckOnDemand
  <2>1. row' = row /\ manual' = manual /\ UNCHANGED <<faults, restarts>>
    BY <1>3 DEF Tick, RunCheckOnDemand
  <2>2. /\ Checking => check' = check
        /\ ~Checking => check'.pc = "read" /\ (check'.boot => tick.boot)
    BY <1>0, <1>3, Begun DEF Tick, RunCheckOnDemand
  <2>3. tick'.boot => tick.boot
    <3>1. CASE Tick
      BY <3>1 DEF Tick
    <3>2. CASE RunCheckOnDemand
      BY <3>2 DEF RunCheckOnDemand
    <3> QED BY <1>3, <3>1, <3>2
  <2>4. Missed(k)' => Missed(k)
    BY <2>2 DEF Missed, WillEvaluate, Checking
  <2>5. BootAhead(k)' => BootAhead(k)
    BY <2>2, <2>3 DEF BootAhead
  <2> QED BY <1>a, <2>1, <2>4, <2>5
<1>4. ASSUME NEW a \in Admins, OpStep(a) \/ AbandonOp(a) \/ \E o \in Ops, j \in Kinds : BeginOp(a, o, j)
      PROVE  Kept(k)'
  <2>1. CASE WriteOp(a)
    <3>1. /\ manual' = manual \cup {op[a].kind} /\ UNCHANGED <<check, tick, faults, restarts>>
          /\ \A j \in Kinds \ {op[a].kind} : row'[j] = row[j]
      BY <2>1, OpWrites DEF WriteOp
    <3>2. CASE k = op[a].kind
      BY <1>c, <3>1, <3>2 DEF LeftAlone
    <3>3. CASE k # op[a].kind
      BY <1>b, <3>1, <3>3
    <3> QED BY <3>2, <3>3
  <2>2. CASE ReadOp(a) \/ AbandonOp(a) \/ \E o \in Ops, j \in Kinds : BeginOp(a, o, j)
    <3>1. UNCHANGED <<row, check, tick, manual, faults, restarts>>
      BY <2>2 DEF ReadOp, AbandonOp, BeginOp
    <3> QED BY <1>b, <3>1
  <2> QED BY <1>4, <2>1, <2>2 DEF OpStep
<1>5. ASSUME NEW j \in Kinds, NEW on \in BOOLEAN, Toggle(j, on) PROVE Kept(k)'
  <2>1. /\ manual' = manual \cup {j} /\ UNCHANGED <<check, tick, faults, restarts>>
        /\ \A i \in Kinds \ {j} : row'[i] = row[i]
    BY <1>5, ToggleShape DEF Toggle
  <2>2. CASE k = j
    BY <1>c, <2>1, <2>2 DEF LeftAlone
  <2>3. CASE k # j
    BY <1>b, <2>1, <2>3
  <2> QED BY <2>2, <2>3
<1>6. ASSUME NEW s \in Signers, NeedPair(s) \/ ClaimPair(s) PROVE Kept(k)'
  <2>1. UNCHANGED <<check, tick, manual, faults, restarts>>
    BY <1>6 DEF NeedPair, ClaimPair
  <2>2. CASE row'[k] = row[k]
    BY <1>b, <2>1, <2>2
  <2>3. CASE row'[k] # row[k]
    <3>1. /\ row[k].active = None /\ row'[k].active.left = Fresh /\ row'[k].pending = row[k].pending
      BY <1>6, <2>3, SignerShape
    <3>2. row'[k].pending = None
      BY <3>1 DEF Working, RotationOK
    <3>3. CASE Lead[k] + Overlap[k] < Validity /\ Lead[k] + 1 < Validity
      <4>1. 0 \in Int /\ 0 < Cover(k) + Day /\ Fresh \in Nat
        BY Spans
      <4>2. LeadTime(k) - (Fresh - 0) < 0
        BY <3>3, <4>1, FullLife
      <4>3. Gone(k)' < 0
        BY <3>1, <4>1, <4>2 DEF Gone, LeadTime
      <4> QED BY <1>0, <3>2, <4>3, NewKept
    <3>4. CASE ~(Lead[k] + Overlap[k] < Validity /\ Lead[k] + 1 < Validity)
      BY <1>c, <3>4 DEF LeftAlone
    <3> QED BY <3>3, <3>4
  <2> QED BY <2>2, <2>3
<1>7. CASE Pass
  BY <1>0, <1>7, PassKept
<1>8. CASE Restart
  <2>1. UNCHANGED <<row, manual, faults>> /\ restarts' = restarts + 1
    BY <1>8 DEF Restart
  <2> QED BY <1>0, <2>1, Spending, FrameKept
<1>9. CASE UNCHANGED vars
  <2>1. UNCHANGED <<row, check, tick, manual, faults, restarts>>
    BY <1>9 DEF vars
  <2> QED BY <1>b, <2>1
<1> QED BY <1>1, <1>2, <1>3, <1>4, <1>5, <1>6, <1>7, <1>8, <1>9 DEF Next

-----------------------------------------------------------------------------
(* The theorems.                                                           *)

\* The inductive invariant.
RotationInv ==
    /\ Shape /\ Working /\ PairStored /\ FirstUseUnique
    /\ BootPaid /\ \A k \in Kinds : Kept(k)

\* It holds initially.
LEMMA InitInv == Init => RotationInv
<1> SUFFICES ASSUME Init PROVE RotationInv
  OBVIOUS
<1>1. Shape /\ \A k \in Kinds : row[k].pending = None
  BY InitShape
<1>2. /\ check.pc = "idle" /\ \A a \in Admins : op[a].pc = "idle"
      /\ \A s \in Signers : ~signer[s].used
  BY NoCheckFields, NoOpFields, NoSignerFields DEF Init
<1>3. Working
  BY <1>1, <1>2 DEF Working, RotationOK, SnapOK, DueOK
<1>4. BootPaid
  BY DEF Init, BootPaid
<1>5. ASSUME NEW k \in Kinds PROVE Kept(k)
  <2>1. SUFFICES ASSUME LeftAlone(k) PROVE WaitOK(k)
    BY <1>1 DEF Kept
  <2>2. row[k].active.left \in Lifetimes[k] /\ row[k].active # None
    BY <2>1, InitShape DEF LeftAlone
  <2> DEFINE n == row[k].active.left
             l == LeadTime(k)
             g == Gone(k)
             c == Cost
  <2>3. n > l /\ g = l - n
    BY <2>1, <2>2 DEF LeftAlone, Gone, LeadTime
  <2>4. n \in Nat /\ l \in Nat /\ c \in Nat
    BY <1>1, <2>2, Numbers
  <2> HIDE DEF n, l, g, c
  <2>5. g < 0 /\ g <= c /\ g + 1 <= c /\ ~(g >= 0)
    BY ONLY <2>3, <2>4
  <2> QED BY <2>5 DEF WaitOK, g, c
<1> QED BY <1>1, <1>2, <1>3, <1>4, <1>5 DEF RotationInv, PairStored, FirstUseUnique

\* Every step preserves it.
LEMMA StepInv == RotationInv /\ [Next]_vars => RotationInv'
<1> SUFFICES ASSUME RotationInv, [Next]_vars PROVE RotationInv'
  OBVIOUS
<1>1. Shape' /\ Working' /\ PairStored' /\ FirstUseUnique' /\ BootPaid'
  BY ShapeStep, WorkingStep, PairStep, PaidStep DEF RotationInv
<1>2. \A k \in Kinds : Kept(k)'
  BY KeptStep DEF RotationInv
<1> QED BY <1>1, <1>2 DEF RotationInv

\* The inductive invariant holds in every behaviour of the specification.
THEOREM RotationInvariant == Spec => []RotationInv
  BY InitInv, StepInv, PTL DEF Spec

\* Every reachable state is well typed.
THEOREM CertTypeCorrect == Spec => []TypeOK
<1>1. RotationInv => TypeOK
  BY DEF RotationInv, Shape
<1> QED BY <1>1, RotationInvariant, PTL

\* Of several first uses at once only one ever signs with a pair it generated itself: the conditional
\* update of ensureSigningMaterial lets one caller store its pair and sends the others back to read it.
THEOREM FirstUse == Spec => []FirstUseUnique
<1>1. RotationInv => FirstUseUnique
  BY DEF RotationInv
<1> QED BY <1>1, RotationInvariant, PTL

\* What an automatic check promotes is the pending certificate of that moment, published for the whole
\* overlap: autoCompleteKind reads the row again and writes it after the next await, and only calls
\* that runAutoRotationCheck does not keep out can write in between.
THEOREM PromotesElapsed == Spec => AutoPromotesElapsed
<1> DEFINE A == \A k \in Kinds :
                  check.pc = "promote" /\ check'.pc \notin {"promote", "idle", "fail"} /\ check.kind = k /\ k \notin raced
                  => row'[k].active = row[k].pending /\ OverlapElapsed(k, row[k])
<1>1. ASSUME RotationInv, [Next]_vars PROVE A
  <2>1. Shape /\ Working /\ check \in Check /\ row \in [Kinds -> Row] /\ CheckOK /\ tick.boot \in BOOLEAN
    BY <1>1 DEF RotationInv, Shape, TypeOK
  <2> SUFFICES ASSUME NEW k \in Kinds, check.pc = "promote", check'.pc \notin {"promote", "idle", "fail"},
                      check.kind = k, k \notin raced
               PROVE  row'[k].active = row[k].pending /\ OverlapElapsed(k, row[k])
    OBVIOUS
  <2>2. CheckPromote
    <3>1. ~CheckFault
      BY <2>1, CheckTyped
    <3>2. ~(Tick \/ RunCheckOnDemand)
      BY <2>1, Begun DEF Tick, RunCheckOnDemand, Checking
    <3>3. ~Pass /\ ~Restart
      BY NoCheckFields DEF Pass, Restart, Checking
    <3>4. ~UNCHANGED <<check>>
      OBVIOUS
    <3> QED BY <1>1, <3>1, <3>2, <3>3, <3>4
            DEF Next, vars, CheckStep, CheckRead, CheckSkip, CheckEvaluate, CheckStart, CheckReread,
                CheckFail, CheckFinish,
                CheckAborts, OpStep, ReadOp, WriteOp, AbandonOp, BeginOp, Toggle, NeedPair, ClaimPair
  <2>3. row'[k].active = check.cert
    BY <2>1, <2>2, CheckWrites
  <2>4. check.cert = row[k].pending /\ Completes(k, row[k])
    BY <2>1 DEF Working, DueOK
  <2> QED BY <2>3, <2>4 DEF Completes
<1>2. RotationInv /\ [Next]_vars => [A]_vars
  BY <1>1
<1> HIDE DEF A
<1>3. Spec => [][A]_vars
  BY <1>2, RotationInvariant, PTL DEF Spec
<1> QED BY <1>3 DEF AutoPromotesElapsed, A

\* Left to itself, automatic rotation replaces a certificate before it expires, whatever fails and
\* restarts within the bound of KeptAlive, for every lead, overlap, validity and boot grace.
THEOREM RotatesInTime == Spec => []KeptAlive
<1>1. ASSUME RotationInv PROVE KeptAlive
  <2>1. SUFFICES ASSUME NEW k \in Kinds, row[k].on, ~row[k].off, k \notin manual, row[k].active # None,
                        Lead[k] + Overlap[k] < Validity, Lead[k] + 1 < Validity,
                        \A n \in Lifetimes[k] : n > Lead[k] * Day,
                        faults + 2 * restarts + 2 <= Lead[k] * Day, faults + restarts < Day
                 PROVE  row[k].active.left > 0
    BY DEF KeptAlive
  <2>2. LeftAlone(k) /\ Shape /\ Kept(k)
    BY <1>1, <2>1 DEF LeftAlone, LeadTime, Cost, Lost, RotationInv
  <2>3. CASE row[k].pending = None
    <3> DEFINE n == row[k].active.left
               l == LeadTime(k)
               c == Cost
    <3>1. l - n <= c /\ c + 2 <= l
      BY <2>2, <2>3 DEF Kept, WaitOK, Gone, LeftAlone
    <3>2. n \in Nat /\ l \in Nat /\ c \in Nat
      BY <2>1, <2>2, Numbers
    <3> HIDE DEF n, l, c
    <3>3. n > 0
      BY ONLY <3>1, <3>2
    <3> QED BY <3>3 DEF n
  <2>4. CASE row[k].pending # None
    BY <2>2, <2>4 DEF Kept, PublishOK
  <2> QED BY <2>3, <2>4
<1> QED BY <1>1, RotationInvariant, PTL
====
