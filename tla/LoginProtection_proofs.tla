---------------------- MODULE LoginProtection_proofs ----------------------
(***************************************************************************)
(* Proofs about LoginProtection: its types, and that the two columns of    *)
(* the lockout row fit together whatever the clients, successes, operators *)
(* and restarts between the two calls that write them.                     *)
(*                                                                         *)
(* The invariant says of every failure that is about to lock that its      *)
(* count reached the threshold and that the row it counted in is still     *)
(* there and has not fallen below it, or was cleared meanwhile.            *)
(***************************************************************************)
EXTENDS LoginProtection, TLAPS, WellFoundedInduction, NaturalsInduction

USE LoginProtectionConstants, NoneIsNoRow DEF Positive

(* The arithmetic of the backoff.                                                           *)

\* Every lock is between the first one and the longest.
LEMMA BackoffBounds ==
  ASSUME NEW k \in 0..MaxLock
  PROVE  Backoff(k) \in 1..MaxLock /\ Backoff(k) >= Backoff(0)
<1>1. 2^k \in Nat /\ 2^k >= 1 /\ 2^0 = 1 /\ Base \in Nat /\ Base >= 1 /\ MaxLock \in Nat /\ MaxLock >= 1
  BY PowersOfTwo, LoginProtectionConstants DEF Positive
<1> DEFINE p == 2^k
<1>2. p \in Nat /\ p >= 1
  BY <1>1
<1> HIDE DEF p
<1>3. Base * p \in Nat /\ Base * p >= Base
  BY <1>1, <1>2
<1>4. Base * 2^0 = Base
  BY <1>1
<1> QED BY <1>1, <1>3, <1>4 DEF Backoff, p

\* After MaxLock doublings the lock is the longest.
LEMMA LastBackoff == Backoff(MaxLock) = MaxLock
<1> DEFINE p == 2^MaxLock
<1>1. p \in Nat /\ p > MaxLock /\ Base \in Nat /\ Base >= 1 /\ MaxLock \in Nat
  BY PowersOfTwo, LoginProtectionConstants DEF Positive
<1> HIDE DEF p
<1>2. Base * p \in Nat /\ Base * p > MaxLock
  BY <1>1
<1> QED BY <1>1, <1>2 DEF Backoff, p

\* A set of numbers that is not empty has a least one.
LEMMA LeastElement ==
  ASSUME NEW S \in SUBSET Nat, S # {}
  PROVE  \E n \in S : \A m \in S : n <= m
<1> DEFINE R == {ss \in Nat \X Nat : ss[1] < ss[2]}
<1>1. IsWellFoundedOn(R, Nat)
  BY NatLessThanWellFounded DEF OpToRel
<1>2. IsWellFoundedOn(R, S)
  BY <1>1, IsWellFoundedOnSubset
<1> HIDE DEF R
<1>3. PICK x \in S : \A y \in S : ~(<<y, x>> \in R)
  BY <1>2, WFMin
<1>4. ASSUME NEW m \in S PROVE x <= m
  <2>1. m \in Nat /\ x \in Nat /\ <<m, x>> \notin R
    BY <1>3, <1>4
  <2>2. ~(m < x)
    BY <2>1 DEF R
  <2> QED BY <2>1, <2>2
<1> QED BY <1>3, <1>4

\* The cap of the count exists: there is a first count whose lock is the longest.
LEMMA FailedCapBounds == FailedCap \in Threshold..Threshold + MaxLock
<1> DEFINE S == {n \in Threshold..Threshold + MaxLock : Backoff(n - Threshold) = MaxLock}
<1>0. Threshold \in Nat /\ MaxLock \in Nat
  BY LoginProtectionConstants DEF Positive
<1>1. Threshold + MaxLock \in S
  BY <1>0, LastBackoff
<1>2. PICK n \in S : \A m \in S : n <= m
  <2>1. S \in SUBSET Nat
    BY <1>0
  <2> HIDE DEF S
  <2> QED BY <1>1, <2>1, LeastElement
<1>3. \A m \in Threshold..n - 1 : Backoff(m - Threshold) < MaxLock
  <2> SUFFICES ASSUME NEW m \in Threshold..n - 1 PROVE Backoff(m - Threshold) < MaxLock
    OBVIOUS
  <2>1. m - Threshold \in 0..MaxLock /\ m \in Threshold..Threshold + MaxLock /\ m \notin S
    BY <1>0, <1>2
  <2>2. Backoff(m - Threshold) # MaxLock
    BY <2>1
  <2> QED BY <1>0, <2>1, <2>2, BackoffBounds
<1>4. n \in Threshold..Threshold + MaxLock /\ Backoff(n - Threshold) = MaxLock
  BY <1>2
<1> QED BY <1>3, <1>4 DEF FailedCap

-----------------------------------------------------------------------------
(* The windows.                                                                             *)

\* A failure, and the passing of time, keep a counter within its maximum and its window.
LEMMA BucketTypes ==
  ASSUME NEW max \in Nat \ {0}, NEW b \in Bucket(max)
  PROVE  /\ Absent \in Bucket(max)
         /\ Recorded(b, max) \in Bucket(max)
         /\ Aged(b) \in Bucket(max)
  BY DEF Bucket, Absent, Recorded, Aged, Least

\* The counters and the bans.
MemoryOK ==
    /\ ipHits \in [Ips -> Bucket(IpMax)] /\ nameHits \in Bucket(NameMax)
    /\ trips \in [Ips -> Bucket(BanThreshold)] /\ ban \in [Ips -> 0..BanTime]
    /\ \A i \in Trusted : ban[i] = 0

\* The part of them that a trip writes.
BansOK == trips \in [Ips -> Bucket(BanThreshold)] /\ ban \in [Ips -> 0..BanTime] /\ \A i \in Trusted : ban[i] = 0

\* A trip keeps them typed, and bans no trusted address.
LEMMA TripTypes ==
  ASSUME BansOK, NEW i \in Ips, Trip(i)
  PROVE  BansOK'
<1>1. CASE i \in Trusted
  BY <1>1 DEF Trip, BansOK
<1>2. CASE i \notin Trusted
  <2>1. trips' \in [Ips -> Bucket(BanThreshold)]
    BY <1>2, BucketTypes DEF Trip, BansOK
  <2>2. ban' = [ban EXCEPT ![i] = BanTime] \/ ban' = ban
    BY <1>2 DEF Trip
  <2> QED BY <1>2, <2>1, <2>2 DEF BansOK
<1> QED BY <1>1, <1>2

-----------------------------------------------------------------------------
\* The lockout row, ...
RowOK == row \in {None} \cup Row

\* ... the logins in progress, ...
AttemptsOK ==
    /\ attempt \in [Attempts -> Attempt]
    /\ \A a \in Attempts : (attempt[a].pc = "idle" <=> attempt[a].ip = None) /\ (attempt[a].pc = "lock" <=> attempt[a].failed # 0)

\* ... and what is known of a failure about to lock: its count reached the threshold, and the row it
\* counted in is there with no smaller count, or was cleared meanwhile.
Counted ==
    \A a \in Attempts : attempt[a].pc = "lock" =>
        /\ attempt[a].failed \in Threshold..FailedCap
        /\ attempt[a].overtaken \/ (row # None /\ row.failed >= Threshold)

\* The types.
Typed == RowOK /\ AttemptsOK /\ MemoryOK

\* What the assumptions say of the constants, and of the cap of the count.
LEMMA Bounds ==
    /\ FailedCap \in Nat /\ FailedCap >= Threshold /\ FailedCap - Threshold <= MaxLock
    /\ Threshold \in Nat /\ Threshold >= 1 /\ MaxLock \in Nat /\ MaxLock >= 1 /\ Horizon \in Nat /\ Horizon >= MaxLock
    /\ None \notin Int /\ None \notin Ips
    /\ Trusted \subseteq Ips
  BY FailedCapBounds

\* Every step keeps the counters and the bans typed.
LEMMA MemoryStep ==
  ASSUME Typed, [Next]_vars
  PROVE  MemoryOK'
<1> USE DEF MemoryOK, BansOK, memory, history
<1>1. ASSUME NEW a \in Attempts, LoginStep(a) PROVE MemoryOK'
  <2>1. ASSUME NEW i \in Ips, Precheck(a, i) PROVE MemoryOK'
    BY <2>1, TripTypes DEF Precheck, Typed
  <2>2. CASE LookUp(a)
    <3>1. attempt[a].ip \in Ips
      BY <2>2 DEF LookUp, Typed, AttemptsOK, Attempt
    <3> QED BY <2>2, <3>1, TripTypes DEF LookUp, Typed
  <2>3. CASE Fail(a)
    <3>1. ipHits' \in [Ips -> Bucket(IpMax)]
      BY <2>3, BucketTypes DEF Fail, Typed
    <3>2. nameHits' \in Bucket(NameMax)
      BY <2>3, BucketTypes DEF Fail, Typed
    <3> QED BY <2>3, <3>1, <3>2 DEF Fail, Typed
  <2>4. CASE Pass(a)
    BY <2>4, BucketTypes DEF Pass, Typed
  <2>5. CASE Lock(a)
    <3>1. attempt[a].ip \in Ips
      BY <2>5 DEF Lock, Typed, AttemptsOK, Attempt
    <3> QED BY <2>5, <3>1, TripTypes DEF Lock, Typed
  <2>6. CASE Abort(a) \/ Count(a) \/ CountFault(a) \/ Clear(a) \/ ClearFault(a)
    BY <2>6 DEF Abort, Count, CountFault, Clear, ClearFault, Typed
  <2> QED BY <1>1, <2>1, <2>2, <2>3, <2>4, <2>5, <2>6 DEF LoginStep
<1>2. ASSUME NEW i \in Ips, Sso(i) PROVE MemoryOK'
  BY <1>2, TripTypes DEF Sso, Typed
<1>3. CASE Unlock \/ Prune \/ UNCHANGED vars
  BY <1>3 DEF Unlock, Prune, vars, Typed
<1>4. CASE Restart
  BY <1>4, BucketTypes DEF Restart, Bucket, Absent
<1>5. CASE Tick
  <2>1. /\ ipHits' \in [Ips -> Bucket(IpMax)] /\ nameHits' \in Bucket(NameMax)
        /\ trips' \in [Ips -> Bucket(BanThreshold)]
    BY <1>5, BucketTypes DEF Tick, Typed
  <2>2. ban' \in [Ips -> 0..BanTime] /\ \A i \in Trusted : ban'[i] = 0
    BY <1>5 DEF Tick, Typed, Most
  <2> QED BY <2>1, <2>2
<1> QED BY <1>1, <1>2, <1>3, <1>4, <1>5 DEF Next

-----------------------------------------------------------------------------
\* The row after a failure was counted.
LEMMA CountedRow ==
  ASSUME NEW r \in Row, NEW n \in 1..FailedCap
  PROVE  [r EXCEPT !.failed = n, !.last = 0] \in Row
<1>1. \A l \in 0..Horizon + 1 : [r EXCEPT !.failed = n, !.last = l] \in Row
  BY Bounds DEF Row
<1>2. 0 \in 0..Horizon + 1
  BY Bounds
<1> QED BY <1>1, <1>2, Zenon

\* Every step keeps the row typed: the lock of a failure is within bounds because its count is.
LEMMA RowStep ==
  ASSUME Typed, Counted, [Next]_vars
  PROVE  RowOK'
<1> USE Bounds DEF Typed, RowOK, Row, memory, history
<1>1. ASSUME NEW a \in Attempts, LoginStep(a) PROVE RowOK'
  <2>1. CASE Count(a)
    <3>1. CASE row = None
      BY <2>1, <3>1 DEF Count
    <3>2. CASE row \in Row
      <4> DEFINE n == Least(FailedCap, row.failed + 1)
      <4>1. n \in 1..FailedCap
        BY <3>2 DEF Least
      <4>2. row' = [row EXCEPT !.failed = n, !.last = 0]
        BY <2>1, <3>2 DEF Count
      <4> HIDE DEF n
      <4>3. [row EXCEPT !.failed = n, !.last = 0] \in Row
        BY <3>2, <4>1, CountedRow
      <4> QED BY <4>2, <4>3
    <3> QED BY <3>1, <3>2
  <2>2. CASE Lock(a)
    <3>1. attempt[a].failed - Threshold \in 0..MaxLock
      BY <2>2 DEF Lock, Counted
    <3>2. Backoff(attempt[a].failed - Threshold) \in 1..MaxLock
      BY <3>1, BackoffBounds
    <3> QED BY <2>2, <3>2 DEF Lock
  <2>3. CASE Clear(a)
    BY <2>3 DEF Clear, DropRow
  <2>4. CASE UNCHANGED row
    BY <2>4
  <2> QED BY <1>1, <2>1, <2>2, <2>3, <2>4 DEF LoginStep, Precheck, LookUp, Fail, Pass, Abort, CountFault, ClearFault
<1>2. CASE Unlock \/ Prune
  BY <1>2 DEF Unlock, Prune, DropRow
<1>3. CASE Restart \/ UNCHANGED vars \/ \E i \in Ips : Sso(i)
  BY <1>3 DEF Restart, vars, Sso
<1>4. CASE Tick
  <2>1. CASE row = None
    BY <1>4, <2>1 DEF Tick, Older
  <2>2. CASE row \in Row
    <3>1. PICK l \in 0..Horizon + 1, u \in {None} \cup -(Horizon + 1)..MaxLock :
            row' = [row EXCEPT !.last = l, !.until = u]
      <4>1. Least(Horizon + 1, row.last + 1) \in 0..Horizon + 1
        BY <2>2 DEF Least
      <4>2. row.until # None => Most(-(Horizon + 1), row.until - 1) \in -(Horizon + 1)..MaxLock
        BY <2>2 DEF Most
      <4>3. row' = [row EXCEPT !.last = Least(Horizon + 1, row.last + 1),
                               !.until = IF row.until = None THEN None ELSE Most(-(Horizon + 1), row.until - 1)]
        BY <1>4, <2>2 DEF Tick, Older
      <4> QED BY <4>1, <4>2, <4>3
    <3> QED BY <2>2, <3>1
  <2> QED BY <2>1, <2>2
<1> QED BY <1>1, <1>2, <1>3, <1>4 DEF Next

\* The fields of the record of no login.
LEMMA NoAttemptFields ==
    NoAttempt \in Attempt /\ NoAttempt.pc = "idle" /\ NoAttempt.ip = None /\ NoAttempt.failed = 0
  BY Bounds DEF NoAttempt, Attempt

\* The type of one login.
AttemptOK(r) == r \in Attempt /\ (r.pc = "idle" <=> r.ip = None) /\ (r.pc = "lock" <=> r.failed # 0)

\* A cleared row marks the failures that are about to lock, and nothing else.
LEMMA ClearedTypes ==
  ASSUME NEW att \in [Attempts -> Attempt], \A b \in Attempts : AttemptOK(att[b])
  PROVE  /\ Cleared(att) \in [Attempts -> Attempt]
         /\ \A b \in Attempts : AttemptOK(Cleared(att)[b])
         /\ \A b \in Attempts : /\ Cleared(att)[b].pc = att[b].pc /\ Cleared(att)[b].failed = att[b].failed
                                /\ att[b].pc = "lock" => Cleared(att)[b].overtaken
  BY DEF Cleared, AttemptOK, Attempt

\* Every step keeps the logins typed.
LEMMA AttemptsStep ==
  ASSUME Typed, [Next]_vars
  PROVE  AttemptsOK'
<1> USE Bounds DEF Typed, AttemptsOK, Goto, Done
<1>0. attempt \in [Attempts -> Attempt] /\ \A b \in Attempts : AttemptOK(attempt[b])
  BY DEF AttemptOK
<1>1. ASSUME NEW a \in Attempts, LoginStep(a) PROVE AttemptsOK'
  <2>1. ASSUME NEW i \in Ips, Precheck(a, i) PROVE AttemptsOK'
    <3>1. ASSUME attempt' = [attempt EXCEPT ![a] = [NoAttempt EXCEPT !.pc = "lookup", !.ip = i]]
          PROVE  AttemptsOK'
      <4> DEFINE r == [NoAttempt EXCEPT !.pc = "lookup", !.ip = i]
      <4>1. r \in Attempt /\ r.pc = "lookup" /\ r.ip = i /\ r.failed = 0
        BY NoAttemptFields DEF Attempt
      <4>2. attempt' = [attempt EXCEPT ![a] = r]
        BY <3>1
      <4> HIDE DEF r
      <4> QED BY <4>1, <4>2
    <3> QED BY <2>1, <3>1 DEF Precheck
  <2>2. CASE Done(a)
    BY <2>2, NoAttemptFields
  <2>3. CASE Goto(a, "verify") /\ attempt[a].pc = "lookup"
    BY <2>3 DEF Attempt
  <2>4. CASE (Goto(a, "count") \/ Goto(a, "clear")) /\ attempt[a].pc = "verify"
    BY <2>4 DEF Attempt
  <2>5. CASE Count(a) /\ ~Done(a)
    <3>1. PICK failed \in 1..FailedCap :
            failed >= Threshold /\ attempt' = [attempt EXCEPT ![a].pc = "lock", ![a].failed = failed]
      BY <2>5 DEF Count, Locks, Least, RowOK, Row
    <3> QED BY <2>5, <3>1 DEF Attempt, Count
  <2>6. CASE Clear(a)
    <3> DEFINE att == [attempt EXCEPT ![a] = NoAttempt]
    <3>1. att \in [Attempts -> Attempt] /\ \A b \in Attempts : AttemptOK(att[b])
      BY <1>0, NoAttemptFields DEF AttemptOK
    <3>2. attempt' = Cleared(att)
      BY <2>6 DEF Clear
    <3> HIDE DEF att
    <3> QED BY <3>1, <3>2, ClearedTypes DEF AttemptOK
  <2>7. CASE UNCHANGED attempt
    BY <2>7
  <2> QED BY <1>1, <2>1, <2>2, <2>3, <2>4, <2>5, <2>6, <2>7 DEF LoginStep, LookUp, Fail, Pass, Abort, Lock, CountFault, ClearFault
<1>2. CASE Unlock \/ Prune
  <2>1. attempt' = Cleared(attempt)
    BY <1>2 DEF Unlock, Prune
  <2> QED BY <1>0, <2>1, ClearedTypes DEF AttemptOK
<1>3. CASE Restart
  BY <1>3, NoAttemptFields DEF Restart
<1>4. CASE Tick \/ UNCHANGED vars \/ \E i \in Ips : Sso(i)
  BY <1>4 DEF Tick, vars, Sso
<1> QED BY <1>1, <1>2, <1>3, <1>4 DEF Next

\* Every step preserves Counted.
LEMMA CountedStep ==
  ASSUME Typed, Counted, [Next]_vars
  PROVE  Counted'
<1> USE Bounds DEF Typed, Counted, Goto, Done, history
<1>0. RowOK /\ attempt \in [Attempts -> Attempt]
  BY DEF AttemptsOK
<1>1. ASSUME NEW a \in Attempts, LoginStep(a) PROVE Counted'
  <2>1. ASSUME NEW i \in Ips, Precheck(a, i) PROVE Counted'
    <3> DEFINE r == [NoAttempt EXCEPT !.pc = "lookup", !.ip = i]
    <3>1. r.pc = "lookup"
      BY NoAttemptFields DEF Attempt
    <3>2. attempt' = [attempt EXCEPT ![a] = r] \/ attempt' = attempt
      BY <2>1 DEF Precheck
    <3>3. row' = row
      BY <2>1 DEF Precheck
    <3> HIDE DEF r
    <3> QED BY <1>0, <3>1, <3>2, <3>3
  <2>2. CASE (LookUp(a) \/ Fail(a) \/ Pass(a) \/ Abort(a) \/ CountFault(a) \/ ClearFault(a))
    <3>1. /\ row' = row
          /\ Done(a) \/ \E pc \in {"verify", "count", "clear"} : Goto(a, pc)
      BY <2>2 DEF LookUp, Fail, Pass, Abort, CountFault, ClearFault
    <3> QED BY <1>0, <3>1, NoAttemptFields DEF Attempt
  <2>3. CASE Count(a)
    <3>1. /\ attempt[a].pc = "count"
          /\ row # None => row \in Row /\ row' # None /\ row'.failed = Least(FailedCap, row.failed + 1)
          /\ row = None => row' # None /\ row'.failed = 1
      <4>1. CASE row = None
        <5>1. [failed |-> 1, until |-> None, last |-> 0] \in Row
          BY DEF Row
        <5> QED BY <2>3, <4>1, <5>1 DEF Count
      <4>2. CASE row \in Row
        <5> DEFINE n == Least(FailedCap, row.failed + 1)
        <5>1. n \in 1..FailedCap
          BY <4>2 DEF Least, Row
        <5>2. row' = [row EXCEPT !.failed = n, !.last = 0] /\ attempt[a].pc = "count"
          BY <2>3, <4>2 DEF Count
        <5> HIDE DEF n
        <5>3. row' \in Row
          BY <4>2, <5>1, <5>2, CountedRow
        <5>4. row'.failed = n
          BY <4>2, <5>2 DEF Row
        <5> QED BY <4>2, <5>2, <5>3, <5>4 DEF n
      <4> QED BY <1>0, <4>1, <4>2 DEF RowOK
    <3>2. row # None => row'.failed \in Int /\ row'.failed <= FailedCap /\ (row'.failed >= row.failed \/ row'.failed >= Threshold)
      BY <3>1 DEF Least, Row
    <3>3. \A b \in Attempts \ {a} : attempt'[b] = attempt[b]
      BY <1>0, <2>3 DEF Count
    <3>4. attempt'[a].pc = "lock" => attempt'[a].failed \in Threshold..FailedCap /\ row' # None /\ row'.failed >= Threshold
      <4> DEFINE n == IF row = None THEN 1 ELSE Least(FailedCap, row.failed + 1)
      <4>1. n \in 1..FailedCap /\ row'.failed = n /\ row' # None
        BY <1>0, <3>1 DEF RowOK, Row, Least
      <4>2. IF n >= Threshold THEN attempt' = [attempt EXCEPT ![a].pc = "lock", ![a].failed = n] ELSE Done(a)
        BY <2>3 DEF Count, Locks
      <4> HIDE DEF n
      <4>3. CASE n >= Threshold
        BY <1>0, <4>1, <4>2, <4>3 DEF Attempt
      <4>4. CASE ~(n >= Threshold)
        BY <1>0, <4>2, <4>4, NoAttemptFields
      <4> QED BY <4>3, <4>4
    <3> QED BY <1>0, <3>1, <3>2, <3>3, <3>4 DEF RowOK, Row
  <2>4. CASE Lock(a)
    <3>1. row # None => row' # None /\ row'.failed = row.failed
      <4>1. CASE row \in Row
        <5>1. PICK u \in 1..MaxLock : row' = [row EXCEPT !.until = u]
          <6>1. attempt[a].failed - Threshold \in 0..MaxLock
            BY <2>4 DEF Lock
          <6>2. Backoff(attempt[a].failed - Threshold) \in 1..MaxLock
            BY <6>1, BackoffBounds
          <6>3. row' = [row EXCEPT !.until = Backoff(attempt[a].failed - Threshold)]
            BY <2>4, <4>1 DEF Lock
          <6> QED BY <6>2, <6>3
        <5>2. row'.failed = row.failed
          BY <4>1, <5>1 DEF Row
        <5>3. row' \in Row
          BY <4>1, <5>1 DEF Row
        <5> QED BY <5>2, <5>3
      <4> QED BY <1>0, <4>1 DEF RowOK
    <3>2. row = None => row' = row
      BY <2>4 DEF Lock
    <3>3. attempt' = [attempt EXCEPT ![a] = NoAttempt]
      BY <2>4 DEF Lock
    <3> QED BY <1>0, <3>1, <3>2, <3>3, NoAttemptFields
  <2>5. CASE Clear(a)
    <3> DEFINE att == [attempt EXCEPT ![a] = NoAttempt]
    <3>1. att \in [Attempts -> Attempt] /\ \A b \in Attempts : AttemptOK(att[b])
      BY NoAttemptFields DEF AttemptOK, AttemptsOK
    <3>2. attempt' = Cleared(att)
      BY <2>5 DEF Clear
    <3>3. \A b \in Attempts : att[b].pc = "lock" => att[b].failed \in Threshold..FailedCap
      BY <1>0, NoAttemptFields
    <3> HIDE DEF att
    <3> QED BY <3>1, <3>2, <3>3, ClearedTypes
  <2> QED BY <1>1, <2>1, <2>2, <2>3, <2>4, <2>5 DEF LoginStep
<1>2. CASE Unlock \/ Prune
  <2>1. attempt' = Cleared(attempt)
    BY <1>2 DEF Unlock, Prune
  <2>2. \A b \in Attempts : AttemptOK(attempt[b])
    BY DEF AttemptsOK, AttemptOK
  <2> QED BY <1>0, <2>1, <2>2, ClearedTypes
<1>3. CASE Restart
  BY <1>3, NoAttemptFields DEF Restart
<1>4. CASE UNCHANGED vars \/ \E i \in Ips : Sso(i)
  BY <1>4 DEF vars, Sso
<1>5. CASE Tick
  BY <1>5 DEF Tick, At
<1> QED BY <1>1, <1>2, <1>3, <1>4, <1>5 DEF Next

-----------------------------------------------------------------------------
\* The Boolean variables.
BooleansOK == lapsed \in BOOLEAN /\ unearned \in BOOLEAN

\* Every step keeps them Boolean.
LEMMA BooleansStep ==
  ASSUME AttemptsOK, BooleansOK, [Next]_vars
  PROVE  BooleansOK'
<1> USE DEF BooleansOK, history
<1>1. ASSUME NEW a \in Attempts, LoginStep(a) PROVE BooleansOK'
  <2>1. CASE Lock(a)
    <3>1. attempt[a].overtaken \in BOOLEAN
      BY DEF AttemptsOK, Attempt
    <3> QED BY <2>1, <3>1 DEF Lock
  <2>2. CASE CountFault(a) \/ Clear(a)
    BY <2>2 DEF CountFault, Clear, DropRow
  <2>3. CASE UNCHANGED history
    BY <2>3
  <2> QED BY <1>1, <2>1, <2>2, <2>3 DEF LoginStep, Precheck, LookUp, Fail, Pass, Abort, Count, ClearFault
<1>2. CASE Unlock \/ Prune \/ Restart \/ Tick
  BY <1>2 DEF Unlock, Prune, Restart, Tick, DropRow
<1>3. CASE UNCHANGED vars \/ \E i \in Ips : Sso(i)
  BY <1>3 DEF vars, Sso
<1> QED BY <1>1, <1>2, <1>3 DEF Next

-----------------------------------------------------------------------------
\* The two halves of LockMatchesCount: a row at the threshold is locked long enough, ...
LockKept ==
    row # None /\ row.failed >= Threshold /\ row.last < Backoff(0) /\ At("lock") = {} /\ ~lapsed
        => row.until # None /\ row.until >= Backoff(0) - row.last

\* ... and only such a row is locked.
Earned == Locked => row.failed >= Threshold \/ unearned

\* The lock of the first failure at the threshold.
LEMMA FirstBackoff == Backoff(0) \in 1..MaxLock
  BY BackoffBounds, Bounds

\* An action that leaves the row and the history alone and takes no attempt to or from the lock.
LEMMA Untouched ==
  ASSUME LockKept, Earned, UNCHANGED <<row, history>>,
         At("lock")' = {} => At("lock") = {}
  PROVE  LockKept' /\ Earned'
  BY DEF LockKept, Earned, Locked, history

\* Every step preserves both halves.
LEMMA LockStep ==
  ASSUME Typed, Counted, LockKept, Earned, [Next]_vars
  PROVE  LockKept' /\ Earned'
<1> USE DEF Typed, history
<1>0. RowOK /\ attempt \in [Attempts -> Attempt]
  BY DEF AttemptsOK
<1>1. ASSUME NEW a \in Attempts, LoginStep(a) PROVE LockKept' /\ Earned'
  <2>1. ASSUME NEW i \in Ips, Precheck(a, i) PROVE LockKept' /\ Earned'
    <3>1. attempt[a].pc = "idle" /\ UNCHANGED <<row, history>> /\ (\A b \in Attempts \ {a} : attempt'[b] = attempt[b])
      BY <1>0, <2>1 DEF Precheck
    <3>2. At("lock")' = {} => At("lock") = {}
      BY <1>0, <3>1 DEF At
    <3> QED BY <3>1, <3>2, Untouched
  <2>2. CASE LookUp(a) \/ Fail(a) \/ Pass(a) \/ Abort(a) \/ ClearFault(a)
    <3>1. /\ attempt[a].pc # "lock" /\ UNCHANGED <<row, history>>
          /\ \A b \in Attempts \ {a} : attempt'[b] = attempt[b]
      BY <1>0, <2>2 DEF LookUp, Fail, Pass, Abort, ClearFault, Goto, Done
    <3>2. At("lock")' = {} => At("lock") = {}
      BY <1>0, <3>1 DEF At
    <3> QED BY <3>1, <3>2, Untouched
  <2>3. CASE Count(a)
    <3> DEFINE n == IF row = None THEN 1 ELSE Least(FailedCap, row.failed + 1)
    <3>1. n \in 1..FailedCap /\ (row # None => n >= row.failed \/ n >= Threshold)
      BY <1>0, Bounds DEF RowOK, Row, Least
    <3>2. /\ IF n >= Threshold THEN attempt' = [attempt EXCEPT ![a].pc = "lock", ![a].failed = n] ELSE Done(a)
          /\ attempt[a].pc = "count" /\ UNCHANGED history
      BY <2>3 DEF Count, Locks
    <3>3. row'.failed = n /\ (IF row = None THEN row'.until = None ELSE row'.until = row.until)
      <4>1. CASE row = None
        BY <2>3, <4>1 DEF Count
      <4>2. CASE row \in Row
        <5>1. row' = [row EXCEPT !.failed = n, !.last = 0] /\ row # None
          BY <2>3, <4>2 DEF Count
        <5> HIDE DEF n
        <5> QED BY <4>2, <5>1 DEF Row
      <4> QED BY <1>0, <4>1, <4>2 DEF RowOK
    <3> HIDE DEF n
    <3>4. LockKept'
      <4>1. CASE n >= Threshold
        <5>1. attempt'[a].pc = "lock"
          BY <1>0, <3>2, <4>1 DEF Attempt
        <5> QED BY <5>1 DEF LockKept, At
      <4> QED BY <3>3, <4>1 DEF LockKept
    <3>5. Earned'
      BY <3>1, <3>2, <3>3, Bounds DEF Earned, Locked, RowOK, Row
    <3> QED BY <3>4, <3>5
  <2>4. CASE Lock(a)
    <3>1. CASE row = None
      BY <2>4, <3>1 DEF Lock, LockKept, Earned, Locked
    <3>2. CASE row \in Row
      <4> DEFINE u == Backoff(attempt[a].failed - Threshold)
      <4>1. attempt[a].failed - Threshold \in 0..MaxLock
        BY <2>4, Bounds DEF Lock, Counted
      <4>2. u \in 1..MaxLock /\ u >= Backoff(0)
        BY <4>1, BackoffBounds
      <4>3. row' = [row EXCEPT !.until = u] /\ unearned' = attempt[a].overtaken
        BY <2>4, <3>2 DEF Lock
      <4> HIDE DEF u
      <4>4. row'.until = u /\ row'.failed = row.failed /\ row'.last = row.last
        BY <3>2, <4>3 DEF Row
      <4>5. LockKept'
        BY <3>2, <4>2, <4>4, FirstBackoff, Bounds DEF LockKept, Row
      <4>6. row.failed >= Threshold \/ unearned'
        BY <2>4, <3>2, <4>3 DEF Counted, Lock
      <4> QED BY <4>4, <4>5, <4>6 DEF Earned
    <3> QED BY <1>0, <3>1, <3>2 DEF RowOK
  <2>5. CASE CountFault(a)
    <3>1. /\ row' = row /\ unearned' = unearned /\ attempt[a].pc \in {"count", "lock"}
          /\ ~lapsed' => ~lapsed /\ (attempt[a].pc # "lock" \/ row = None)
          /\ \A b \in Attempts \ {a} : attempt'[b] = attempt[b]
      BY <1>0, <2>5 DEF CountFault, Done
    <3>2. attempt[a].pc # "lock" /\ At("lock")' = {} => At("lock") = {}
      BY <1>0, <3>1 DEF At
    <3> QED BY <3>1, <3>2 DEF LockKept, Earned, Locked
  <2>6. CASE Clear(a)
    BY <2>6 DEF Clear, DropRow, LockKept, Earned, Locked
  <2> QED BY <1>1, <2>1, <2>2, <2>3, <2>4, <2>5, <2>6 DEF LoginStep
<1>2. CASE Unlock \/ Prune
  BY <1>2 DEF Unlock, Prune, DropRow, LockKept, Earned, Locked
<1>3. CASE Restart
  <2>1. row' = row /\ unearned' = unearned /\ (~lapsed' => ~lapsed /\ (row = None \/ At("lock") = {}))
    BY <1>3 DEF Restart
  <2> QED BY <2>1 DEF LockKept, Earned, Locked
<1>4. CASE UNCHANGED vars \/ \E i \in Ips : Sso(i)
  BY <1>4 DEF vars, Sso, LockKept, Earned, Locked, At
<1>5. CASE Tick
  <2>1. CASE row = None
    BY <1>5, <2>1 DEF Tick, Older, LockKept, Earned, Locked
  <2>2. CASE row \in Row
    <3> DEFINE l == Least(Horizon + 1, row.last + 1)
               u == IF row.until = None THEN None ELSE Most(-(Horizon + 1), row.until - 1)
    <3>1. row' = [row EXCEPT !.last = l, !.until = u] /\ At("lock") = {} /\ UNCHANGED history
      BY <1>5, <2>2 DEF Tick, Older
    <3>2. /\ l \in Int /\ (l = row.last + 1 \/ l = Horizon + 1)
          /\ row.until = None => u = None
          /\ row.until # None => /\ row.until \in Int /\ u \in Int /\ u # None
                                 /\ u = row.until - 1 \/ (u = -(Horizon + 1) /\ row.until - 1 <= u)
          /\ row.last \in Nat /\ row.failed \in Nat
      BY <2>2, Bounds DEF Least, Most, Row
    <3> HIDE DEF l, u
    <3>3. row'.last = l /\ row'.until = u /\ row'.failed = row.failed /\ row # None
      BY <2>2, <3>1 DEF Row
    <3>4. LockKept'
      BY <3>1, <3>2, <3>3, FirstBackoff, Bounds DEF LockKept
    <3>5. Earned'
      BY <3>1, <3>2, <3>3, Bounds DEF Earned, Locked
    <3> QED BY <3>4, <3>5
  <2> QED BY <1>0, <2>1, <2>2 DEF RowOK
<1> QED BY <1>1, <1>2, <1>3, <1>4, <1>5 DEF Next

-----------------------------------------------------------------------------
\* The inductive invariant.
Invariant == Typed /\ BooleansOK /\ Counted /\ LockKept /\ Earned

\* It holds in every reachable state.
LEMMA InvariantHolds == Spec => []Invariant
<1>1. Init => Invariant
  <2> SUFFICES ASSUME Init PROVE Invariant
    OBVIOUS
  <2>1. Typed
    <3>1. RowOK /\ AttemptsOK
      BY NoAttemptFields DEF Init, RowOK, AttemptsOK
    <3>2. \A max \in Nat \ {0} : Absent \in Bucket(max)
      BY DEF Absent, Bucket
    <3>3. MemoryOK
      BY <3>2, Bounds DEF Init, MemoryOK
    <3> QED BY <3>1, <3>3 DEF Typed
  <2>2. BooleansOK /\ Counted /\ LockKept /\ Earned
    BY NoAttemptFields DEF Init, BooleansOK, Counted, LockKept, Earned, Locked
  <2> QED BY <2>1, <2>2 DEF Invariant
<1>2. Invariant /\ [Next]_vars => Invariant'
  BY RowStep, AttemptsStep, MemoryStep, BooleansStep, CountedStep, LockStep DEF Invariant, Typed
<1> QED BY <1>1, <1>2, PTL DEF Spec

\* Every reachable state is well typed, whatever thresholds, windows, addresses and clients there are; no
\* trusted address is ever banned.
THEOREM ProtectionTypeCorrect == Spec => []TypeOK
<1>1. Invariant => TypeOK
  BY DEF Invariant, Typed, RowOK, AttemptsOK, MemoryOK, BooleansOK, TypeOK
<1> QED BY <1>1, InvariantHolds, PTL

\* The lock of an account fits its count of failures, although two calls of recordFailure write them and
\* several clients, successes, unlocks, prunings, failing calls and restarts come between.
THEOREM LockFitsCount == Spec => []LockMatchesCount
<1>1. Invariant => LockMatchesCount
  BY DEF Invariant, LockKept, Earned, LockMatchesCount
<1> QED BY <1>1, InvariantHolds, PTL
=============================================================================
