-------------------------- MODULE LoginProtection --------------------------
(***************************************************************************)
(* The brute-force protection of NestIdP's logins, for one account that    *)
(* several clients try at once: the throttle per address and per user name *)
(* and the bans of addresses, both in memory, and the lockout of the       *)
(* account, a row of the database whose counter and lock are written by    *)
(* two calls.  An attempt is checked against all of them, the password is  *)
(* verified later, and its outcome recorded later still.                   *)
(*                                                                         *)
(* Time is relative and coarse: a unit is a part of the shortest window or *)
(* lock, in minutes, so that no unit passes between the two calls of one   *)
(* failure; it may between any other two steps.  All windows are equal, as *)
(* by default: an expired counter is then absent for whoever looks at it.  *)
(* Counters stop where a higher value makes no difference.                 *)
(***************************************************************************)
EXTENDS Integers, FiniteSets

CONSTANTS
    Attempts,      \* handlers of login requests
    Ips,           \* client addresses
    Trusted,       \* those in RATE_LIMIT_TRUSTED_CIDRS
    Threshold,     \* LOGIN_LOCKOUT_THRESHOLD, not 0
    Base, MaxLock, \* LOGIN_LOCKOUT_BASE_MS, LOGIN_LOCKOUT_MAX_MS
    Horizon,       \* the longest lock of any scope
    IpMax, NameMax, \* failures admitted in a window
    Window,        \* the length of every window
    BanThreshold,  \* LOGIN_IP_BAN_THRESHOLD, not 0
    BanTime,       \* LOGIN_IP_BAN_MS
    None

Positive == Nat \ {0}
ASSUME LoginProtectionConstants ==
    /\ Trusted \subseteq Ips /\ None \notin Ips \cup Int
    /\ {Threshold, Base, IpMax, NameMax, Window, BanThreshold, BanTime} \subseteq Positive
    /\ MaxLock \in Positive /\ Horizon \in Positive /\ Horizon >= MaxLock

\* Facts about powers, which the provers do not know: they hold whatever MaxLock is.
ASSUME PowersOfTwo == 2^0 = 1 /\ \A n \in 0..MaxLock : 2^n \in Nat /\ 2^n > n

VARIABLES
    row,      \* the LoginLockout row of the account, or None
    ipHits, nameHits, trips,  \* counters of the windows: failures per address and per name, trips per address
    ban,      \* ban[i]: what is left of the ban of an address
    attempt,  \* attempt[a]: the login a handler is busy with
    lapsed,   \* history: the lock of the row's last failure was not written
    unearned  \* history: the row's lock was written by a failure counted before the row was cleared

memory == <<ipHits, nameHits, trips, ban>>
history == <<lapsed, unearned>>
vars == <<row, memory, attempt, history>>

-----------------------------------------------------------------------------
\* min(MaxLock, Base * 2^over), the lock of a failure that is over the threshold by that many.
Backoff(over) == LET doubled == Base * 2^over IN IF doubled < MaxLock THEN doubled ELSE MaxLock

\* From this count on the lock is MaxLock.
FailedCap == CHOOSE n \in Threshold..Threshold + MaxLock :
                /\ Backoff(n - Threshold) = MaxLock
                /\ \A m \in Threshold..n - 1 : Backoff(m - Threshold) < MaxLock

\* until: what is left of the lock, negative after it ended; last: time since the last failure.
Row == [failed: 1..FailedCap, until: {None} \cup -(Horizon + 1)..MaxLock, last: 0..Horizon + 1]
\* None is not a row.
ASSUME NoneIsNoRow == None \notin Row

Locked == row # None /\ row.until # None /\ row.until > 0

Attempt == [pc: {"idle", "lookup", "verify", "count", "lock", "clear"}, ip: Ips \cup {None},
            failed: 0..FailedCap, overtaken: BOOLEAN]
NoAttempt == [pc |-> "idle", ip |-> None, failed |-> 0, overtaken |-> FALSE]
At(pc) == {a \in Attempts : attempt[a].pc = pc}
Goto(a, pc) == attempt' = [attempt EXCEPT ![a].pc = pc]
Done(a) == attempt' = [attempt EXCEPT ![a] = NoAttempt]

Least(x, y) == IF x < y THEN x ELSE y
Most(x, y) == IF x > y THEN x ELSE y

-----------------------------------------------------------------------------
(* SlidingWindowRateLimiter: a counter with the age of its window, absent when 0.           *)

Absent == [count |-> 0, age |-> 0]
Bucket(max) == [count: 0..max, age: 0..Window - 1]
Limited(b, max) == b.count >= max
Recorded(b, max) == [b EXCEPT !.count = Least(max, @ + 1)]
Aged(b) == IF b.count = 0 \/ b.age + 1 >= Window THEN Absent ELSE [b EXCEPT !.age = @ + 1]

\* Mutant: trusted addresses are banned as well.
MutTrip(i) ==
    /\ trips' = [trips EXCEPT ![i] = Recorded(@, BanThreshold)]
    /\ ban' = IF Limited(trips'[i], BanThreshold) THEN [ban EXCEPT ![i] = BanTime] ELSE ban

\* recordTrip: one more blocked or locking attempt from the address, which is banned at the threshold.
Trip(i) ==
    IF i \in Trusted THEN UNCHANGED <<trips, ban>>
    ELSE /\ trips' = [trips EXCEPT ![i] = Recorded(@, BanThreshold)]
         /\ ban' = IF Limited(trips'[i], BanThreshold) THEN [ban EXCEPT ![i] = BanTime] ELSE ban

-----------------------------------------------------------------------------
(* A login.                                                                                 *)

Banned(i) == ban[i] > 0
Throttled(i) == Limited(ipHits[i], IpMax) \/ Limited(nameHits, NameMax)

\* precheckLogin up to its await: a banned address is turned away, a throttled one trips as well.
Precheck(a, i) ==
    /\ attempt[a].pc = "idle"
    /\ IF i \in Trusted \/ ~(Banned(i) \/ Throttled(i))
       THEN attempt' = [attempt EXCEPT ![a] = [NoAttempt EXCEPT !.pc = "lookup", !.ip = i]] /\ UNCHANGED <<trips, ban>>
       ELSE ~Banned(i) /\ Trip(i) /\ UNCHANGED attempt
    /\ UNCHANGED <<row, ipHits, nameHits, history>>

\* Mutant: the password of a locked account is verified, too.
MutRefused == FALSE

\* The lock applies to trusted addresses, too.
Refused == Locked

LookUp(a) ==
    /\ attempt[a].pc = "lookup"
    /\ IF Refused THEN Trip(attempt[a].ip) /\ Done(a) ELSE Goto(a, "verify") /\ UNCHANGED <<trips, ban>>
    /\ UNCHANGED <<row, ipHits, nameHits, history>>

\* The password is wrong, or there is no such user: the throttle counts at once, the lockout next.
Fail(a) ==
    /\ attempt[a].pc = "verify"
    /\ ipHits' = [ipHits EXCEPT ![attempt[a].ip] = Recorded(@, IpMax)]
    /\ nameHits' = Recorded(nameHits, NameMax)
    /\ Goto(a, "count")
    /\ UNCHANGED <<row, trips, ban, history>>

\* The login succeeds: the throttle is reset at once, the lockout next.
Pass(a) ==
    /\ attempt[a].pc = "verify"
    /\ ipHits' = [ipHits EXCEPT ![attempt[a].ip] = Absent]
    /\ nameHits' = Absent
    /\ Goto(a, "clear")
    /\ UNCHANGED <<row, trips, ban, history>>

\* Another error than a refused credential counts for nothing.
Abort(a) ==
    /\ attempt[a].pc = "verify"
    /\ Done(a)
    /\ UNCHANGED <<row, memory, history>>

\* Mutant: only the failure that reaches the threshold locks.
MutLocks(failed) == failed = Threshold

Locks(failed) == failed >= Threshold

\* recordFailure, the upsert: it returns the count after its own increment.
Count(a) ==
    /\ attempt[a].pc = "count"
    /\ LET failed == IF row = None THEN 1 ELSE Least(FailedCap, row.failed + 1) IN
       /\ row' = IF row = None THEN [failed |-> 1, until |-> None, last |-> 0]
                 ELSE [row EXCEPT !.failed = failed, !.last = 0]
       /\ IF Locks(failed) THEN attempt' = [attempt EXCEPT ![a].pc = "lock", ![a].failed = failed] ELSE Done(a)
    /\ UNCHANGED <<memory, history>>

\* recordFailure, the update: it locks whatever row is there, and rejects when there is none.
Lock(a) ==
    /\ attempt[a].pc = "lock"
    /\ Done(a)
    /\ IF row = None THEN UNCHANGED <<row, trips, ban, history>>
       ELSE /\ row' = [row EXCEPT !.until = Backoff(attempt[a].failed - Threshold)]
            /\ Trip(attempt[a].ip)
            /\ lapsed' = FALSE /\ unearned' = attempt[a].overtaken
    /\ UNCHANGED <<ipHits, nameHits>>

\* The database rejects a call of recordFailure.
CountFault(a) ==
    /\ attempt[a].pc \in {"count", "lock"}
    /\ Done(a)
    /\ lapsed' = (lapsed \/ (attempt[a].pc = "lock" /\ row # None))
    /\ UNCHANGED <<row, memory, unearned>>

\* The row goes; a failure that was counted in it may still be about to lock.
Cleared(att) == [b \in Attempts |-> [att[b] EXCEPT !.overtaken = (@ \/ att[b].pc = "lock")]]
DropRow == row' = None /\ lapsed' = FALSE /\ unearned' = FALSE

\* recordSuccess.
Clear(a) ==
    /\ attempt[a].pc = "clear"
    /\ DropRow
    /\ attempt' = Cleared([attempt EXCEPT ![a] = NoAttempt])
    /\ UNCHANGED memory

\* recordSuccess swallows a rejection.
ClearFault(a) ==
    /\ attempt[a].pc = "clear"
    /\ Done(a)
    /\ UNCHANGED <<row, memory, history>>

LoginStep(a) ==
    \/ \E i \in Ips : Precheck(a, i)
    \/ LookUp(a) \/ Fail(a) \/ Pass(a) \/ Abort(a) \/ Count(a) \/ Lock(a) \/ CountFault(a) \/ Clear(a) \/ ClearFault(a)

-----------------------------------------------------------------------------
(* The other users of the protection, and time.                                            *)

\* precheckSso, for the SAML endpoint and complete-sso: a request over the limit of its own counter, which
\* nothing else reads, trips.
Sso(i) ==
    /\ ~Banned(i)
    /\ Trip(i)
    /\ UNCHANGED <<row, ipHits, nameHits, attempt, history>>

\* An operator unlocks the account, or its credentials are changed.
Unlock ==
    /\ row # None
    /\ DropRow
    /\ attempt' = Cleared(attempt)
    /\ UNCHANGED memory

\* Escalation is remembered for the horizon.
Stale == row # None /\ IF row.until # None THEN -row.until > Horizon ELSE row.last > Horizon

Prune ==
    /\ Stale
    /\ DropRow
    /\ attempt' = Cleared(attempt)
    /\ UNCHANGED memory

\* Memory is lost, the row is not.
Restart ==
    /\ ipHits' = [i \in Ips |-> Absent] /\ nameHits' = Absent
    /\ trips' = [i \in Ips |-> Absent] /\ ban' = [i \in Ips |-> 0]
    /\ attempt' = [a \in Attempts |-> NoAttempt]
    /\ lapsed' = (lapsed \/ (row # None /\ At("lock") # {}))
    /\ UNCHANGED <<row, unearned>>

Older(r) == IF r = None THEN None
            ELSE [r EXCEPT !.last = Least(Horizon + 1, @ + 1),
                           !.until = IF @ = None THEN None ELSE Most(-(Horizon + 1), @ - 1)]

Tick ==
    /\ At("count") \cup At("lock") = {}
    /\ row' = Older(row)
    /\ ipHits' = [i \in Ips |-> Aged(ipHits[i])] /\ nameHits' = Aged(nameHits)
    /\ trips' = [i \in Ips |-> Aged(trips[i])]
    /\ ban' = [i \in Ips |-> Most(0, ban[i] - 1)]
    /\ UNCHANGED <<attempt, history>>

-----------------------------------------------------------------------------
Init ==
    /\ row = None
    /\ ipHits = [i \in Ips |-> Absent] /\ nameHits = Absent
    /\ trips = [i \in Ips |-> Absent] /\ ban = [i \in Ips |-> 0]
    /\ attempt = [a \in Attempts |-> NoAttempt]
    /\ lapsed = FALSE /\ unearned = FALSE

Next ==
    \/ \E a \in Attempts : LoginStep(a)
    \/ \E i \in Ips : Sso(i)
    \/ Unlock \/ Prune \/ Restart \/ Tick

Spec == Init /\ [][Next]_vars

\* Time does not stop, and so the calls of a failure return.  (Where it changes nothing, nobody is shut out.)
FairSpec == Spec /\ []<><<Tick>>_vars

-----------------------------------------------------------------------------
TypeOK ==
    /\ row \in {None} \cup Row
    /\ ipHits \in [Ips -> Bucket(IpMax)] /\ nameHits \in Bucket(NameMax)
    /\ trips \in [Ips -> Bucket(BanThreshold)] /\ ban \in [Ips -> 0..BanTime]
    /\ attempt \in [Attempts -> Attempt]
    /\ \A i \in Trusted : ban[i] = 0
    /\ \A a \in Attempts : (attempt[a].pc = "idle" <=> attempt[a].ip = None) /\ (attempt[a].pc = "lock" <=> attempt[a].failed # 0)
    /\ lapsed \in BOOLEAN /\ unearned \in BOOLEAN

\* The two columns of the row fit together, although they are written by two calls and several clients,
\* successes and operators interleave: since a failure at or over the threshold the account was locked for the
\* first lock's time at least, unless the call that locks is on its way or was lost; and an account is locked only
\* after that many consecutive failures, unless the lock belongs to a failure counted before a clear.
LockMatchesCount ==
    row # None =>
        /\ row.failed >= Threshold /\ row.last < Backoff(0) /\ At("lock") = {} /\ ~lapsed
             => row.until # None /\ row.until >= Backoff(0) - row.last
        /\ Locked => row.failed >= Threshold \/ unearned

\* docs/development.md:449 "After LOGIN_LOCKOUT_THRESHOLD consecutive failures an account locks".
LockEarned == Locked => row.failed >= Threshold

\* Nobody is shut out for good, however long others go on trying: a lock and a ban end although every
\* refused attempt counts against the address it comes from.
NobodyShutOut == []<>~Locked /\ \A i \in Ips \ Trusted : []<>~Banned(i)
=============================================================================
