--------------------------- MODULE DirectorySync ---------------------------
(***************************************************************************)
(* What the identity-sync runs of NestIdP do to the directory: users and   *)
(* groups of several sources in one store, with one namespace of user      *)
(* names; a run of each source that upserts the users its source answered, *)
(* replaces their memberships, deactivates the users it did not see and    *)
(* deletes the groups it did not see; "sync all"; and an administrator who *)
(* creates manual users and removes the identities of a source or the      *)
(* source itself.                                                          *)
(*                                                                         *)
(* Every database call is a step of its own.  What a source answers is     *)
(* chosen when the run comes to use it: nothing else looks at it.  Groups  *)
(* stand for groups and roles, which the code runs through one descriptor  *)
(* each, with a guard of its own.  Admission of runs is the business of    *)
(* SyncScheduler: here a source has one run at a time.  Dry runs write     *)
(* nothing and are left out.                                               *)
(***************************************************************************)
EXTENDS Integers, FiniteSets

CONSTANTS
    Sources,      \* the API connections
    Local,        \* the local directory, whose users are the manual ones
    Users,        \* identities: an external id within its source, or a manual user
    Groups,       \* external ids of groups within their source
    Home,         \* Home[x]: the source of the identity or group x
    Names,        \* user names
    Rank,         \* Rank[c]: the place of the source by createdAt, then id
    Policy,       \* Policy[c]: "skip" or "fail_run", on a collision of user names
    Strict,       \* the sources with onRowError = "fail"
    Concurrency,  \* SYNC_ALL_CONCURRENCY
    External,     \* whether the identities live in an external database (relocate mode)
    MaxOps,       \* bound: calls of the administrator
    None

ASSUME DirectoryConstants ==
    /\ Local \notin Sources /\ None \notin Names \cup Users
    /\ Home \in [Users \cup Groups -> Sources \cup {Local}]
    /\ \A g \in Groups : Home[g] \in Sources
    /\ IsFiniteSet(Sources) /\ Rank \in [Sources -> Nat]
    /\ \A c, d \in Sources : Rank[c] = Rank[d] => c = d
    /\ Policy \in [Sources -> {"skip", "fail_run"}] /\ Strict \subseteq Sources
    /\ Concurrency \in Nat \ {0} /\ External \in BOOLEAN
    /\ MaxOps \in Nat

VARIABLES
    conns,     \* the sources that exist
    user,      \* user[u]: the row of the identity, or None
    group,     \* the groups that have a row
    run,       \* run[c]: the run of source c
    pool,      \* the "sync all" in progress
    admin,     \* the administrator's call
    alone,     \* history: sources whose identities nobody removed since their run began
    ops        \* bounded counter

vars == <<conns, user, group, run, pool, admin, alone, ops>>

-----------------------------------------------------------------------------
Of(c) == {u \in Users : Home[u] = c}
GroupsOf(c) == {g \in Groups : Home[g] = c}

User == [name: Names, active: BOOLEAN, groups: SUBSET Groups]
ASSUME NoneIsNoRow == None \notin User

Rows == {u \in Users : user[u] # None}
Owners(n) == {u \in Rows : user[u].name = n}

\* seen, ok: the users the source answered, and those of them that were upserted; left, todo: of seen, those
\* not handled yet, of ok, those whose memberships are not applied yet; cur, name: the user being handled and
\* the name answered for it; want, ids: its groups still to upsert, and those to assign; census: groups seen;
\* listed: what the source lists for each user asked about, whether or not the run reads all of it; failed: a
\* fetch of memberships failed; clean: nothing was skipped or cut off; drop: users to deactivate; all: started by "sync all".
Run == [pc: {"idle", "fetch", "user", "write", "member", "upsert", "replace", "unseen", "drop", "orphans", "success"},
        seen: SUBSET Users, left: SUBSET Users, ok: SUBSET Users, todo: SUBSET Users, drop: SUBSET Users,
        cur: Users \cup {None}, name: Names \cup {None},
        want: SUBSET Groups, ids: SUBSET Groups, census: SUBSET Groups, listed: [Users -> SUBSET Groups],
        failed: BOOLEAN, clean: BOOLEAN, all: BOOLEAN]
NoRun == [pc |-> "idle", seen |-> {}, left |-> {}, ok |-> {}, todo |-> {}, drop |-> {},
          cur |-> None, name |-> None, want |-> {}, ids |-> {}, census |-> {},
          listed |-> [u \in Users |-> {}], failed |-> FALSE, clean |-> TRUE, all |-> FALSE]

\* The sources no worker has taken yet, those at work, and the number of workers.
Pool == [queue: SUBSET Sources, busy: SUBSET Sources, size: {1, Concurrency}]
NoPool == [queue |-> {}, busy |-> {}, size |-> 1]

Admin == [pc: {"idle", "create", "rename", "remove", "disconnect"}, of: Users \cup Sources \cup {None},
          name: Names \cup {None}, ids: SUBSET Users]
NoAdmin == [pc |-> "idle", of |-> None, name |-> None, ids |-> {}]

-----------------------------------------------------------------------------
(* Starting and ending a run.                                              *)

Set(c, r) == run' = [run EXCEPT ![c] = r]

\* The run ends; a place in the pool becomes free.
End(c) ==
    /\ Set(c, NoRun)
    /\ pool' = [pool EXCEPT !.busy = @ \ {c}]

Start(c, all) ==
    /\ c \in conns /\ run[c].pc = "idle"
    /\ Set(c, [NoRun EXCEPT !.pc = "fetch", !.all = all])
    /\ alone' = alone \cup {c}

\* triggerSync, by an administrator or the scheduler.
Trigger(c) ==
    /\ Start(c, FALSE)
    /\ UNCHANGED <<conns, user, group, pool, admin, ops>>

PoolIdle == pool.queue = {} /\ pool.busy = {}

\* Mutant: the configured concurrency is used whatever the policies say.
MutEffectiveConcurrency(cs) == Concurrency

\* effectiveSyncAllConcurrency: parallel only when every source of it fails its run on a collision.
EffectiveConcurrency(cs) == IF \A c \in cs : Policy[c] = "fail_run" THEN Concurrency ELSE 1

\* syncAll lists the sources and chooses the number of workers.
StartSyncAll ==
    /\ PoolIdle /\ ops < MaxOps /\ ops' = ops + 1
    /\ pool' = [queue |-> conns, busy |-> {}, size |-> EffectiveConcurrency(conns)]
    /\ UNCHANGED <<conns, user, group, run, admin, alone>>

\* A worker of the pool takes the next source; one that is gone or has a run in progress is skipped.
SyncAllNext ==
    /\ Cardinality(pool.busy) < pool.size
    /\ \E c \in pool.queue :
          /\ \A d \in pool.queue : Rank[c] <= Rank[d]
          /\ IF c \in conns /\ run[c].pc = "idle"
             THEN Start(c, TRUE) /\ pool' = [pool EXCEPT !.queue = @ \ {c}, !.busy = @ \cup {c}]
             ELSE pool' = [pool EXCEPT !.queue = @ \ {c}] /\ UNCHANGED <<run, alone>>
    /\ UNCHANGED <<conns, user, group, admin, ops>>

-----------------------------------------------------------------------------
(* Phase A: the users.                                                     *)

Unusable(ids, junk) == junk /\ ids = {}

\* The bearer or the fetch fails, or no row has a usable id; otherwise rows without one are skipped.
FetchUsers(c) ==
    /\ run[c].pc = "fetch"
    /\ \/ End(c)
       \/ \E ids \in SUBSET Of(c), junk \in BOOLEAN :
             IF Unusable(ids, junk) THEN End(c)
             ELSE /\ Set(c, [run[c] EXCEPT !.pc = IF ids = {} THEN "unseen" ELSE "user",
                                           !.left = ids, !.seen = ids, !.clean = ~junk])
                  /\ UNCHANGED pool
    /\ UNCHANGED <<conns, user, group, admin, alone, ops>>

\* Mutant: phase C looks for users it did not see only when the source answered none.
MutOnward(r) == IF r.left # {} THEN "user" ELSE IF r.todo # {} THEN "member" ELSE "orphans"

\* On to the next user, then to the memberships of those upserted, then to phase C.
Onward(r) == IF r.left # {} THEN "user" ELSE IF r.todo # {} THEN "member" ELSE "unseen"
Handled(r) == LET s == [r EXCEPT !.left = @ \ {r.cur}, !.cur = None, !.name = None] IN
              [s EXCEPT !.pc = Onward(s)]

\* The user is skipped; or the whole run fails (StrictRowError).
Skip(c, r, strict) ==
    IF strict THEN End(c) ELSE Set(c, Handled([r EXCEPT !.clean = FALSE])) /\ UNCHANGED pool

\* The row cannot be mapped.
BadUser(c) ==
    /\ run[c].pc = "user"
    /\ \E u \in run[c].left : Skip(c, [run[c] EXCEPT !.cur = u], c \in Strict)
    /\ UNCHANGED <<conns, user, group, admin, alone, ops>>

\* Another source or a manual user has the name: the user is skipped, its memberships are not asked for.
Collide(c, r) == Skip(c, r, Policy[c] = "fail_run")

\* upsertUser: the name is looked up before the upsert.
LookUpName(c) ==
    /\ run[c].pc = "user"
    /\ \E u \in run[c].left, n \in Names :
          LET r == [run[c] EXCEPT !.cur = u, !.name = n] IN
          IF Owners(n) \subseteq {u}
          THEN Set(c, [r EXCEPT !.pc = "write"]) /\ UNCHANGED pool
          ELSE Collide(c, r)
    /\ UNCHANGED <<conns, user, group, admin, alone, ops>>

\* The unique name is the final arbiter.
Free(u, n) == Owners(n) \subseteq {u}

\* Without the source the local store rejects a new row; an external one has no such constraint.
Accepted(c) == External \/ c \in conns

\* The user is upserted, active or not as the source says, or collides after all, or is rejected.
WriteUser(c) ==
    /\ run[c].pc = "write"
    /\ LET r == run[c]  u == r.cur IN
       IF Free(u, r.name) /\ (Accepted(c) \/ user[u] # None)
       THEN /\ \E act \in BOOLEAN :
                  user' = [user EXCEPT ![u] = [name |-> r.name, active |-> act,
                                               groups |-> IF user[u] = None THEN {} ELSE user[u].groups]]
            /\ Set(c, Handled([r EXCEPT !.ok = @ \cup {u}, !.todo = @ \cup {u}]))
            /\ UNCHANGED pool
       ELSE /\ IF Free(u, r.name) THEN Skip(c, r, FALSE) ELSE Collide(c, r)
            /\ UNCHANGED user
    /\ UNCHANGED <<conns, group, admin, alone, ops>>

\* A call of upsertUser rejects: the user is skipped.
UserFault(c) ==
    /\ run[c].pc = "write"
    /\ Skip(c, run[c], FALSE)
    /\ UNCHANGED <<conns, user, group, admin, alone, ops>>

-----------------------------------------------------------------------------
(* Phase B: the memberships.                                               *)

\* The fetch of a user's memberships fails: they stay, and the census is incomplete.
FetchFails(c) ==
    /\ run[c].pc = "member"
    /\ \E u \in run[c].todo : Set(c, Handled([run[c] EXCEPT !.todo = @ \ {u}, !.failed = TRUE, !.clean = FALSE]))
    /\ UNCHANGED <<conns, user, group, pool, admin, alone, ops>>

\* The memberships of a user are at hand, all or some of those the source lists: a row that cannot be mapped
\* is recorded and left out; what lies beyond the cap per user or the last page, and a list that is not an
\* array, is left out without a word.  None of them counts as a failed fetch.
BeginMembers(c) ==
    /\ run[c].pc = "member"
    /\ \E u \in run[c].todo, gs \in SUBSET GroupsOf(c) : \E read \in SUBSET gs :
          Set(c, [run[c] EXCEPT !.pc = IF read = {} THEN "replace" ELSE "upsert", !.cur = u, !.todo = @ \ {u},
                                !.want = read, !.listed[u] = gs, !.clean = @ /\ read = gs])
    /\ UNCHANGED <<conns, user, group, pool, admin, alone, ops>>

\* The group is marked seen and upserted; a rejected upsert is recorded and the group left out.
UpsertGroup(c) ==
    /\ run[c].pc = "upsert"
    /\ \E g \in run[c].want, fails \in BOOLEAN :
          LET r == [run[c] EXCEPT !.want = @ \ {g}, !.census = @ \cup {g},
                                  !.pc = IF run[c].want = {g} THEN "replace" ELSE "upsert"] IN
          IF fails \/ ~(Accepted(c) \/ g \in group)
          THEN Set(c, [r EXCEPT !.clean = FALSE]) /\ UNCHANGED group
          ELSE Set(c, [r EXCEPT !.ids = @ \cup {g}]) /\ group' = group \cup {g}
    /\ UNCHANGED <<conns, user, pool, admin, alone, ops>>

\* replaceUserGroups, in one transaction.  A user whose row was deleted since, and its groups with it, has
\* nothing to replace; assigning groups to it rejects, and that fails the run.
ReplaceMembers(c) ==
    /\ run[c].pc = "replace"
    /\ LET r == run[c]  u == r.cur IN
       IF user[u] = None /\ r.ids # {} THEN End(c) /\ UNCHANGED user
       ELSE /\ user' = IF user[u] = None THEN user
                       ELSE [user EXCEPT ![u].groups = r.ids]
            /\ Set(c, Handled([r EXCEPT !.ids = {}]))
            /\ UNCHANGED pool
    /\ UNCHANGED <<conns, group, admin, alone, ops>>

-----------------------------------------------------------------------------
(* Phase C: what was not seen.                                             *)

\* Mutant: the users of every source are looked at.
MutScope(c) == Users

Scope(c) == Of(c)

\* deactivateUsersNotInExternalIds reads the users to deactivate.
FindUnseen(c) ==
    /\ run[c].pc = "unseen"
    /\ LET drop == {u \in Scope(c) \cap Rows : user[u].active /\ u \notin run[c].seen} IN
       Set(c, [run[c] EXCEPT !.pc = IF drop = {} THEN "orphans" ELSE "drop", !.drop = drop])
    /\ UNCHANGED <<conns, user, group, pool, admin, alone, ops>>

Deactivated(u) == [user[u] EXCEPT !.active = FALSE, !.groups = {}]

\* One transaction each; a row that is gone rejects it, and that fails the run.
Deactivate(c) ==
    /\ run[c].pc = "drop"
    /\ \E u \in run[c].drop :
          IF user[u] = None THEN End(c) /\ UNCHANGED user
          ELSE /\ user' = [user EXCEPT ![u] = Deactivated(u)]
               /\ Set(c, [run[c] EXCEPT !.drop = @ \ {u}, !.pc = IF run[c].drop = {u} THEN "orphans" ELSE "drop"])
               /\ UNCHANGED pool
    /\ UNCHANGED <<conns, group, admin, alone, ops>>

\* Memberships go with their group.
Without(gs) == [u \in Users |-> IF user[u] = None THEN None ELSE [user[u] EXCEPT !.groups = @ \ gs]]

\* Mutant: orphans are deleted although a fetch of memberships failed.
MutOrphans(c) == GroupsOf(c) \ run[c].census

\* Orphans are deleted unless a fetch of memberships failed (shouldSkipOrphanDeletion).
Orphans(c) == IF run[c].failed THEN {} ELSE GroupsOf(c) \ run[c].census

DeleteOrphans(c) ==
    /\ run[c].pc = "orphans"
    /\ group' = group \ Orphans(c)
    /\ user' = Without(Orphans(c))
    /\ Set(c, [run[c] EXCEPT !.pc = "success"])
    /\ UNCHANGED <<conns, pool, admin, alone, ops>>

\* finalizeRun.
Succeed(c) ==
    /\ run[c].pc = "success"
    /\ End(c)
    /\ UNCHANGED <<conns, user, group, admin, alone, ops>>

\* A call that no row accounts for rejects: the run fails.
RunFault(c) ==
    /\ run[c].pc \in {"replace", "unseen", "drop", "orphans"}
    /\ End(c)
    /\ UNCHANGED <<conns, user, group, admin, alone, ops>>

RunStep(c) ==
    \/ FetchUsers(c) \/ BadUser(c) \/ LookUpName(c) \/ WriteUser(c) \/ UserFault(c)
    \/ FetchFails(c) \/ BeginMembers(c) \/ UpsertGroup(c) \/ ReplaceMembers(c)
    \/ FindUnseen(c) \/ Deactivate(c) \/ DeleteOrphans(c) \/ Succeed(c) \/ RunFault(c)

-----------------------------------------------------------------------------
(* The administrator.                                                      *)

Begin(call) ==
    /\ admin = NoAdmin /\ ops < MaxOps /\ ops' = ops + 1
    /\ admin' = call
    /\ UNCHANGED <<conns, user, group, run, pool, alone>>

\* createUser and updateUser ask whether the name is taken.
BeginManual(u, n) ==
    /\ Home[u] = Local /\ Owners(n) \subseteq {u}
    /\ Begin([NoAdmin EXCEPT !.pc = IF user[u] = None THEN "create" ELSE "rename", !.of = u, !.name = n])

\* The unique name decides, and a row that another administrator deleted since rejects the update.
WriteManual ==
    /\ admin.pc \in {"create", "rename"}
    /\ user' = IF ~Free(admin.of, admin.name) THEN user
               ELSE IF admin.pc = "create"
               THEN [user EXCEPT ![admin.of] = [name |-> admin.name, active |-> TRUE, groups |-> {}]]
               ELSE [user EXCEPT ![admin.of] = IF @ = None THEN None ELSE [@ EXCEPT !.name = admin.name]]
    /\ admin' = NoAdmin
    /\ UNCHANGED <<conns, group, run, pool, alone, ops>>

\* deleteUser, by any administrator.  Bounded by the users that were created.
DeleteManual(u) ==
    /\ Home[u] = Local /\ user[u] # None
    /\ user' = [user EXCEPT ![u] = None]
    /\ UNCHANGED <<conns, group, run, pool, admin, alone, ops>>

\* removeConnectionIdentities, deactivate: the users are read, then written.
BeginDeactivate(c) ==
    /\ c \in conns
    /\ Begin([NoAdmin EXCEPT !.pc = "remove", !.of = c, !.ids = Of(c) \cap Rows])

DeactivateSource ==
    /\ admin.pc = "remove"
    /\ user' = [u \in Users |-> IF u \in admin.ids /\ user[u] # None THEN Deactivated(u) ELSE user[u]]
    /\ admin' = NoAdmin /\ alone' = alone \ {admin.of}
    /\ UNCHANGED <<conns, group, run, pool, ops>>

\* removeConnectionIdentities, delete: one transaction.
DeleteIdentities(c) ==
    /\ c \in conns /\ admin = NoAdmin /\ ops < MaxOps /\ ops' = ops + 1
    /\ user' = [u \in Users |-> IF Home[u] = c THEN None ELSE user[u]]
    /\ group' = group \ GroupsOf(c)
    /\ alone' = alone \ {c}
    /\ UNCHANGED <<conns, run, pool, admin>>

HasIdentities(c) == Of(c) \cap Rows # {} \/ GroupsOf(c) \cap group # {}

\* delete of a source: it must have no identities.
BeginDisconnect(c) ==
    /\ c \in conns /\ ~HasIdentities(c)
    /\ Begin([NoAdmin EXCEPT !.pc = "disconnect", !.of = c])

\* Mutant: nothing but the earlier look at the identities protects them.
MutDeletable(c) == TRUE

\* The local store restricts the deletion while rows refer to the source; an external one cannot.
Deletable(c) == External \/ ~HasIdentities(c)

Disconnect ==
    /\ admin.pc = "disconnect"
    /\ conns' = IF Deletable(admin.of) THEN conns \ {admin.of} ELSE conns
    /\ admin' = NoAdmin
    /\ UNCHANGED <<user, group, run, pool, alone, ops>>

AdminStep == WriteManual \/ DeactivateSource \/ Disconnect

-----------------------------------------------------------------------------
Init ==
    /\ conns = Sources /\ user = [u \in Users |-> None] /\ group = {}
    /\ run = [c \in Sources |-> NoRun] /\ pool = NoPool /\ admin = NoAdmin
    /\ alone = {} /\ ops = 0

Next ==
    \/ \E c \in Sources : Trigger(c) \/ RunStep(c) \/ BeginDeactivate(c) \/ DeleteIdentities(c) \/ BeginDisconnect(c)
    \/ StartSyncAll \/ SyncAllNext
    \/ \E u \in Users : DeleteManual(u) \/ \E n \in Names : BeginManual(u, n)
    \/ AdminStep

Spec == Init /\ [][Next]_vars

-----------------------------------------------------------------------------
TypeOK ==
    /\ conns \subseteq Sources /\ user \in [Users -> {None} \cup User] /\ group \subseteq Groups
    /\ run \in [Sources -> Run]
    /\ \A c \in Sources : /\ run[c].todo \subseteq run[c].ok /\ run[c].ok \subseteq run[c].seen
                          /\ run[c].seen \cup run[c].drop \subseteq Of(c)
                          /\ run[c].census \cup run[c].ids \cup run[c].want \subseteq GroupsOf(c)
    /\ pool \in Pool /\ admin \in Admin
    /\ alone \subseteq Sources
    /\ ops \in 0..MaxOps

\* The store fits together whatever the runs and the administrator do at once: no two users share a name,
\* memberships join rows of one source that are there, and no identity outlives its source, although
\* names, identities and sources are looked at one call before they are written.
StoreConsistent ==
    /\ \A u, v \in Rows : user[u].name = user[v].name => u = v
    /\ \A u \in Rows : user[u].groups \subseteq group \cap GroupsOf(Home[u])
    /\ \A x \in Rows \cup group : Home[x] \in conns \cup {Local}

\* When a run in which no row and no call failed and no list was cut off is about to succeed, the source's
\* part of the directory is what the source answered, unless its identities were removed meanwhile: the answered users with the
\* groups listed for them, no other user active, and no other group.  Runs of other sources and manual
\* users do not disturb it.
SuccessMirrors ==
    \A c \in Sources \cap alone :
        run[c].pc = "success" /\ run[c].clean =>
            /\ \A u \in Of(c) \cap Rows : user[u].active => u \in run[c].seen
            /\ \A u \in run[c].seen : u \in Rows /\ user[u].groups = run[c].listed[u]
            /\ group \cap GroupsOf(c) = UNION {run[c].listed[u] : u \in run[c].seen}

\* The deletion of orphans takes no membership of a user the run upserted with it: a user whose list could
\* not be fetched keeps its old memberships, which the run has not seen, and therefore nothing is deleted
\* (shouldSkipOrphanDeletion); every other one has by then only groups the run has seen.
KeepsReferenced ==
    [][\A c \in Sources : run[c].pc = "orphans" /\ run'[c].pc = "success"
            => \A g \in group \ group' : \A u \in run[c].ok \cap Rows : g \notin user[u].groups]_vars

\* The comment on that guard promises more: a group that is still referenced is not deleted because it was
\* not seen.  But it is, with every membership in it, when the source lists it only in rows that could not be
\* mapped or were cut off, or only for users whose rows were skipped (as one renamed to a name another
\* identity has): nobody asks for their memberships, and those they have go with the group.
KeepsListed ==
    [][\A c \in Sources : run[c].pc = "orphans" /\ run'[c].pc = "success"
            => \A g \in group \ group' : \A u \in run[c].seen \cap Rows :
                  g \notin run[c].listed[u] \cup user[u].groups]_vars

\* In "sync all" the first source by createdAt wins a contested user name: when a run of it stores a user,
\* no source before its own is still to run or running, unless every source fails on a collision.
FirstSourceWins ==
    [][\A c \in Sources :
         run[c].all /\ run[c].pc = "write" /\ run'[c].ok # run[c].ok /\ (\E d \in conns : Policy[d] = "skip")
         => \A d \in Sources : Rank[d] < Rank[c] => d \notin pool.busy \cup pool.queue]_vars
=============================================================================
