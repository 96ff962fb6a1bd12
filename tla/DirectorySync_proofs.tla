------------------------ MODULE DirectorySync_proofs ------------------------
(***************************************************************************)
(* Safety of DirectorySync for every number of sources, users, groups and  *)
(* names and any number of calls of the administrator: the store fits      *)
(* together, provided the identities live in the local database; a clean   *)
(* run leaves its source's part of it as the source answered; the orphans  *)
(* a run deletes take no membership of a user it upserted with them; and   *)
(* "sync all" lets the first source win a contested name.                  *)
(***************************************************************************)
EXTENDS DirectorySync, FiniteSetTheorems, TLAPS

USE DirectoryConstants, NoneIsNoRow

DirectoryTypes ==
    /\ conns \subseteq Sources /\ user \in [Users -> {None} \cup User] /\ group \subseteq Groups
    /\ run \in [Sources -> Run] /\ admin \in Admin

\* A run of c handles users and groups of c, and has groups to assign only while it handles one user.
RunOK(c, r) ==
    /\ r.left \cup r.todo \cup r.drop \subseteq Of(c) /\ r.ids \cup r.want \subseteq GroupsOf(c)
    /\ r.pc \in {"write", "upsert", "replace"} => r.cur \in Of(c)
    /\ r.pc = "write" => r.name \in Names
    /\ r.pc \notin {"upsert", "replace"} => r.ids = {}

RunsOK == \A c \in Sources : RunOK(c, run[c])

\* The groups to assign are there as long as the user is: whoever deletes them deletes the user with them.
AssignedOK ==
    \A c \in Sources :
        run[c].pc \in {"upsert", "replace"} /\ user[run[c].cur] # None => run[c].ids \subseteq group

AdminOK ==
    /\ admin.pc \in {"create", "rename"} => admin.of \in Of(Local) /\ admin.name \in Names
    /\ admin.pc = "disconnect" => admin.of \in Sources

\* An external database has no constraint that ties an identity to its source.
StoreOK ==
    /\ \A u, v \in Rows : user[u].name = user[v].name => u = v
    /\ \A u \in Rows : user[u].groups \subseteq group \cap GroupsOf(Home[u])
    /\ External \/ \A x \in Rows \cup group : Home[x] \in conns \cup {Local}

DirectoryInv == DirectoryTypes /\ RunsOK /\ AssignedOK /\ AdminOK /\ StoreOK

-----------------------------------------------------------------------------
(* Runs.                                                                   *)

LEMMA NoRunOK ==
  ASSUME NEW c \in Sources
  PROVE  NoRun \in Run /\ RunOK(c, NoRun) /\ NoRun.pc = "idle"
  BY DEF NoRun, Run, RunOK

\* A run that is done with its user turns to the next one, the memberships or what it did not see.
LEMMA HandledOK ==
  ASSUME NEW c \in Sources, NEW r \in Run, RunOK(c, r), r.ids = {}
  PROVE  /\ Handled(r) \in Run /\ RunOK(c, Handled(r))
         /\ Handled(r).pc \in {"user", "member", "unseen"}
<1> DEFINE s == [r EXCEPT !.left = @ \ {r.cur}, !.cur = None, !.name = None]
           d(pc) == [s EXCEPT !.pc = pc]
<1>1. s \in Run /\ s.left \subseteq r.left /\ s.todo = r.todo /\ s.drop = r.drop /\ s.ids = {} /\ s.want = r.want
  BY DEF Run
<1> HIDE DEF s
<1>2. ASSUME NEW pc \in {"user", "member", "unseen"}
      PROVE  d(pc) \in Run /\ RunOK(c, d(pc)) /\ d(pc).pc = pc
  BY <1>1 DEF Run, RunOK
<1>3. Onward(s) \in {"user", "member", "unseen"}
  BY DEF Onward
<1>4. Handled(r) = d(Onward(s))
  BY DEF Handled, s
<1> HIDE DEF d
<1> QED BY <1>2, <1>3, <1>4

\* The run of c goes on as d; the store, if it changes, stays consistent.
RunChange(c, d) == d \in Run /\ RunOK(c, d) /\ Set(c, d)

LEMMA RunChangeEffect ==
  ASSUME DirectoryTypes, RunsOK, NEW c \in Sources, NEW d, RunChange(c, d)
  PROVE  /\ run' \in [Sources -> Run] /\ RunsOK' /\ run'[c] = d
         /\ \A x \in Sources \ {c} : run'[x] = run[x]
  BY DEF DirectoryTypes, RunsOK, RunChange, Set

LEMMA EndEffect ==
  ASSUME NEW c \in Sources, End(c)
  PROVE  RunChange(c, NoRun)
  BY NoRunOK DEF End, RunChange

\* The run leaves the store alone.
LEMMA QuietChange ==
  ASSUME DirectoryInv, NEW c \in Sources, NEW d, RunChange(c, d),
         d.pc \in {"upsert", "replace"} => d.ids = {} \/ (run[c].pc = "upsert" /\ d.cur = run[c].cur
                                                          /\ d.ids \subseteq run[c].ids),
         UNCHANGED <<conns, user, group, admin>>
  PROVE  DirectoryInv'
<1> USE DEF DirectoryInv
<1>1. /\ run' \in [Sources -> Run] /\ RunsOK' /\ run'[c] = d
      /\ \A x \in Sources \ {c} : run'[x] = run[x]
  BY RunChangeEffect
<1>2. DirectoryTypes' /\ AdminOK'
  BY <1>1 DEF DirectoryTypes, AdminOK
<1>3. AssignedOK'
  BY <1>1 DEF AssignedOK
<1>4. StoreOK'
  BY DEF StoreOK, Rows
<1> QED BY <1>1, <1>2, <1>3, <1>4

LEMMA QuietEnd ==
  ASSUME DirectoryInv, NEW c \in Sources, End(c), UNCHANGED <<conns, user, group, admin>>
  PROVE  DirectoryInv'
  BY EndEffect, QuietChange, NoRunOK

LEMMA QuietHandled ==
  ASSUME DirectoryInv, NEW c \in Sources, NEW r \in Run, RunOK(c, r), r.ids = {}, Set(c, Handled(r)),
         UNCHANGED <<conns, user, group, admin>>
  PROVE  DirectoryInv'
  BY HandledOK, QuietChange DEF RunChange

LEMMA QuietSkip ==
  ASSUME DirectoryInv, NEW c \in Sources, NEW r \in Run, RunOK(c, r), r.ids = {}, NEW strict, Skip(c, r, strict),
         UNCHANGED <<conns, user, group, admin>>
  PROVE  DirectoryInv'
<1> DEFINE d == [r EXCEPT !.clean = FALSE]
<1>1. d \in Run /\ RunOK(c, d) /\ d.ids = {}
  BY DEF Run, RunOK
<1>2. End(c) \/ Set(c, Handled(d))
  BY DEF Skip
<1> HIDE DEF d
<1> QED BY <1>1, <1>2, QuietEnd, QuietHandled

LEMMA QuietCollide ==
  ASSUME DirectoryInv, NEW c \in Sources, NEW r \in Run, RunOK(c, r), r.ids = {}, r.cur \in Users, Collide(c, r),
         UNCHANGED <<conns, user, group, admin>>
  PROVE  DirectoryInv'
  BY QuietSkip DEF Collide

-----------------------------------------------------------------------------
(* The store.                                                              *)

\* One row is written, under a name that is free and with groups of its source that are there.
LEMMA StoreRow ==
  ASSUME DirectoryInv, NEW u \in Users, NEW row \in User, Free(u, row.name),
         row.groups \subseteq group \cap GroupsOf(Home[u]), External \/ Home[u] \in conns \cup {Local},
         user' = [user EXCEPT ![u] = row], UNCHANGED <<conns, group>>
  PROVE  /\ user' \in [Users -> {None} \cup User] /\ StoreOK'
         /\ \A v \in Users \ {u} : user'[v] = user[v]
<1>1. user' \in [Users -> {None} \cup User] /\ user'[u] = row /\ \A v \in Users \ {u} : user'[v] = user[v]
  BY DEF DirectoryInv, DirectoryTypes
<1>2. \A v \in Rows : v # u => user[v].name # row.name
  BY DEF Free, Owners
<1>3. \A v, w \in Rows' : user'[v].name = user'[w].name => v = w
  BY <1>1, <1>2 DEF DirectoryInv, StoreOK, Rows
<1>4. \A v \in Rows' : user'[v].groups \subseteq group' \cap GroupsOf(Home[v])
  BY <1>1 DEF DirectoryInv, StoreOK, Rows
<1>5. External \/ \A x \in Rows' \cup group' : Home[x] \in conns' \cup {Local}
  BY <1>1 DEF DirectoryInv, StoreOK, Rows
<1> QED BY <1>1, <1>3, <1>4, <1>5 DEF StoreOK

\* Rows, groups and memberships go.
Reduced(v) ==
    \/ user'[v] = None
    \/ /\ user[v] # None /\ user'[v] \in User /\ user'[v].name = user[v].name
       /\ user'[v].groups \subseteq user[v].groups \cap group'

LEMMA StoreShrinks ==
  ASSUME DirectoryInv, user' = [v \in Users |-> user'[v]], \A v \in Users : Reduced(v),
         group' \subseteq group, UNCHANGED conns
  PROVE  user' \in [Users -> {None} \cup User] /\ StoreOK'
<1>1. user' \in [Users -> {None} \cup User]
  BY DEF Reduced
<1>2. \A v \in Rows' : v \in Rows /\ user'[v].name = user[v].name /\ user'[v].groups \subseteq user[v].groups \cap group'
  BY DEF Reduced, Rows
<1>3. \A v, w \in Rows' : user'[v].name = user'[w].name => v = w
  BY <1>2 DEF DirectoryInv, StoreOK
<1>4. \A v \in Rows' : user'[v].groups \subseteq group' \cap GroupsOf(Home[v])
  BY <1>2 DEF DirectoryInv, StoreOK
<1>5. External \/ \A x \in Rows' \cup group' : Home[x] \in conns' \cup {Local}
  BY <1>2 DEF DirectoryInv, StoreOK
<1> QED BY <1>1, <1>3, <1>4, <1>5 DEF StoreOK

\* The run of c is past the assignment of groups; the store was changed for its source alone.
LEMMA StoreChange ==
  ASSUME DirectoryInv, NEW c \in Sources, NEW d, RunChange(c, d), d.pc \notin {"upsert", "replace"},
         user' \in [Users -> {None} \cup User], group' \subseteq Groups, StoreOK',
         \A v \in Users \ Of(c) : user'[v] = None <=> user[v] = None,
         \A g \in group \ GroupsOf(c) : g \in group',
         UNCHANGED <<conns, admin>>
  PROVE  DirectoryInv'
<1> USE DEF DirectoryInv
<1>1. /\ run' \in [Sources -> Run] /\ RunsOK' /\ run'[c] = d
      /\ \A x \in Sources \ {c} : run'[x] = run[x]
  BY RunChangeEffect
<1>2. DirectoryTypes' /\ AdminOK'
  BY <1>1 DEF DirectoryTypes, AdminOK
<1>3. AssignedOK'
  <2> SUFFICES ASSUME NEW x \in Sources \ {c}, run[x].pc \in {"upsert", "replace"}, user'[run[x].cur] # None
               PROVE  run[x].ids \subseteq group'
    BY <1>1 DEF AssignedOK
  <2>1. run[x].cur \in Of(x) /\ run[x].ids \subseteq GroupsOf(x)
    BY DEF RunsOK, RunOK
  <2>2. run[x].ids \subseteq group
    BY <2>1 DEF AssignedOK, Of
  <2> QED BY <2>1, <2>2 DEF GroupsOf
<1> QED BY <1>1, <1>2, <1>3

\* A step of the administrator that takes no group from a user whose row stays.
LEMMA AdminChange ==
  ASSUME DirectoryInv, UNCHANGED run, conns' \subseteq conns, user' \in [Users -> {None} \cup User], group' \subseteq group,
         StoreOK', admin' \in Admin, AdminOK',
         \A v \in Users : Home[v] \in Sources /\ user'[v] # None => user[v] # None /\ GroupsOf(Home[v]) \cap group \subseteq group'
  PROVE  DirectoryInv'
<1> USE DEF DirectoryInv
<1>1. DirectoryTypes' /\ RunsOK'
  BY DEF DirectoryTypes, RunsOK
<1>2. AssignedOK'
  <2> SUFFICES ASSUME NEW x \in Sources, run[x].pc \in {"upsert", "replace"}, user'[run[x].cur] # None
               PROVE  run[x].ids \subseteq group'
    BY DEF AssignedOK
  <2>1. run[x].cur \in Of(x) /\ run[x].ids \subseteq GroupsOf(x)
    BY DEF RunsOK, RunOK
  <2> QED BY <2>1 DEF AssignedOK, Of
<1> QED BY <1>1, <1>2

-----------------------------------------------------------------------------
(* The steps of a run.                                                     *)

LEMMA StartInv ==
  ASSUME DirectoryInv, NEW c \in conns, NEW all \in BOOLEAN, Start(c, all), UNCHANGED <<conns, user, group, admin>>
  PROVE  DirectoryInv'
<1> DEFINE d == [NoRun EXCEPT !.pc = "fetch", !.all = all]
<1>1. c \in Sources
  BY DEF DirectoryInv, DirectoryTypes
<1>2. d \in Run /\ RunOK(c, d) /\ d.pc = "fetch"
  BY DEF NoRun, Run, RunOK
<1>3. Set(c, d)
  BY DEF Start
<1> HIDE DEF d
<1> QED BY <1>1, <1>2, <1>3, QuietChange DEF RunChange

LEMMA UsersInv ==
  ASSUME DirectoryInv, NEW c \in Sources, FetchUsers(c) \/ BadUser(c) \/ LookUpName(c) \/ UserFault(c)
  PROVE  DirectoryInv'
<1>1. run[c] \in Run /\ RunOK(c, run[c])
  BY DEF DirectoryInv, DirectoryTypes, RunsOK
<1>2. CASE FetchUsers(c)
  <2>1. CASE End(c)
    BY <1>2, <2>1, QuietEnd DEF FetchUsers
  <2>2. ASSUME NEW ids \in SUBSET Of(c), NEW junk \in BOOLEAN,
               Set(c, [run[c] EXCEPT !.pc = IF ids = {} THEN "unseen" ELSE "user",
                                     !.left = ids, !.seen = ids, !.clean = ~junk])
        PROVE  DirectoryInv'
    <3> DEFINE d(pc) == [run[c] EXCEPT !.pc = pc, !.left = ids, !.seen = ids, !.clean = ~junk]
    <3>1. ASSUME NEW pc \in {"unseen", "user"} PROVE d(pc) \in Run /\ RunOK(c, d(pc)) /\ d(pc).pc = pc
      BY <1>1, <1>2 DEF Run, RunOK, Of, FetchUsers
    <3>2. \E pc \in {"unseen", "user"} : Set(c, d(pc))
      BY <2>2
    <3>3. UNCHANGED <<conns, user, group, admin>>
      BY <1>2 DEF FetchUsers
    <3> HIDE DEF d
    <3> QED BY <3>1, <3>2, <3>3, QuietChange DEF RunChange
  <2> QED BY <1>2, <2>1, <2>2 DEF FetchUsers
<1>3. CASE BadUser(c)
  <2>1. PICK u \in run[c].left : Skip(c, [run[c] EXCEPT !.cur = u], c \in Strict)
    BY <1>3 DEF BadUser
  <2> DEFINE d == [run[c] EXCEPT !.cur = u]
  <2>2. d \in Run /\ RunOK(c, d) /\ d.ids = {}
    BY <1>1, <1>3 DEF Run, RunOK, Of, BadUser
  <2>3. Skip(c, d, c \in Strict) /\ UNCHANGED <<conns, user, group, admin>>
    BY <1>3, <2>1 DEF BadUser
  <2> HIDE DEF d
  <2> QED BY <2>2, <2>3, QuietSkip
<1>4. CASE LookUpName(c)
  <2>1. PICK u \in run[c].left, n \in Names :
          LET r == [run[c] EXCEPT !.cur = u, !.name = n] IN
          IF Owners(n) \subseteq {u} THEN Set(c, [r EXCEPT !.pc = "write"]) ELSE Collide(c, r)
    BY <1>4 DEF LookUpName
  <2> DEFINE r == [run[c] EXCEPT !.cur = u, !.name = n]
             d == [r EXCEPT !.pc = "write"]
  <2>2. r \in Run /\ RunOK(c, r) /\ r.ids = {} /\ r.cur = u /\ u \in Of(c) /\ u \in Users /\ r.name = n
    BY <1>1, <1>4 DEF Run, RunOK, Of, LookUpName
  <2>3. (Set(c, d) \/ Collide(c, r)) /\ UNCHANGED <<conns, user, group, admin>>
    BY <1>4, <2>1 DEF LookUpName
  <2> HIDE DEF r
  <2>4. d \in Run /\ RunOK(c, d) /\ d.pc = "write"
    BY <2>2 DEF Run, RunOK
  <2> HIDE DEF d
  <2> QED BY <2>2, <2>3, <2>4, QuietChange, QuietCollide DEF RunChange
<1>5. CASE UserFault(c)
  <2>1. run[c].ids = {}
    BY <1>1, <1>5 DEF RunOK, UserFault
  <2> QED BY <1>1, <1>5, <2>1, QuietSkip DEF UserFault
<1> QED BY <1>2, <1>3, <1>4, <1>5

LEMMA WriteUserInv ==
  ASSUME DirectoryInv, NEW c \in Sources, WriteUser(c)
  PROVE  DirectoryInv'
<1> DEFINE r == run[c]
           u == r.cur
           d == [r EXCEPT !.ok = @ \cup {u}, !.todo = @ \cup {u}]
<1>1. r \in Run /\ RunOK(c, r) /\ r.pc = "write" /\ user \in [Users -> {None} \cup User]
  BY DEF DirectoryInv, DirectoryTypes, RunsOK, WriteUser
<1>2. u \in Of(c) /\ u \in Users /\ Home[u] = c /\ r.name \in Names /\ r.ids = {}
  BY <1>1 DEF RunOK, Of
<1>3. d \in Run /\ RunOK(c, d) /\ d.ids = {}
  BY <1>1, <1>2 DEF Run, RunOK
<1>4. CASE Free(u, r.name) /\ (Accepted(c) \/ user[u] # None)
  <2>1. PICK act \in BOOLEAN :
          user' = [user EXCEPT ![u] = [name |-> r.name, active |-> act,
                                       groups |-> IF user[u] = None THEN {} ELSE user[u].groups]]
    BY <1>4 DEF WriteUser
  <2> DEFINE gs == IF user[u] = None THEN {} ELSE user[u].groups
             row == [name |-> r.name, active |-> act, groups |-> gs]
  <2>2. Set(c, Handled(d)) /\ UNCHANGED <<conns, group, admin>>
    BY <1>4 DEF WriteUser
  <2>3. gs \subseteq group \cap GroupsOf(Home[u]) /\ (External \/ Home[u] \in conns \cup {Local})
    BY <1>2, <1>4 DEF DirectoryInv, StoreOK, Rows, Accepted
  <2>4. row \in User /\ row.name = r.name /\ row.groups = gs
    BY <1>2, <2>3 DEF User, GroupsOf
  <2>5. user' = [user EXCEPT ![u] = row]
    BY <2>1
  <2> HIDE DEF row, gs, d
  <2>6. /\ user' \in [Users -> {None} \cup User] /\ StoreOK'
        /\ \A v \in Users \ {u} : user'[v] = user[v]
    BY <1>2, <1>4, <2>2, <2>3, <2>4, <2>5, StoreRow
  <2>7. Handled(d) \in Run /\ RunOK(c, Handled(d)) /\ Handled(d).pc \in {"user", "member", "unseen"}
    BY <1>3, HandledOK
  <2>8. RunChange(c, Handled(d)) /\ group' \subseteq Groups
    BY <2>2, <2>7 DEF RunChange, DirectoryInv, DirectoryTypes
  <2> QED BY <1>2, <2>2, <2>6, <2>7, <2>8, StoreChange
<1>5. CASE ~(Free(u, r.name) /\ (Accepted(c) \/ user[u] # None))
  <2>1. (Skip(c, r, FALSE) \/ Collide(c, r)) /\ UNCHANGED <<conns, user, group, admin>>
    BY <1>5 DEF WriteUser
  <2> HIDE DEF r
  <2> QED BY <1>1, <1>2, <2>1, QuietSkip, QuietCollide
<1> QED BY <1>4, <1>5

LEMMA MembersInv ==
  ASSUME DirectoryInv, NEW c \in Sources, FetchFails(c) \/ BeginMembers(c) \/ UpsertGroup(c)
  PROVE  DirectoryInv'
<1> DEFINE r == run[c]
<1>1. r \in Run /\ RunOK(c, r)
  BY DEF DirectoryInv, DirectoryTypes, RunsOK
<1>2. CASE FetchFails(c)
  <2>1. PICK u \in r.todo :
          Set(c, Handled([r EXCEPT !.todo = @ \ {u}, !.failed = TRUE, !.clean = FALSE]))
    BY <1>2 DEF FetchFails
  <2> DEFINE d == [r EXCEPT !.todo = @ \ {u}, !.failed = TRUE, !.clean = FALSE]
  <2>2. r.pc = "member" /\ UNCHANGED <<conns, user, group, admin>>
    BY <1>2 DEF FetchFails
  <2>3. Set(c, Handled(d))
    BY <2>1
  <2> HIDE DEF r
  <2>4. d \in Run /\ RunOK(c, d) /\ d.ids = {}
    BY <1>1, <2>2 DEF Run, RunOK, GroupsOf
  <2> HIDE DEF d
  <2> QED BY <2>2, <2>3, <2>4, QuietHandled
<1>3. CASE BeginMembers(c)
  <2>1. PICK u \in r.todo, gs \in SUBSET GroupsOf(c), read \in SUBSET GroupsOf(c) :
          read \subseteq gs /\
          Set(c, [r EXCEPT !.pc = IF read = {} THEN "replace" ELSE "upsert", !.cur = u, !.todo = @ \ {u},
                           !.want = read, !.listed[u] = gs, !.clean = @ /\ read = gs])
    BY <1>3 DEF BeginMembers
  <2> DEFINE d(pc) == [r EXCEPT !.pc = pc, !.cur = u, !.todo = @ \ {u},
                                !.want = read, !.listed[u] = gs, !.clean = @ /\ read = gs]
  <2>2. r.pc = "member" /\ UNCHANGED <<conns, user, group, admin>>
    BY <1>3 DEF BeginMembers
  <2>3. \E pc \in {"replace", "upsert"} : Set(c, d(pc))
    BY <2>1
  <2>4. u \in Of(c) /\ u \in Users
    BY <1>1 DEF RunOK, Of
  <2> HIDE DEF r
  <2>5. ASSUME NEW pc \in {"replace", "upsert"} PROVE d(pc) \in Run /\ RunOK(c, d(pc)) /\ d(pc).ids = {}
    BY <1>1, <2>2, <2>4 DEF Run, RunOK, GroupsOf
  <2> HIDE DEF d
  <2> QED BY <2>2, <2>3, <2>5, QuietChange DEF RunChange
<1>4. CASE UpsertGroup(c)
  <2>1. PICK g \in r.want, fails \in BOOLEAN :
          LET e == [r EXCEPT !.want = @ \ {g}, !.census = @ \cup {g},
                             !.pc = IF r.want = {g} THEN "replace" ELSE "upsert"] IN
          IF fails \/ ~(Accepted(c) \/ g \in group)
          THEN Set(c, [e EXCEPT !.clean = FALSE]) /\ UNCHANGED group
          ELSE Set(c, [e EXCEPT !.ids = @ \cup {g}]) /\ group' = group \cup {g}
    BY <1>4 DEF UpsertGroup
  <2> DEFINE e(pc) == [r EXCEPT !.want = @ \ {g}, !.census = @ \cup {g}, !.pc = pc]
             n(pc) == [e(pc) EXCEPT !.clean = FALSE]
             y(pc) == [e(pc) EXCEPT !.ids = @ \cup {g}]
  <2>2. r.pc = "upsert" /\ UNCHANGED <<conns, user, admin>>
    BY <1>4 DEF UpsertGroup
  <2>3. \E pc \in {"replace", "upsert"} :
          \/ Set(c, n(pc)) /\ UNCHANGED group
          \/ Set(c, y(pc)) /\ group' = group \cup {g} /\ (Accepted(c) \/ g \in group)
    <3>1. CASE r.want = {g}
      BY <2>1, <3>1
    <3>2. CASE r.want # {g}
      BY <2>1, <3>2
    <3> QED BY <3>1, <3>2
  <2>4. g \in GroupsOf(c) /\ g \in Groups /\ Home[g] = c /\ r.cur \in Of(c)
    BY <1>1, <2>2 DEF RunOK, GroupsOf
  <2>5. ASSUME NEW pc \in {"replace", "upsert"}
        PROVE  /\ n(pc) \in Run /\ RunOK(c, n(pc)) /\ n(pc).ids = r.ids /\ n(pc).cur = r.cur
               /\ y(pc) \in Run /\ RunOK(c, y(pc)) /\ y(pc).ids = r.ids \cup {g} /\ y(pc).cur = r.cur
               /\ y(pc).pc = pc
    <3> HIDE DEF r
    <3>1. e(pc) \in Run /\ RunOK(c, e(pc)) /\ e(pc).ids = r.ids /\ e(pc).cur = r.cur /\ e(pc).pc = pc
      BY <1>1, <2>2, <2>4 DEF Run, RunOK
    <3> HIDE DEF e
    <3> QED BY <2>4, <3>1 DEF Run, RunOK
  <2> HIDE DEF e, n, y
  <2>6. ASSUME NEW pc \in {"replace", "upsert"}, Set(c, n(pc)), UNCHANGED group PROVE DirectoryInv'
    BY <2>2, <2>5, <2>6, QuietChange DEF RunChange
  <2>7. ASSUME NEW pc \in {"replace", "upsert"}, Set(c, y(pc)), group' = group \cup {g}, Accepted(c) \/ g \in group
        PROVE  DirectoryInv'
    <3>1. /\ run' \in [Sources -> Run] /\ RunsOK' /\ run'[c] = y(pc)
          /\ \A x \in Sources \ {c} : run'[x] = run[x]
      BY <2>5, <2>7, RunChangeEffect DEF RunChange, DirectoryInv
    <3>2. DirectoryTypes' /\ AdminOK'
      BY <2>2, <2>4, <2>7, <3>1 DEF DirectoryInv, DirectoryTypes, AdminOK
    <3>3. AssignedOK'
      BY <2>2, <2>5, <2>7, <3>1 DEF DirectoryInv, AssignedOK
    <3>4. StoreOK'
      BY <2>2, <2>4, <2>7 DEF DirectoryInv, StoreOK, Rows, Accepted
    <3> QED BY <3>1, <3>2, <3>3, <3>4 DEF DirectoryInv
  <2> QED BY <2>3, <2>6, <2>7
<1> QED BY <1>2, <1>3, <1>4

LEMMA ReplaceInv ==
  ASSUME DirectoryInv, NEW c \in Sources, ReplaceMembers(c)
  PROVE  DirectoryInv'
<1> DEFINE r == run[c]
           u == r.cur
           d == [r EXCEPT !.ids = {}]
<1>1. r \in Run /\ RunOK(c, r) /\ r.pc = "replace" /\ user \in [Users -> {None} \cup User]
  BY DEF DirectoryInv, DirectoryTypes, RunsOK, ReplaceMembers
<1>2. u \in Of(c) /\ u \in Users /\ Home[u] = c /\ r.ids \subseteq GroupsOf(c)
  BY <1>1 DEF RunOK, Of
<1>3. UNCHANGED <<conns, group, admin>>
  BY DEF ReplaceMembers
<1>4. CASE End(c) /\ UNCHANGED user
  BY <1>3, <1>4, QuietEnd
<1>5. CASE Set(c, Handled(d)) /\ user' = IF user[u] = None THEN user ELSE [user EXCEPT ![u].groups = r.ids]
  <2>1. d \in Run /\ RunOK(c, d) /\ d.ids = {}
    <3> HIDE DEF r
    <3> QED BY <1>1 DEF Run, RunOK
  <2> HIDE DEF d
  <2>2. CASE user[u] = None
    BY <1>3, <1>5, <2>1, <2>2, QuietHandled
  <2>3. CASE user[u] # None
    <3> DEFINE row == [user[u] EXCEPT !.groups = r.ids]
    <3>1. user[u] \in User
      BY <1>1, <1>2, <2>3
    <3>2. row \in User /\ row.name = user[u].name /\ row.groups = r.ids
      BY <1>2, <3>1 DEF User, GroupsOf
    <3>3. user' = [user EXCEPT ![u] = row]
      BY <1>5, <2>3
    <3> HIDE DEF row
    <3>4. Free(u, row.name)
      BY <1>2, <2>3, <3>2 DEF Free, Owners, DirectoryInv, StoreOK, Rows
    <3>5. row.groups \subseteq group \cap GroupsOf(Home[u])
      BY <1>1, <1>2, <2>3, <3>2 DEF DirectoryInv, AssignedOK
    <3>6. External \/ Home[u] \in conns \cup {Local}
      BY <1>2, <2>3 DEF DirectoryInv, StoreOK, Rows
    <3>7. /\ user' \in [Users -> {None} \cup User] /\ StoreOK'
          /\ \A v \in Users \ {u} : user'[v] = user[v]
      BY <1>2, <1>3, <3>2, <3>3, <3>4, <3>5, <3>6, StoreRow
    <3>8. Handled(d) \in Run /\ RunOK(c, Handled(d)) /\ Handled(d).pc \in {"user", "member", "unseen"}
      BY <2>1, HandledOK
    <3>9. RunChange(c, Handled(d)) /\ group' \subseteq Groups
      BY <1>3, <1>5, <3>8 DEF RunChange, DirectoryInv, DirectoryTypes
    <3> QED BY <1>2, <1>3, <3>7, <3>8, <3>9, StoreChange
  <2> QED BY <2>2, <2>3
<1> QED BY <1>4, <1>5 DEF ReplaceMembers

LEMMA DeactivatedRow ==
  ASSUME NEW u \in Users, user[u] \in User
  PROVE  Deactivated(u) \in User /\ Deactivated(u).name = user[u].name /\ Deactivated(u).groups = {}
<1>1. ASSUME NEW row \in User
      PROVE  LET w == [row EXCEPT !.active = FALSE, !.groups = {}] IN
             w \in User /\ w.name = row.name /\ w.groups = {}
  BY DEF User
<1> QED BY <1>1 DEF Deactivated

LEMMA WithoutRow ==
  ASSUME NEW v \in Users, NEW gs, user[v] \in User
  PROVE  Without(gs)[v] \in User /\ Without(gs)[v].name = user[v].name /\ Without(gs)[v].groups = user[v].groups \ gs
<1>1. ASSUME NEW row \in User
      PROVE  LET w == [row EXCEPT !.groups = @ \ gs] IN
             w \in User /\ w.name = row.name /\ w.groups = row.groups \ gs
  BY DEF User
<1> QED BY <1>1 DEF Without

LEMMA UnseenInv ==
  ASSUME DirectoryInv, NEW c \in Sources,
         FindUnseen(c) \/ Deactivate(c) \/ DeleteOrphans(c) \/ Succeed(c) \/ RunFault(c)
  PROVE  DirectoryInv'
<1> DEFINE r == run[c]
<1>1. /\ r \in Run /\ RunOK(c, r) /\ user \in [Users -> {None} \cup User]
      /\ group \subseteq Groups
  BY DEF DirectoryInv, DirectoryTypes, RunsOK
<1>2. CASE FindUnseen(c)
  <2> DEFINE drop == {u \in Scope(c) \cap Rows : user[u].active /\ u \notin r.seen}
             d(pc) == [r EXCEPT !.pc = pc, !.drop = drop]
  <2>1. r.pc = "unseen" /\ UNCHANGED <<conns, user, group, admin>>
    BY <1>2 DEF FindUnseen
  <2>2. \E pc \in {"orphans", "drop"} : Set(c, d(pc))
    BY <1>2 DEF FindUnseen
  <2>3. drop \subseteq Of(c) /\ drop \subseteq Users
    BY DEF Scope, Of
  <2> HIDE DEF r, drop
  <2>4. ASSUME NEW pc \in {"orphans", "drop"} PROVE d(pc) \in Run /\ RunOK(c, d(pc)) /\ d(pc).pc = pc
    BY <1>1, <2>1, <2>3 DEF Run, RunOK
  <2> HIDE DEF d
  <2> QED BY <2>1, <2>2, <2>4, QuietChange DEF RunChange
<1>3. CASE Deactivate(c)
  <2>1. PICK u \in r.drop :
          IF user[u] = None THEN End(c) /\ UNCHANGED user
          ELSE /\ user' = [user EXCEPT ![u] = Deactivated(u)]
               /\ Set(c, [r EXCEPT !.drop = @ \ {u}, !.pc = IF r.drop = {u} THEN "orphans" ELSE "drop"])
    BY <1>3 DEF Deactivate
  <2>2. r.pc = "drop" /\ UNCHANGED <<conns, group, admin>> /\ u \in Of(c) /\ u \in Users
    BY <1>1, <1>3 DEF Deactivate, RunOK, Of
  <2>3. CASE user[u] = None
    BY <2>1, <2>2, <2>3, QuietEnd
  <2>4. CASE user[u] # None
    <3> DEFINE d(pc) == [r EXCEPT !.drop = @ \ {u}, !.pc = pc]
    <3>1. \E pc \in {"orphans", "drop"} : Set(c, d(pc))
      BY <2>1, <2>4
    <3>2. ASSUME NEW pc \in {"orphans", "drop"} PROVE d(pc) \in Run /\ RunOK(c, d(pc)) /\ d(pc).pc = pc
      <4> HIDE DEF r
      <4> QED BY <1>1, <2>2 DEF Run, RunOK
    <3> HIDE DEF d
    <3>3. /\ user[u] \in User /\ Deactivated(u) \in User /\ Deactivated(u).name = user[u].name
          /\ Deactivated(u).groups = {}
      BY <1>1, <2>2, <2>4, DeactivatedRow
    <3>4. user' = [user EXCEPT ![u] = Deactivated(u)]
      BY <2>1, <2>4
    <3>5. user' = [v \in Users |-> user'[v]] /\ \A v \in Users : Reduced(v)
      <4>1. \A v \in Users \ {u} : user'[v] = user[v]
        BY <1>1, <3>4
      <4>2. \A v \in Rows : user[v].groups \subseteq group
        BY DEF DirectoryInv, StoreOK
      <4> QED BY <1>1, <2>2, <2>4, <3>3, <3>4, <4>1, <4>2 DEF Reduced, Rows
    <3>6. user' \in [Users -> {None} \cup User] /\ StoreOK'
      BY <2>2, <3>5, StoreShrinks
    <3>7. \A v \in Users \ Of(c) : user'[v] = None <=> user[v] = None
      BY <1>1, <2>2, <3>4
    <3> QED BY <1>1, <2>2, <3>1, <3>2, <3>6, <3>7, StoreChange DEF RunChange
  <2> QED BY <2>3, <2>4
<1>4. CASE DeleteOrphans(c)
  <2> DEFINE d == [r EXCEPT !.pc = "success"]
  <2>1. /\ r.pc = "orphans" /\ Set(c, d) /\ group' = group \ Orphans(c) /\ user' = Without(Orphans(c))
        /\ UNCHANGED <<conns, admin>>
    BY <1>4 DEF DeleteOrphans
  <2>2. d \in Run /\ RunOK(c, d) /\ d.pc = "success"
    <3> HIDE DEF r
    <3> QED BY <1>1, <2>1 DEF Run, RunOK
  <2> HIDE DEF d
  <2>3. Orphans(c) \subseteq GroupsOf(c)
    BY DEF Orphans
  <2>4. user' = [v \in Users |-> user'[v]] /\ \A v \in Users : Reduced(v)
    <3>1. \A v \in Rows : user[v] \in User /\ user[v].groups \subseteq group
      BY <1>1 DEF DirectoryInv, StoreOK, Rows
    <3>2. \A v \in Users : user[v] = None => user'[v] = None
      BY <2>1 DEF Without
    <3>3. user' = [v \in Users |-> user'[v]]
      BY <2>1 DEF Without
    <3> QED BY <2>1, <3>1, <3>2, <3>3, WithoutRow DEF Reduced, Rows
  <2>5. user' \in [Users -> {None} \cup User] /\ StoreOK' /\ group' \subseteq Groups
    BY <1>1, <2>1, <2>4, StoreShrinks
  <2>6. \A v \in Users : user'[v] = None <=> user[v] = None
    <3>1. \A v \in Users : user[v] = None => user'[v] = None
      BY <2>1 DEF Without
    <3> QED BY <1>1, <2>1, <3>1, WithoutRow
  <2> QED BY <2>1, <2>2, <2>3, <2>5, <2>6, StoreChange DEF RunChange
<1>5. CASE Succeed(c) \/ RunFault(c)
  BY <1>5, QuietEnd DEF Succeed, RunFault
<1> QED BY <1>2, <1>3, <1>4, <1>5

-----------------------------------------------------------------------------
(* The administrator.                                                      *)

LEMMA BeginInv ==
  ASSUME DirectoryInv, NEW new \in Admin, Begin(new),
         new.pc = "create" \/ new.pc = "rename" => new.of \in Of(Local) /\ new.name \in Names,
         new.pc = "disconnect" => new.of \in Sources
  PROVE  DirectoryInv'
<1>1. admin' = new /\ UNCHANGED <<conns, user, group, run>>
  BY DEF Begin
<1>2. DirectoryTypes' /\ AdminOK'
  BY <1>1 DEF DirectoryInv, DirectoryTypes, AdminOK
<1>3. RunsOK' /\ AssignedOK' /\ StoreOK'
  BY <1>1 DEF DirectoryInv, RunsOK, AssignedOK, StoreOK, Rows
<1> QED BY <1>2, <1>3 DEF DirectoryInv

LEMMA BeginsInv ==
  ASSUME DirectoryInv, \/ \E c \in Sources : BeginDeactivate(c) \/ BeginDisconnect(c)
                       \/ \E u \in Users, n \in Names : BeginManual(u, n)
  PROVE  DirectoryInv'
<1>1. conns \subseteq Sources
  BY DEF DirectoryInv, DirectoryTypes
<1>2. ASSUME NEW c \in Sources, BeginDeactivate(c) PROVE DirectoryInv'
  <2> DEFINE new == [NoAdmin EXCEPT !.pc = "remove", !.of = c, !.ids = Of(c) \cap Rows]
  <2>1. new \in Admin /\ new.pc = "remove"
    BY DEF NoAdmin, Admin, Rows
  <2>2. Begin(new)
    BY <1>2 DEF BeginDeactivate
  <2> HIDE DEF new
  <2> QED BY <2>1, <2>2, BeginInv
<1>3. ASSUME NEW c \in Sources, BeginDisconnect(c) PROVE DirectoryInv'
  <2> DEFINE new == [NoAdmin EXCEPT !.pc = "disconnect", !.of = c]
  <2>1. new \in Admin /\ new.pc = "disconnect" /\ new.of = c
    BY DEF NoAdmin, Admin
  <2>2. Begin(new)
    BY <1>3 DEF BeginDisconnect
  <2> HIDE DEF new
  <2> QED BY <2>1, <2>2, BeginInv
<1>4. ASSUME NEW u \in Users, NEW n \in Names, BeginManual(u, n) PROVE DirectoryInv'
  <2> DEFINE new(pc) == [NoAdmin EXCEPT !.pc = pc, !.of = u, !.name = n]
  <2>1. ASSUME NEW pc \in {"create", "rename"}
        PROVE  new(pc) \in Admin /\ new(pc).pc = pc /\ new(pc).of = u /\ new(pc).name = n
    BY DEF NoAdmin, Admin
  <2>2. \E pc \in {"create", "rename"} : Begin(new(pc))
    <3>1. CASE user[u] = None
      BY <1>4, <3>1 DEF BeginManual
    <3>2. CASE user[u] # None
      BY <1>4, <3>2 DEF BeginManual
    <3> QED BY <3>1, <3>2
  <2>3. u \in Of(Local)
    BY <1>4 DEF BeginManual, Of
  <2> HIDE DEF new
  <2> QED BY <2>1, <2>2, <2>3, BeginInv
<1> QED BY <1>2, <1>3, <1>4

LEMMA NoAdminOK ==
  ASSUME admin' = NoAdmin
  PROVE  admin' \in Admin /\ AdminOK'
  BY DEF NoAdmin, Admin, AdminOK

LEMMA ManualInv ==
  ASSUME DirectoryInv, WriteManual \/ \E u \in Users : DeleteManual(u)
  PROVE  DirectoryInv'
<1>1. /\ user \in [Users -> {None} \cup User] /\ admin \in Admin /\ conns \subseteq Sources
      /\ \A v \in Users : user[v] # None => user[v].groups \subseteq group \cap GroupsOf(Home[v])
  BY DEF DirectoryInv, DirectoryTypes, StoreOK, Rows
<1>2. CASE WriteManual
  <2> DEFINE u == admin.of
             n == admin.name
  <2>1. /\ u \in Users /\ Home[u] = Local /\ n \in Names
        /\ admin' = NoAdmin /\ UNCHANGED <<conns, group, run>>
    BY <1>2 DEF WriteManual, DirectoryInv, AdminOK, Of
  <2>2. CASE UNCHANGED user
    <3>1. StoreOK'
      BY <2>1, <2>2 DEF DirectoryInv, StoreOK, Rows
    <3> QED BY <1>1, <2>1, <2>2, <3>1, AdminChange, NoAdminOK
  <2>3. ASSUME NEW row \in User, row.name = n, Free(u, n), row.groups \subseteq group \cap GroupsOf(Home[u]),
               user' = [user EXCEPT ![u] = row]
        PROVE  DirectoryInv'
    <3>1. /\ user' \in [Users -> {None} \cup User] /\ StoreOK'
          /\ \A v \in Users \ {u} : user'[v] = user[v]
      BY <2>1, <2>3, StoreRow
    <3>2. \A v \in Users : Home[v] \in Sources /\ user'[v] # None => user[v] # None
      BY <2>1, <3>1
    <3> QED BY <2>1, <3>1, <3>2, AdminChange, NoAdminOK
  <2>4. CASE Free(u, n) /\ admin.pc = "create"
    <3> DEFINE row == [name |-> n, active |-> TRUE, groups |-> {}]
    <3>1. row \in User /\ row.name = n /\ row.groups = {}
      BY <2>1 DEF User
    <3>2. user' = [user EXCEPT ![u] = row]
      BY <1>2, <2>4 DEF WriteManual
    <3> HIDE DEF row
    <3> QED BY <2>3, <2>4, <3>1, <3>2
  <2>5. CASE Free(u, n) /\ admin.pc # "create" /\ user[u] # None
    <3> DEFINE row == [user[u] EXCEPT !.name = n]
    <3>1. user[u] \in User
      BY <1>1, <2>1, <2>5
    <3>2. row \in User /\ row.name = n /\ row.groups = user[u].groups
      BY <2>1, <3>1 DEF User
    <3>3. user' = [user EXCEPT ![u] = row]
      BY <1>2, <2>5 DEF WriteManual
    <3> HIDE DEF row
    <3> QED BY <1>1, <2>1, <2>3, <2>5, <3>2, <3>3
  <2>6. CASE ~Free(u, n) \/ (admin.pc # "create" /\ user[u] = None)
    <3>1. UNCHANGED user
      BY <1>1, <1>2, <2>1, <2>6 DEF WriteManual
    <3> QED BY <2>2, <3>1
  <2> QED BY <2>4, <2>5, <2>6
<1>3. ASSUME NEW u \in Users, DeleteManual(u) PROVE DirectoryInv'
  <2>1. /\ user' = [user EXCEPT ![u] = None] /\ UNCHANGED <<conns, group, run, admin>>
    BY <1>3 DEF DeleteManual
  <2>2. user' = [v \in Users |-> user'[v]] /\ \A v \in Users : Reduced(v)
    BY <1>1, <2>1 DEF Reduced
  <2>3. user' \in [Users -> {None} \cup User] /\ StoreOK'
    BY <2>1, <2>2, StoreShrinks
  <2>4. admin' \in Admin /\ AdminOK'
    BY <1>1, <2>1 DEF DirectoryInv, AdminOK
  <2>5. \A v \in Users : user'[v] # None => user[v] # None
    BY <1>1, <2>1
  <2> QED BY <2>1, <2>3, <2>4, <2>5, AdminChange
<1> QED BY <1>2, <1>3

LEMMA SourceInv ==
  ASSUME DirectoryInv, DeactivateSource \/ Disconnect \/ \E c \in Sources : DeleteIdentities(c)
  PROVE  DirectoryInv'
<1>1. /\ user \in [Users -> {None} \cup User] /\ admin \in Admin /\ conns \subseteq Sources
      /\ \A v \in Users : user[v] # None => user[v] \in User /\ user[v].groups \subseteq group \cap GroupsOf(Home[v])
  BY DEF DirectoryInv, DirectoryTypes, StoreOK, Rows
<1>2. CASE DeactivateSource
  <2>1. /\ user' = [u \in Users |-> IF u \in admin.ids /\ user[u] # None THEN Deactivated(u) ELSE user[u]]
        /\ admin' = NoAdmin /\ UNCHANGED <<conns, group, run>>
    BY <1>2 DEF DeactivateSource
  <2>2. \A u \in Users : user[u] # None => /\ Deactivated(u) \in User /\ Deactivated(u).name = user[u].name
                                           /\ Deactivated(u).groups = {}
    BY <1>1, DeactivatedRow
  <2>3. user' = [v \in Users |-> user'[v]] /\ \A v \in Users : Reduced(v)
    BY <1>1, <2>1, <2>2 DEF Reduced
  <2>4. user' \in [Users -> {None} \cup User] /\ StoreOK'
    BY <2>1, <2>3, StoreShrinks
  <2>5. \A v \in Users : user'[v] # None => user[v] # None
    BY <2>1
  <2> QED BY <2>1, <2>4, <2>5, AdminChange, NoAdminOK
<1>3. CASE Disconnect
  <2>1. /\ conns' = IF Deletable(admin.of) THEN conns \ {admin.of} ELSE conns
        /\ admin' = NoAdmin /\ UNCHANGED <<user, group, run>>
    BY <1>3 DEF Disconnect
  <2>2. External \/ (Deletable(admin.of) => \A x \in Rows \cup group : Home[x] # admin.of)
    <3>1. group \subseteq Groups
      BY DEF DirectoryInv, DirectoryTypes
    <3> QED BY <3>1 DEF Deletable, HasIdentities, Of, GroupsOf, Rows
  <2>3. StoreOK'
    BY <2>1, <2>2 DEF DirectoryInv, StoreOK, Rows
  <2> QED BY <1>1, <2>1, <2>3, AdminChange, NoAdminOK
<1>4. ASSUME NEW c \in Sources, DeleteIdentities(c) PROVE DirectoryInv'
  <2>1. /\ user' = [u \in Users |-> IF Home[u] = c THEN None ELSE user[u]]
        /\ group' = group \ GroupsOf(c) /\ UNCHANGED <<conns, run, admin>>
    BY <1>4 DEF DeleteIdentities
  <2>2. user' = [v \in Users |-> user'[v]] /\ \A v \in Users : Reduced(v)
    BY <1>1, <2>1 DEF Reduced, GroupsOf
  <2>3. user' \in [Users -> {None} \cup User] /\ StoreOK'
    BY <2>1, <2>2, StoreShrinks
  <2>4. admin' \in Admin /\ AdminOK'
    BY <1>1, <2>1 DEF DirectoryInv, AdminOK
  <2>5. \A v \in Users : user'[v] # None => user[v] # None /\ GroupsOf(Home[v]) \cap group \subseteq group'
    BY <2>1 DEF GroupsOf
  <2> QED BY <2>1, <2>3, <2>4, <2>5, AdminChange
<1> QED BY <1>2, <1>3, <1>4

-----------------------------------------------------------------------------
LEMMA InitDirectoryInv == Init => DirectoryInv
<1> SUFFICES ASSUME Init PROVE DirectoryInv
  OBVIOUS
<1>1. DirectoryTypes /\ AdminOK /\ RunsOK /\ AssignedOK
  BY NoRunOK DEF Init, DirectoryTypes, NoAdmin, Admin, AdminOK, RunsOK, AssignedOK
<1>2. StoreOK
  BY DEF Init, StoreOK, Rows
<1> QED BY <1>1, <1>2 DEF DirectoryInv

LEMMA NextDirectoryInv ==
  ASSUME DirectoryInv, [Next]_vars
  PROVE  DirectoryInv'
<1>1. conns \subseteq Sources
  BY DEF DirectoryInv, DirectoryTypes
<1>2. ASSUME NEW c \in Sources, Trigger(c) PROVE DirectoryInv'
  BY <1>2, StartInv DEF Trigger, Start
<1>3. ASSUME SyncAllNext PROVE DirectoryInv'
  <2>1. UNCHANGED <<conns, user, group, admin>>
    BY <1>3 DEF SyncAllNext
  <2>2. PICK c \in pool.queue : (c \in conns /\ Start(c, TRUE)) \/ UNCHANGED run
    BY <1>3 DEF SyncAllNext
  <2>3. CASE UNCHANGED run
    BY <2>1, <2>3 DEF DirectoryInv, DirectoryTypes, RunsOK, AssignedOK, AdminOK, StoreOK, Rows
  <2> QED BY <2>1, <2>2, <2>3, StartInv
<1>4. CASE StartSyncAll \/ UNCHANGED vars
  BY <1>4 DEF StartSyncAll, vars, DirectoryInv, DirectoryTypes, RunsOK, AssignedOK, AdminOK, StoreOK, Rows
<1>5. ASSUME NEW c \in Sources, RunStep(c) PROVE DirectoryInv'
  BY <1>5, UsersInv, WriteUserInv, MembersInv, ReplaceInv, UnseenInv DEF RunStep
<1> QED BY <1>2, <1>3, <1>4, <1>5, BeginsInv, ManualInv, SourceInv DEF Next, AdminStep

\* The store fits together in every reachable state: names are unique, memberships join rows of one source
\* that are there, and no identity outlives its source, whatever the runs and the administrator look at
\* one call before they write.  The constraints of the local database are needed for the last part.
THEOREM DirectoryConsistent ==
  ASSUME ~External
  PROVE  Spec => []StoreConsistent
<1>1. Init => DirectoryInv
  BY InitDirectoryInv
<1>2. DirectoryInv /\ [Next]_vars => DirectoryInv'
  BY NextDirectoryInv
<1>3. DirectoryInv => StoreConsistent
  BY DEF DirectoryInv, StoreOK, StoreConsistent
<1> QED BY <1>1, <1>2, <1>3, PTL DEF Spec

-----------------------------------------------------------------------------
(* What a run knows.                                                       *)

Assigning(r) == r.pc \in {"upsert", "replace"}

\* How far the run is: phase A turns what was seen into what is upserted, phase B assigns the groups of
\* one user after the other, phase C has a list of users of its own.
Progress(c, r) ==
    /\ r.todo \subseteq r.ok /\ r.ok \subseteq r.seen /\ r.left \subseteq r.seen /\ r.seen \subseteq Of(c)
    /\ r.census \subseteq GroupsOf(c) /\ r.ids \subseteq r.census
    /\ r.pc \in {"idle", "fetch"} => /\ r.seen = {} /\ r.census = {} /\ ~r.failed /\ r.clean
                                     /\ \A u \in Users : r.listed[u] = {}
    /\ r.pc = "write" => r.cur \in r.left
    /\ r.pc \in {"user", "write"} => r.todo = r.ok
    /\ r.pc \notin {"user", "write"} => r.left = {}
    /\ r.pc \in {"unseen", "drop", "orphans", "success"} => r.todo = {}
    /\ Assigning(r) => r.cur \in r.ok \ r.todo
    /\ r.pc # "upsert" => r.want = {}
    /\ r.drop \cap r.seen = {} /\ (r.pc # "drop" => r.drop = {})

\* A group that was listed for a user dealt with is in the census, unless something failed or was cut off.
Census(r) == r.clean => \A u \in r.ok \ r.todo : r.listed[u] \subseteq r.census \cup r.want

\* If nothing failed, everybody seen is upserted or still to come, and the census is what was listed.
Clean(r) ==
    r.clean =>
        /\ ~r.failed /\ r.seen = r.ok \cup r.left
        /\ \A g \in r.census \cup r.want : \E u \in r.seen : g \in r.listed[u]
        /\ \A u \in Users \ (r.ok \ r.todo) : r.listed[u] = {}
        /\ Assigning(r) => r.listed[r.cur] = r.want \cup r.ids

Knows(c, r) == r \in Run /\ RunOK(c, r) /\ Progress(c, r) /\ Census(r) /\ Clean(r)

LEMMA HandledFields ==
  ASSUME NEW r \in Run
  PROVE  /\ Handled(r).left = r.left \ {r.cur} /\ Handled(r).todo = r.todo /\ Handled(r).ok = r.ok
         /\ Handled(r).seen = r.seen /\ Handled(r).drop = r.drop /\ Handled(r).want = r.want
         /\ Handled(r).census = r.census /\ Handled(r).listed = r.listed
         /\ Handled(r).failed = r.failed /\ Handled(r).clean = r.clean
         /\ \/ Handled(r).pc = "user" /\ Handled(r).left # {}
            \/ Handled(r).pc = "member" /\ Handled(r).left = {} /\ Handled(r).todo # {}
            \/ Handled(r).pc = "unseen" /\ Handled(r).left = {} /\ Handled(r).todo = {}
<1> DEFINE s == [r EXCEPT !.left = @ \ {r.cur}, !.cur = None, !.name = None]
           d == [s EXCEPT !.pc = Onward(s)]
<1>1. /\ s \in Run
      /\ s.left = r.left \ {r.cur} /\ s.todo = r.todo /\ s.ok = r.ok /\ s.seen = r.seen /\ s.drop = r.drop
      /\ s.want = r.want /\ s.census = r.census /\ s.listed = r.listed
  BY DEF Run
<1>2. s.failed = r.failed /\ s.clean = r.clean
  BY DEF Run
<1> HIDE DEF s
<1>3. /\ d.left = s.left /\ d.todo = s.todo /\ d.ok = s.ok /\ d.seen = s.seen /\ d.drop = s.drop
      /\ d.want = s.want /\ d.census = s.census /\ d.listed = s.listed
      /\ d.failed = s.failed /\ d.clean = s.clean /\ d.pc = Onward(s)
  BY <1>1 DEF Run
<1>4. Handled(r) = d
  BY DEF Handled, s
<1> HIDE DEF d
<1> QED BY <1>1, <1>2, <1>3, <1>4 DEF Onward

\* A run that turns from a user it has handled to the next one.
LEMMA HandledKnows ==
  ASSUME NEW c \in Sources, NEW r \in Run, RunOK(c, r), r.ids = {}, r.want = {}, r.drop = {},
         r.todo \subseteq r.ok, r.ok \subseteq r.seen, r.left \subseteq r.seen, r.seen \subseteq Of(c),
         r.census \subseteq GroupsOf(c),
         r.left \ {r.cur} # {} => r.todo = r.ok, Census(r),
         r.clean => /\ ~r.failed /\ r.seen = r.ok \cup (r.left \ {r.cur})
                    /\ \A g \in r.census : \E u \in r.seen : g \in r.listed[u]
                    /\ \A u \in Users \ (r.ok \ r.todo) : r.listed[u] = {}
  PROVE  Knows(c, Handled(r))
<1> DEFINE h == Handled(r)
<1>1. h \in Run /\ RunOK(c, h)
  BY HandledOK
<1>2. /\ h.left = r.left \ {r.cur} /\ h.todo = r.todo /\ h.ok = r.ok
      /\ h.seen = r.seen /\ h.drop = r.drop /\ h.want = r.want
      /\ h.census = r.census /\ h.listed = r.listed
      /\ \/ h.pc = "user" /\ h.left # {}
         \/ h.pc = "member" /\ h.left = {} /\ h.todo # {}
         \/ h.pc = "unseen" /\ h.left = {} /\ h.todo = {}
  BY HandledFields
<1>3. (h.failed <=> r.failed) /\ (h.clean <=> r.clean)
  BY HandledFields
<1> HIDE DEF h
<1>4. Progress(c, h)
  <2>1. h.ids = {}
    BY <1>1, <1>2 DEF RunOK
  <2> QED BY <1>2, <2>1 DEF Progress, Assigning
<1>5. Census(h)
  BY <1>2, <1>3 DEF Census
<1>6. Clean(h)
  BY <1>2, <1>3 DEF Clean, Assigning
<1> QED BY <1>1, <1>4, <1>5, <1>6 DEF Knows, h

LEMMA NoRunKnows ==
  ASSUME NEW c \in Sources, NEW all \in BOOLEAN
  PROVE  Knows(c, NoRun) /\ Knows(c, [NoRun EXCEPT !.pc = "fetch", !.all = all])
<1> DEFINE Fresh(d) == /\ d \in Run /\ d.pc \in {"idle", "fetch"} /\ d.seen = {} /\ d.left = {} /\ d.ok = {}
                       /\ d.todo = {} /\ d.drop = {} /\ d.want = {} /\ d.ids = {} /\ d.census = {}
                       /\ d.failed = FALSE /\ d.clean = TRUE /\ \A u \in Users : d.listed[u] = {}
<1>1. Fresh(NoRun)
  BY DEF NoRun, Run
<1>3. Fresh([NoRun EXCEPT !.pc = "fetch", !.all = all])
  <2>1. ASSUME NEW x, Fresh(x) PROVE Fresh([x EXCEPT !.pc = "fetch", !.all = all])
    BY <2>1 DEF Run
  <2> QED BY <1>1, <2>1
<1>2. ASSUME NEW d, Fresh(d) PROVE Knows(c, d)
  BY <1>2 DEF Knows, RunOK, Progress, Census, Clean, Assigning
<1> QED BY <1>1, <1>2, <1>3

\* The users are at hand.
LEMMA FetchKnows ==
  ASSUME NEW c \in Sources, NEW r, Knows(c, r), r.pc = "fetch", NEW ids \in SUBSET Of(c), NEW junk \in BOOLEAN
  PROVE  Knows(c, [r EXCEPT !.pc = IF ids = {} THEN "unseen" ELSE "user",
                            !.left = ids, !.seen = ids, !.clean = ~junk])
<1> DEFINE d == [r EXCEPT !.pc = IF ids = {} THEN "unseen" ELSE "user",
                          !.left = ids, !.seen = ids, !.clean = ~junk]
<1>1. r \in Run
  BY DEF Knows
<1>2. /\ d.pc = IF ids = {} THEN "unseen" ELSE "user"
      /\ d.left = ids /\ d.seen = ids /\ d.ok = r.ok /\ d.todo = r.todo /\ d.drop = r.drop /\ d.want = r.want
      /\ d.ids = r.ids /\ d.census = r.census /\ d.listed = r.listed
  BY <1>1 DEF Run
<1>3. d.failed = r.failed
  BY <1>1 DEF Run
<1>4. d \in Run
  BY <1>1 DEF Run, Of
<1> HIDE DEF d
<1>5. RunOK(c, d) /\ Progress(c, d)
  BY <1>2 DEF Knows, RunOK, Progress, Assigning
<1>6. Census(d)
  BY <1>2 DEF Knows, Progress, Census
<1>7. Clean(d)
  BY <1>2, <1>3 DEF Knows, Progress, Clean, Assigning
<1> QED BY <1>4, <1>5, <1>6, <1>7 DEF Knows, d

\* Nothing but the user under way and the clean flag differs.
SameRun(d, r) ==
    /\ d \in Run /\ d.pc = r.pc /\ d.left = r.left /\ d.seen = r.seen /\ d.ok = r.ok /\ d.todo = r.todo
    /\ d.drop = r.drop /\ d.want = r.want /\ d.ids = r.ids /\ d.census = r.census
    /\ d.cur \in r.left /\ (d.pc = "write" => d.name \in Names)

\* The run of c goes on as d and knows what it should; or it ends.
Goes(c, d) == Set(c, d) /\ Knows(c, d)

LEMMA SkipKnows ==
  ASSUME NEW c \in Sources, NEW r, Knows(c, r), r.pc \in {"user", "write"}, NEW d, SameRun(d, r),
         NEW strict, Skip(c, d, strict)
  PROVE  End(c) \/ \E h : Goes(c, h) /\ h.clean = FALSE
<1> DEFINE e == [d EXCEPT !.clean = FALSE]
<1>1. SameRun(e, r) /\ e.clean = FALSE
  BY DEF SameRun, Run
<1>2. End(c) \/ Set(c, Handled(e))
  BY DEF Skip
<1> HIDE DEF e
<1>3. e \in Run /\ RunOK(c, e)
  BY <1>1 DEF Knows, RunOK, SameRun
<1>4. Census(e)
  BY <1>1 DEF Knows, Progress, Census, SameRun
<1>5. Knows(c, Handled(e))
  BY <1>1, <1>3, <1>4, HandledKnows DEF Knows, Progress, RunOK, SameRun
<1>6. Handled(e).clean = FALSE
  BY <1>1, <1>3, HandledFields
<1> QED BY <1>2, <1>5, <1>6 DEF Goes

LEMMA CollideKnows ==
  ASSUME NEW c \in Sources, NEW r, Knows(c, r), r.pc \in {"user", "write"}, NEW d, SameRun(d, r), Collide(c, d)
  PROVE  End(c) \/ \E h : Goes(c, h) /\ h.clean = FALSE
  BY SkipKnows DEF Collide

\* A user turns out to have a free name, and is upserted.
LEMMA LookUpKnows ==
  ASSUME NEW c \in Sources, NEW r, Knows(c, r), r.pc = "user", NEW u \in r.left, NEW n \in Names
  PROVE  Knows(c, [[r EXCEPT !.cur = u, !.name = n] EXCEPT !.pc = "write"])
<1> DEFINE e == [r EXCEPT !.cur = u, !.name = n]
           d == [e EXCEPT !.pc = "write"]
<1>1. SameRun(e, r) /\ e.cur = u /\ e.name = n /\ e.listed = r.listed
  BY DEF Knows, SameRun, Run
<1>2. e.failed = r.failed /\ e.clean = r.clean
  BY DEF Knows, Run
<1> HIDE DEF e
<1>3. /\ d \in Run /\ d.pc = "write" /\ d.left = e.left /\ d.seen = e.seen /\ d.ok = e.ok /\ d.todo = e.todo
      /\ d.drop = e.drop /\ d.want = e.want /\ d.ids = e.ids /\ d.census = e.census
      /\ d.cur = e.cur /\ d.name = e.name /\ d.listed = e.listed
  BY <1>1 DEF SameRun, Run
<1>4. d.failed = e.failed /\ d.clean = e.clean
  BY <1>1 DEF SameRun, Run
<1> HIDE DEF d
<1>5. RunOK(c, d) /\ Progress(c, d)
  BY <1>1, <1>3 DEF SameRun, Knows, RunOK, Progress, Assigning
<1>6. Census(d) /\ Clean(d)
  BY <1>1, <1>2, <1>3, <1>4 DEF SameRun, Knows, Progress, Census, Clean, Assigning
<1> QED BY <1>3, <1>5, <1>6 DEF Knows, d, e

LEMMA WriteKnows ==
  ASSUME NEW c \in Sources, NEW r, Knows(c, r), r.pc = "write"
  PROVE  Knows(c, Handled([r EXCEPT !.ok = @ \cup {r.cur}, !.todo = @ \cup {r.cur}]))
<1> DEFINE u == r.cur
           d == [r EXCEPT !.ok = @ \cup {u}, !.todo = @ \cup {u}]
<1>1. u \in r.left /\ u \in Of(c) /\ u \in Users
  BY DEF Knows, RunOK, Progress, Of
<1>2. /\ d \in Run /\ d.pc = r.pc /\ d.left = r.left /\ d.seen = r.seen /\ d.ok = r.ok \cup {u}
      /\ d.todo = r.todo \cup {u} /\ d.drop = r.drop /\ d.want = r.want /\ d.ids = r.ids /\ d.census = r.census
      /\ d.cur = u /\ d.name = r.name /\ d.listed = r.listed
  BY <1>1 DEF Knows, Run
<1>3. d.failed = r.failed /\ d.clean = r.clean
  BY DEF Knows, Run
<1> HIDE DEF d
<1>4. RunOK(c, d)
  BY <1>1, <1>2 DEF Knows, RunOK
<1>5. Census(d)
  BY <1>1, <1>2 DEF Knows, Progress, Census
<1>6. d.clean => /\ ~d.failed /\ d.seen = d.ok \cup (d.left \ {d.cur})
                 /\ \A g \in d.census : \E v \in d.seen : g \in d.listed[v]
                 /\ \A v \in Users \ (d.ok \ d.todo) : d.listed[v] = {}
  BY <1>1, <1>2, <1>3 DEF Knows, Progress, Clean
<1>7. /\ d.ids = {} /\ d.want = {} /\ d.drop = {} /\ d.todo \subseteq d.ok /\ d.ok \subseteq d.seen
      /\ d.left \subseteq d.seen /\ d.seen \subseteq Of(c) /\ d.census \subseteq GroupsOf(c)
      /\ d.left \ {d.cur} # {} => d.todo = d.ok
  BY <1>1, <1>2 DEF Knows, Progress, RunOK
<1>8. Knows(c, Handled(d))
  BY ONLY <1>2, <1>4, <1>5, <1>6, <1>7, HandledKnows, c \in Sources
<1> QED BY <1>8 DEF d

\* Phase B: the fetch of a user's memberships fails, or they are at hand.
LEMMA FetchFailsKnows ==
  ASSUME NEW c \in Sources, NEW r, Knows(c, r), r.pc = "member", NEW u \in r.todo
  PROVE  Knows(c, Handled([r EXCEPT !.todo = @ \ {u}, !.failed = TRUE, !.clean = FALSE]))
<1> DEFINE d == [r EXCEPT !.todo = @ \ {u}, !.failed = TRUE, !.clean = FALSE]
<1>1. /\ d \in Run /\ d.pc = r.pc /\ d.left = r.left /\ d.seen = r.seen /\ d.ok = r.ok
      /\ d.todo = r.todo \ {u} /\ d.drop = r.drop /\ d.want = r.want /\ d.ids = r.ids /\ d.census = r.census
  BY DEF Knows, Run, GroupsOf
<1>2. d.failed = TRUE /\ d.clean = FALSE
  BY DEF Knows, Run
<1> HIDE DEF d
<1>3. RunOK(c, d)
  BY <1>1 DEF Knows, RunOK
<1>4. /\ d.ids = {} /\ d.want = {} /\ d.drop = {} /\ d.todo \subseteq d.ok /\ d.ok \subseteq d.seen
      /\ d.left \subseteq d.seen /\ d.seen \subseteq Of(c) /\ d.census \subseteq GroupsOf(c)
      /\ d.left \ {d.cur} # {} => d.todo = d.ok
  BY <1>1 DEF Knows, Progress, RunOK
<1>5. Census(d)
  BY <1>2 DEF Census
<1>6. Knows(c, Handled(d))
  BY ONLY <1>1, <1>2, <1>3, <1>4, <1>5, HandledKnows, c \in Sources
<1> QED BY <1>6 DEF d

Begun(r, u, gs, read) ==
    [r EXCEPT !.pc = IF read = {} THEN "replace" ELSE "upsert", !.cur = u, !.todo = @ \ {u},
              !.want = read, !.listed[u] = gs, !.clean = @ /\ read = gs]

\* The groups of u are at hand.
Attends(r, x, u) ==
    /\ Assigning(x) /\ x.cur = u /\ x.ok = r.ok /\ x.todo = r.todo \ {u} /\ x.census = r.census
    /\ \A v \in Users \ {u} : x.listed[v] = r.listed[v]
    /\ x.failed = r.failed /\ (x.clean => r.clean)

LEMMA BeginKnows ==
  ASSUME NEW c \in Sources, NEW r, Knows(c, r), r.pc = "member", NEW u \in r.todo, NEW gs \in SUBSET GroupsOf(c),
         NEW read \in SUBSET gs
  PROVE  Knows(c, Begun(r, u, gs, read)) /\ Attends(r, Begun(r, u, gs, read), u)
<1> DEFINE d == [r EXCEPT !.pc = IF read = {} THEN "replace" ELSE "upsert", !.cur = u, !.todo = @ \ {u},
                          !.want = read, !.listed[u] = gs, !.clean = @ /\ read = gs]
<1>0. r \in Run /\ u \in Users /\ u \in Of(c)
  BY DEF Knows, RunOK, Of
<1> DEFINE new(pc, l, ok) == [r EXCEPT !.pc = pc, !.cur = u, !.todo = @ \ {u},
                                      !.want = read, !.listed = l, !.clean = ok]
           pc0 == IF read = {} THEN "replace" ELSE "upsert"
           l0 == [r.listed EXCEPT ![u] = gs]
           ok0 == r.clean /\ read = gs
<1>10. ASSUME NEW pc \in {"replace", "upsert"}, NEW l \in [Users -> SUBSET Groups], NEW ok \in BOOLEAN
       PROVE  /\ new(pc, l, ok) \in Run /\ new(pc, l, ok).pc = pc /\ new(pc, l, ok).cur = u
              /\ new(pc, l, ok).left = r.left /\ new(pc, l, ok).seen = r.seen /\ new(pc, l, ok).ok = r.ok
              /\ new(pc, l, ok).todo = r.todo \ {u} /\ new(pc, l, ok).drop = r.drop
              /\ new(pc, l, ok).want = read /\ new(pc, l, ok).ids = r.ids /\ new(pc, l, ok).census = r.census
              /\ new(pc, l, ok).listed = l
  BY <1>0, <1>10 DEF Run, GroupsOf
<1>11. ASSUME NEW pc, NEW l, NEW ok
       PROVE  new(pc, l, ok).failed = r.failed /\ new(pc, l, ok).clean = ok
  BY <1>0 DEF Run
<1>12. pc0 \in {"replace", "upsert"} /\ l0 \in [Users -> SUBSET Groups]
  BY <1>0 DEF Run, GroupsOf
<1>13. ok0 \in BOOLEAN /\ (ok0 => r.clean /\ read = gs)
  BY <1>0 DEF Run
<1>14. d = new(pc0, l0, ok0)
  OBVIOUS
<1> HIDE DEF new, l0, ok0, d
<1>1. /\ d \in Run /\ d.pc = IF read = {} THEN "replace" ELSE "upsert"
      /\ d.cur = u /\ d.left = r.left /\ d.seen = r.seen /\ d.ok = r.ok
      /\ d.todo = r.todo \ {u} /\ d.drop = r.drop /\ d.want = read /\ d.ids = r.ids /\ d.census = r.census
      /\ d.listed = [r.listed EXCEPT ![u] = gs]
  BY <1>10, <1>12, <1>13, <1>14 DEF l0
<1>2. d.failed = r.failed /\ (d.clean => r.clean /\ read = gs)
  BY <1>11, <1>13, <1>14
<1>3. r.listed \in [Users -> SUBSET Groups]
  BY <1>0 DEF Run
<1>4. RunOK(c, d)
  BY <1>0, <1>1 DEF Knows, RunOK
<1>5. Progress(c, d)
  BY <1>0, <1>1 DEF Knows, RunOK, Progress, Assigning
<1>6. Census(d)
  BY <1>0, <1>1, <1>2, <1>3 DEF Knows, Progress, Census
<1>7. Clean(d)
  <2> SUFFICES ASSUME d.clean PROVE Clean(d)
    BY DEF Clean
  <2>1. /\ ~r.failed /\ r.seen = r.ok \cup r.left
        /\ \A g \in r.census : \E v \in r.seen : g \in r.listed[v]
        /\ \A v \in Users \ (r.ok \ r.todo) : r.listed[v] = {}
    BY <1>2 DEF Knows, Clean
  <2>2. u \in r.seen /\ u \in r.ok /\ r.listed[u] = {} /\ r.ids = {}
    BY <1>0, <2>1 DEF Knows, Progress, RunOK
  <2>3. \A g \in d.census \cup d.want : \E v \in d.seen : g \in d.listed[v]
    BY <1>0, <1>1, <1>3, <2>1, <2>2 DEF Knows, Progress
  <2>4. \A v \in Users \ (d.ok \ d.todo) : d.listed[v] = {}
    BY <1>1, <1>3, <2>1, <2>2
  <2> QED BY <1>0, <1>1, <1>2, <1>3, <2>1, <2>2, <2>3, <2>4 DEF Clean, Assigning
<1>8. Knows(c, d) /\ Assigning(d)
  BY <1>1, <1>4, <1>5, <1>6, <1>7 DEF Knows, Assigning
<1>9. Begun(r, u, gs, read) = d
  BY DEF Begun, d
<1>15. Attends(r, d, u)
  BY <1>0, <1>1, <1>2, <1>3, <1>8 DEF Attends
<1> QED BY <1>8, <1>9, <1>15

Upserted(r, g) ==
    [r EXCEPT !.want = @ \ {g}, !.census = @ \cup {g}, !.pc = IF r.want = {g} THEN "replace" ELSE "upsert"]
Rejected(r, g) == [Upserted(r, g) EXCEPT !.clean = FALSE]
Joined(r, g) == [Upserted(r, g) EXCEPT !.ids = @ \cup {g}]

\* One more group is in the census, and nothing else is new.
Adds(r, x, g) ==
    /\ Assigning(x) /\ x.cur = r.cur /\ x.ok = r.ok /\ x.todo = r.todo /\ x.census = r.census \cup {g}
    /\ x.listed = r.listed /\ x.failed = r.failed /\ (x.clean => r.clean)

LEMMA UpsertKnows ==
  ASSUME NEW c \in Sources, NEW r, Knows(c, r), r.pc = "upsert", NEW g \in r.want
  PROVE  /\ Knows(c, Rejected(r, g)) /\ Adds(r, Rejected(r, g), g) /\ Rejected(r, g).clean = FALSE
         /\ Knows(c, Joined(r, g)) /\ Adds(r, Joined(r, g), g)
<1> DEFINE e == Upserted(r, g)
           n == Rejected(r, g)
           y == Joined(r, g)
<1>0. r \in Run /\ g \in GroupsOf(c) /\ g \in Groups
  BY DEF Knows, RunOK, GroupsOf
<1>1. /\ e \in Run /\ e.pc = IF r.want = {g} THEN "replace" ELSE "upsert"
      /\ e.cur = r.cur /\ e.left = r.left /\ e.seen = r.seen /\ e.ok = r.ok
      /\ e.todo = r.todo /\ e.drop = r.drop /\ e.want = r.want \ {g} /\ e.ids = r.ids /\ e.census = r.census \cup {g}
      /\ e.listed = r.listed
  BY <1>0 DEF Run, Upserted
<1>2. e.failed = r.failed /\ e.clean = r.clean
  BY <1>0 DEF Run, Upserted
<1> HIDE DEF e
<1>3. ASSUME NEW d \in Run, d.pc = e.pc, d.cur = e.cur, d.left = e.left, d.seen = e.seen, d.ok = e.ok,
             d.todo = e.todo, d.drop = e.drop, d.want = e.want, d.ids \subseteq e.ids \cup {g}, d.census = e.census,
             d.listed = e.listed, d.failed = e.failed, d.clean => e.clean
      PROVE  RunOK(c, d) /\ Progress(c, d) /\ Census(d)
  <2>1. RunOK(c, d)
    BY <1>0, <1>1, <1>3 DEF Knows, RunOK
  <2>2. Progress(c, d)
    BY <1>0, <1>1, <1>3 DEF Knows, Progress, Assigning
  <2>3. Census(d)
    BY <1>0, <1>1, <1>2, <1>3 DEF Knows, Census
  <2> QED BY <2>1, <2>2, <2>3
<1>20. n = [e EXCEPT !.clean = FALSE] /\ y = [e EXCEPT !.ids = @ \cup {g}]
  BY DEF e, Rejected, Joined
<1> HIDE DEF e, n, y
<1>4. /\ n \in Run /\ n.pc = e.pc /\ n.cur = e.cur /\ n.left = e.left /\ n.seen = e.seen /\ n.ok = e.ok
      /\ n.todo = e.todo /\ n.drop = e.drop /\ n.want = e.want /\ n.ids = e.ids /\ n.census = e.census
      /\ n.listed = e.listed
  BY <1>1, <1>20 DEF Run
<1>5. n.failed = e.failed /\ n.clean = FALSE
  BY <1>1, <1>20 DEF Run
<1>6. /\ y \in Run /\ y.pc = e.pc /\ y.cur = e.cur /\ y.left = e.left /\ y.seen = e.seen /\ y.ok = e.ok
      /\ y.todo = e.todo /\ y.drop = e.drop /\ y.want = e.want /\ y.ids = e.ids \cup {g} /\ y.census = e.census
      /\ y.listed = e.listed
  BY <1>0, <1>1, <1>20 DEF Run
<1>7. y.failed = e.failed /\ y.clean = e.clean
  BY <1>1, <1>20 DEF Run
<1>8. Knows(c, n)
  BY <1>3, <1>4, <1>5 DEF Knows, Clean
<1>9. Clean(y)
  <2> SUFFICES ASSUME y.clean PROVE Clean(y)
    BY DEF Clean
  <2>1. Clean(r) /\ r.clean /\ Assigning(r)
    BY <1>2, <1>7 DEF Knows, Assigning
  <2> QED BY <1>0, <1>1, <1>2, <1>6, <1>7, <2>1 DEF Clean
<1>10. Knows(c, y)
  BY <1>3, <1>6, <1>7, <1>9 DEF Knows
<1>11. Assigning(y)
  BY <1>1, <1>6 DEF Assigning
<1>12. Adds(r, y, g)
  BY <1>1, <1>2, <1>6, <1>7, <1>11 DEF Adds
<1>13. Adds(r, n, g)
  BY <1>1, <1>2, <1>4, <1>5 DEF Adds, Assigning
<1> QED BY <1>5, <1>8, <1>10, <1>12, <1>13 DEF n, y

LEMMA ReplaceKnows ==
  ASSUME NEW c \in Sources, NEW r, Knows(c, r), r.pc = "replace"
  PROVE  Knows(c, Handled([r EXCEPT !.ids = {}]))
<1> DEFINE d == [r EXCEPT !.ids = {}]
<1>1. /\ d \in Run /\ d.pc = r.pc /\ d.left = r.left /\ d.seen = r.seen /\ d.ok = r.ok /\ d.cur = r.cur
      /\ d.todo = r.todo /\ d.drop = r.drop /\ d.want = r.want /\ d.ids = {} /\ d.census = r.census
      /\ d.listed = r.listed
  BY DEF Knows, Run
<1>2. d.failed = r.failed /\ d.clean = r.clean
  BY DEF Knows, Run
<1> HIDE DEF d
<1>3. RunOK(c, d)
  BY <1>1 DEF Knows, RunOK
<1>4. /\ d.ids = {} /\ d.want = {} /\ d.drop = {} /\ d.todo \subseteq d.ok /\ d.ok \subseteq d.seen
      /\ d.left \subseteq d.seen /\ d.seen \subseteq Of(c) /\ d.census \subseteq GroupsOf(c)
      /\ d.left = {}
  BY <1>1 DEF Knows, Progress, RunOK
<1>5. Census(d)
  BY <1>1, <1>2 DEF Knows, Census
<1>6. d.clean => /\ ~d.failed /\ d.seen = d.ok \cup (d.left \ {d.cur})
                 /\ \A g \in d.census : \E v \in d.seen : g \in d.listed[v]
                 /\ \A v \in Users \ (d.ok \ d.todo) : d.listed[v] = {}
  BY <1>1, <1>2, <1>4 DEF Knows, Clean
<1>7. Knows(c, Handled(d))
  BY ONLY <1>1, <1>3, <1>4, <1>5, <1>6, HandledKnows, c \in Sources
<1> QED BY <1>7 DEF d

\* Phase C: the users to deactivate, one of them deactivated, and the orphans deleted.
Turned(r, pc, drop) == [r EXCEPT !.pc = pc, !.drop = drop]

\* The run turns to the next thing, and nothing else is new.
Turns(r, x, pc, drop) ==
    /\ x.pc = pc /\ x.drop = drop /\ x.seen = r.seen /\ x.ok = r.ok /\ x.todo = r.todo
    /\ x.census = r.census /\ x.listed = r.listed /\ x.failed = r.failed /\ x.clean = r.clean

LEMMA UnseenKnows ==
  ASSUME NEW c \in Sources, NEW r, Knows(c, r), r.pc \in {"unseen", "drop", "orphans"},
         NEW drop \in SUBSET Of(c), drop \cap r.seen = {}, NEW pc \in {"drop", "orphans", "success"},
         pc # "drop" => drop = {}
  PROVE  Knows(c, Turned(r, pc, drop)) /\ Turns(r, Turned(r, pc, drop), pc, drop)
<1> DEFINE d == Turned(r, pc, drop)
<1>1. /\ d \in Run /\ d.pc = pc /\ d.left = r.left /\ d.seen = r.seen /\ d.ok = r.ok /\ d.todo = r.todo
      /\ d.drop = drop /\ d.want = r.want /\ d.ids = r.ids /\ d.census = r.census /\ d.listed = r.listed
  BY DEF Knows, Run, Of, Turned
<1>2. d.failed = r.failed /\ d.clean = r.clean
  BY DEF Knows, Run, Turned
<1> HIDE DEF d
<1>3. RunOK(c, d)
  BY <1>1 DEF Knows, RunOK
<1>4. Progress(c, d)
  BY <1>1 DEF Knows, Progress, Assigning
<1>5. Census(d)
  BY <1>1, <1>2 DEF Knows, Census
<1>6. Clean(d)
  BY <1>1, <1>2 DEF Knows, Clean, Assigning
<1> QED BY <1>1, <1>2, <1>3, <1>4, <1>5, <1>6 DEF Knows, Turns, d

-----------------------------------------------------------------------------
(* What the store holds of it.                                             *)

Current(r) == IF Assigning(r) THEN {r.cur} ELSE {}

\* While nothing failed and nobody removed the identities: who was upserted has a row, with the groups
\* listed once they were assigned; the census is stored; past the look for unseen users, nobody else is
\* active but those still to deactivate; past the orphans, there is no other group.
Stored(c, r) ==
    c \in alone /\ r.clean =>
        /\ r.ok \subseteq Rows
        /\ \A u \in (r.ok \ r.todo) \ Current(r) : user[u].groups = r.listed[u]
        /\ r.census \subseteq group
        /\ r.pc \in {"drop", "orphans", "success"} =>
             \A u \in Of(c) \cap Rows : user[u].active => u \in r.seen \cup r.drop
        /\ r.pc = "success" => group \cap GroupsOf(c) \subseteq r.census

AdminScope == admin.pc = "remove" => admin.of \in Sources /\ admin.ids \subseteq Of(admin.of)

MirrorInv == /\ \A c \in Sources : Knows(c, run[c]) /\ Stored(c, run[c])
             /\ AdminScope /\ alone \subseteq Sources

\* What others do: they keep the rows of c, its groups and its memberships.
Undisturbed(c) ==
    /\ c \in alone' => c \in alone
    /\ \A u \in Of(c) : /\ user'[u] = None <=> user[u] = None
                        /\ user[u] # None => /\ user'[u].active = user[u].active
                                             /\ user[u].groups \cap GroupsOf(c) \subseteq user'[u].groups
                                             /\ user'[u].groups \subseteq user[u].groups
    /\ group' \cap GroupsOf(c) = group \cap GroupsOf(c)

LEMMA UndisturbedStored ==
  ASSUME NEW c \in Sources, NEW r, Knows(c, r), Stored(c, r), Undisturbed(c)
  PROVE  Stored(c, r)'
<1> SUFFICES ASSUME c \in alone', r.clean PROVE Stored(c, r)'
  BY DEF Stored
<1>1. c \in alone
  BY DEF Undisturbed
<1>2. r.ok \subseteq Of(c) /\ r.ok \subseteq Users /\ Of(c) \subseteq Users /\ r.census \subseteq GroupsOf(c)
  BY DEF Knows, Progress, Of
<1>3. r.ok \subseteq Rows'
  BY <1>1, <1>2 DEF Stored, Undisturbed, Rows
<1>4. ASSUME NEW u \in (r.ok \ r.todo) \ Current(r) PROVE user'[u].groups = r.listed[u]
  <2>1. user[u].groups = r.listed[u] /\ user[u] # None /\ u \in Of(c)
    BY <1>1, <1>2 DEF Stored, Rows
  <2>2. r.listed[u] \subseteq GroupsOf(c)
    BY DEF Knows, Clean, Census, Progress, RunOK
  <2> QED BY <2>1, <2>2 DEF Undisturbed
<1>5. r.census \subseteq group'
  BY <1>1, <1>2 DEF Stored, Undisturbed
<1>6. ASSUME r.pc \in {"drop", "orphans", "success"}, NEW u \in Of(c) \cap Rows', user'[u].active
      PROVE  u \in r.seen \cup r.drop
  BY <1>1, <1>2, <1>6 DEF Stored, Undisturbed, Rows
<1>7. r.pc = "success" => group' \cap GroupsOf(c) \subseteq r.census
  BY <1>1 DEF Stored, Undisturbed
<1> QED BY <1>3, <1>4, <1>5, <1>6, <1>7 DEF Stored

\* A step of the run of c.
LEMMA RunMirror ==
  ASSUME MirrorInv, NEW c \in Sources, NEW d, Goes(c, d), Stored(c, d)', AdminScope',
         alone' \subseteq Sources, run \in [Sources -> Run],
         \A x \in Sources \ {c} : Undisturbed(x)
  PROVE  MirrorInv'
<1>1. run'[c] = d /\ \A x \in Sources \ {c} : run'[x] = run[x]
  BY DEF Goes, Set
<1>2. ASSUME NEW x \in Sources \ {c} PROVE Knows(x, run'[x]) /\ Stored(x, run[x])'
  BY <1>1, <1>2, UndisturbedStored DEF MirrorInv
<1>3. ASSUME NEW x \in Sources PROVE Knows(x, run'[x]) /\ Stored(x, run[x])'
  <2>1. CASE x = c
    BY <1>1, <2>1 DEF Goes, Stored
  <2>2. CASE x # c
    BY <1>2, <2>2
  <2> QED BY <2>1, <2>2
<1> QED BY <1>3 DEF MirrorInv

LEMMA Quiet ==
  ASSUME UNCHANGED <<user, group>>, alone' \subseteq alone
  PROVE  \A x \in Sources : Undisturbed(x)
  BY DEF Undisturbed

LEMMA EndMirror ==
  ASSUME MirrorInv, NEW c \in Sources, End(c), run \in [Sources -> Run], UNCHANGED <<user, group, admin, alone>>
  PROVE  MirrorInv'
<1>1. Goes(c, NoRun)
  BY NoRunKnows DEF End, Goes
<1>2. Stored(c, NoRun)'
  BY DEF Stored, NoRun, Assigning, Current
<1> QED BY <1>1, <1>2, RunMirror, Quiet DEF MirrorInv, AdminScope

\* The run goes on without clean, or the store is as it was and what is to be found there no more.
LEMMA QuietMirror ==
  ASSUME MirrorInv, NEW c \in Sources, NEW d, Goes(c, d), run \in [Sources -> Run],
         UNCHANGED <<user, group, admin, alone>>,
         d.clean => /\ run[c].clean /\ d.ok = run[c].ok /\ d.census = run[c].census
                    /\ \A u \in (d.ok \ d.todo) \ Current(d) :
                          u \in (run[c].ok \ run[c].todo) \ Current(run[c]) /\ d.listed[u] = run[c].listed[u]
                    /\ d.pc \notin {"drop", "orphans", "success"}
  PROVE  MirrorInv'
<1>1. Stored(c, d)'
  <2> SUFFICES ASSUME c \in alone, d.clean PROVE Stored(c, d)'
    BY DEF Stored
  <2>1. Stored(c, run[c])
    BY DEF MirrorInv
  <2> QED BY <2>1 DEF Stored, Rows
<1> QED BY <1>1, RunMirror, Quiet DEF MirrorInv, AdminScope

LEMMA UnusedMirror ==
  ASSUME MirrorInv, NEW c \in Sources, End(c) \/ \E h : Goes(c, h) /\ h.clean = FALSE,
         run \in [Sources -> Run], UNCHANGED <<user, group, admin, alone>>
  PROVE  MirrorInv'
  BY EndMirror, QuietMirror

LEMMA StartMirror ==
  ASSUME MirrorInv, NEW c \in Sources, NEW all \in BOOLEAN, Start(c, all), run \in [Sources -> Run],
         UNCHANGED <<user, group, admin>>
  PROVE  MirrorInv'
<1> DEFINE d == [NoRun EXCEPT !.pc = "fetch", !.all = all]
<1>1. Goes(c, d)
  BY NoRunKnows DEF Start, Goes
<1>2. /\ d.pc = "fetch" /\ d.ok = {} /\ d.census = {}
  BY DEF NoRun
<1> HIDE DEF d
<1>3. Stored(c, d)'
  BY <1>2 DEF Stored
<1>4. \A x \in Sources \ {c} : Undisturbed(x)
  BY DEF Start, Undisturbed
<1>5. alone' \subseteq Sources
  BY DEF Start, MirrorInv
<1> QED BY <1>1, <1>3, <1>4, <1>5, RunMirror DEF MirrorInv, AdminScope

LEMMA UsersMirror ==
  ASSUME MirrorInv, NEW c \in Sources, run \in [Sources -> Run],
         FetchUsers(c) \/ BadUser(c) \/ LookUpName(c) \/ UserFault(c)
  PROVE  MirrorInv'
<1> DEFINE r == run[c]
<1>1. Knows(c, r)
  BY DEF MirrorInv
<1>2. UNCHANGED <<user, group, admin, alone>>
  BY DEF FetchUsers, BadUser, LookUpName, UserFault
<1>3. CASE FetchUsers(c)
  <2>1. CASE End(c)
    BY <1>2, <2>1, EndMirror
  <2>2. ASSUME NEW ids \in SUBSET Of(c), NEW junk \in BOOLEAN,
               Set(c, [r EXCEPT !.pc = IF ids = {} THEN "unseen" ELSE "user",
                                !.left = ids, !.seen = ids, !.clean = ~junk])
        PROVE  MirrorInv'
    <3> DEFINE d == [r EXCEPT !.pc = IF ids = {} THEN "unseen" ELSE "user",
                              !.left = ids, !.seen = ids, !.clean = ~junk]
    <3>1. Goes(c, d)
      BY <1>1, <1>3, <2>2, FetchKnows DEF Goes, FetchUsers
    <3>2. r \in Run /\ r.pc = "fetch" /\ r.ok = {} /\ r.clean
      BY <1>1, <1>3 DEF Knows, Progress, FetchUsers
    <3>3. d.ok = r.ok /\ d.census = r.census /\ d.pc \in {"unseen", "user"}
      BY <3>2 DEF Run
    <3> HIDE DEF d
    <3> QED BY <1>2, <3>1, <3>2, <3>3, QuietMirror
  <2> QED BY <1>3, <2>1, <2>2 DEF FetchUsers
<1>4. CASE BadUser(c)
  <2>1. PICK u \in r.left : Skip(c, [r EXCEPT !.cur = u], c \in Strict)
    BY <1>4 DEF BadUser
  <2> DEFINE d == [r EXCEPT !.cur = u]
  <2>2. SameRun(d, r) /\ r.pc = "user"
    BY <1>1, <1>4 DEF Knows, RunOK, Of, Run, SameRun, BadUser
  <2>3. Skip(c, d, c \in Strict)
    BY <2>1
  <2> HIDE DEF d, r
  <2> QED BY <1>1, <1>2, <2>2, <2>3, SkipKnows, UnusedMirror DEF r
<1>5. CASE LookUpName(c)
  <2>1. PICK u \in r.left, n \in Names :
          LET e == [r EXCEPT !.cur = u, !.name = n] IN
          IF Owners(n) \subseteq {u} THEN Set(c, [e EXCEPT !.pc = "write"]) ELSE Collide(c, e)
    BY <1>5 DEF LookUpName
  <2> DEFINE e == [r EXCEPT !.cur = u, !.name = n]
             d == [e EXCEPT !.pc = "write"]
  <2>2. r.pc = "user" /\ u \in Users /\ u \in Of(c)
    BY <1>1, <1>5 DEF Knows, RunOK, Of, LookUpName
  <2>3. SameRun(e, r) /\ e.listed = r.listed
    BY <1>1, <2>2 DEF Knows, Run, SameRun
  <2>4. Set(c, d) \/ Collide(c, e)
    BY <2>1
  <2>5. Knows(c, d)
    BY <1>1, <2>2, LookUpKnows
  <2>6. e.clean = r.clean
    BY <1>1 DEF Knows, Run
  <2> HIDE DEF e
  <2>7. d.pc = "write" /\ d.ok = e.ok /\ d.todo = e.todo /\ d.census = e.census /\ d.listed = e.listed
    BY <2>3 DEF SameRun, Run
  <2>8. d.clean = e.clean
    BY <2>3 DEF SameRun, Run
  <2> HIDE DEF d
  <2>9. Collide(c, e) => MirrorInv'
    BY <1>1, <1>2, <2>2, <2>3, CollideKnows, UnusedMirror
  <2>10. ASSUME Set(c, d) PROVE MirrorInv'
    <3>1. d.todo = d.ok
      BY <2>5, <2>7 DEF Knows, Progress
    <3> QED BY <1>2, <2>3, <2>5, <2>6, <2>7, <2>8, <2>10, <3>1, QuietMirror DEF Goes, SameRun
  <2> QED BY <2>4, <2>9, <2>10
<1>6. CASE UserFault(c)
  <2>1. r.pc = "write" /\ SameRun(r, r) /\ Skip(c, r, FALSE)
    BY <1>1, <1>6 DEF Knows, RunOK, Progress, SameRun, UserFault
  <2> HIDE DEF r
  <2> QED BY <1>1, <1>2, <2>1, SkipKnows, UnusedMirror DEF r
<1> QED BY <1>3, <1>4, <1>5, <1>6

LEMMA OtherSource ==
  ASSUME NEW c \in Sources, NEW u \in Of(c), UNCHANGED <<group, alone>>,
         \A v \in Users \ {u} : user'[v] = user[v]
  PROVE  \A x \in Sources \ {c} : Undisturbed(x)
  BY DEF Undisturbed, Of

LEMMA RowWritten ==
  ASSUME user \in [Users -> {None} \cup User], NEW u \in Users, NEW row \in User, user' = [user EXCEPT ![u] = row]
  PROVE  user'[u] = row /\ user'[u] # None /\ \A v \in Users \ {u} : user'[v] = user[v]
<1>1. user'[u] = row /\ \A v \in Users \ {u} : user'[v] = user[v]
  OBVIOUS
<1>2. row # None
  BY ONLY row \in User, NoneIsNoRow
<1> QED BY <1>1, <1>2

LEMMA RowReplaced ==
  ASSUME user \in [Users -> {None} \cup User], NEW u \in Users, user[u] # None, NEW ids \in SUBSET Groups,
         user' = [user EXCEPT ![u].groups = ids]
  PROVE  /\ user'[u] # None /\ user'[u].groups = ids /\ user'[u].active = user[u].active
         /\ \A v \in Users \ {u} : user'[v] = user[v]
<1> DEFINE row == [user[u] EXCEPT !.groups = ids]
<1>1. user[u] \in User
  OBVIOUS
<1>2. row \in User /\ row.groups = ids
  BY <1>1 DEF User
<1>3. row.active = user[u].active
  BY <1>1 DEF User
<1>4. user' = [user EXCEPT ![u] = row]
  OBVIOUS
<1> HIDE DEF row
<1> QED BY <1>2, <1>3, <1>4, RowWritten

LEMMA WriteUserMirror ==
  ASSUME DirectoryInv, MirrorInv, NEW c \in Sources, WriteUser(c)
  PROVE  MirrorInv'
<1> DEFINE r == run[c]
           u == r.cur
           e == [r EXCEPT !.ok = @ \cup {u}, !.todo = @ \cup {u}]
<1>1. /\ Knows(c, r) /\ r \in Run /\ r.pc = "write" /\ Stored(c, r) /\ run \in [Sources -> Run]
      /\ user \in [Users -> {None} \cup User]
  BY DEF MirrorInv, Knows, WriteUser, DirectoryInv, DirectoryTypes
<1>2. u \in r.left /\ u \in Of(c) /\ u \in Users /\ r.name \in Names
  BY <1>1 DEF Knows, RunOK, Progress, Of
<1>3. UNCHANGED <<group, admin, alone>>
  BY DEF WriteUser
<1>4. CASE Free(u, r.name) /\ (Accepted(c) \/ user[u] # None)
  <2>1. PICK act \in BOOLEAN :
          user' = [user EXCEPT ![u] = [name |-> r.name, active |-> act,
                                       groups |-> IF user[u] = None THEN {} ELSE user[u].groups]]
    BY <1>4 DEF WriteUser
  <2> DEFINE gs == IF user[u] = None THEN {} ELSE user[u].groups
             row == [name |-> r.name, active |-> act, groups |-> gs]
  <2>2. row \in User
    BY <1>1, <1>2 DEF User
  <2>12. user' = [user EXCEPT ![u] = row]
    BY <2>1
  <2> HIDE DEF row
  <2>3. user'[u] # None /\ \A v \in Users \ {u} : user'[v] = user[v]
    BY ONLY <1>1, <1>2, <2>2, <2>12, RowWritten
  <2>4. PICK d : d = Handled(e)
    OBVIOUS
  <2>5. Goes(c, d)
    BY <1>1, <1>4, <2>4, WriteKnows DEF WriteUser, Goes
  <2>6. /\ e \in Run /\ e.ok = r.ok \cup {u} /\ e.todo = r.todo \cup {u} /\ e.census = r.census
    BY <1>1, <1>2 DEF Run
  <2>7. e.clean = r.clean
    BY <1>1 DEF Run
  <2> HIDE DEF e
  <2>8. d.ok = r.ok \cup {u} /\ d.todo = r.todo \cup {u} /\ d.census = r.census /\ d.clean = r.clean
        /\ d.pc \in {"user", "member", "unseen"}
    BY <2>4, <2>6, <2>7, HandledFields
  <2>9. r.todo = r.ok /\ r.ok \subseteq Users
    BY <1>1 DEF Knows, Progress, Run
  <2> HIDE DEF r
  <2>10. Stored(c, d)'
    <3> SUFFICES ASSUME c \in alone, d.clean PROVE Stored(c, d)'
      BY <1>3 DEF Stored
    <3>1. d.ok \subseteq Rows'
      BY <1>1, <1>2, <2>3, <2>8, <2>9 DEF Stored, Rows
    <3>2. d.census \subseteq group'
      BY <1>1, <1>3, <2>8 DEF Stored
    <3> QED BY <2>8, <2>9, <3>1, <3>2 DEF Stored
  <2> QED BY <1>1, <1>2, <1>3, <2>3, <2>5, <2>10, OtherSource, RunMirror DEF MirrorInv, AdminScope
<1>5. CASE ~(Free(u, r.name) /\ (Accepted(c) \/ user[u] # None))
  <2>1. UNCHANGED user /\ (Skip(c, r, FALSE) \/ Collide(c, r))
    BY <1>5 DEF WriteUser
  <2>2. SameRun(r, r)
    BY <1>1, <1>2 DEF SameRun
  <2> HIDE DEF r
  <2> QED BY <1>1, <1>3, <2>1, <2>2, SkipKnows, CollideKnows, UnusedMirror DEF r
<1> QED BY <1>4, <1>5

LEMMA MembersMirror ==
  ASSUME DirectoryInv, MirrorInv, NEW c \in Sources, FetchFails(c) \/ BeginMembers(c) \/ UpsertGroup(c)
  PROVE  MirrorInv'
<1> DEFINE r == run[c]
<1>1. Knows(c, r) /\ r \in Run /\ Stored(c, r) /\ run \in [Sources -> Run]
  BY DEF MirrorInv, Knows, DirectoryInv, DirectoryTypes
<1>2. UNCHANGED <<user, admin, alone>>
  BY DEF FetchFails, BeginMembers, UpsertGroup
<1>3. CASE FetchFails(c)
  <2>1. PICK u \in r.todo :
          Set(c, Handled([r EXCEPT !.todo = @ \ {u}, !.failed = TRUE, !.clean = FALSE]))
    BY <1>3 DEF FetchFails
  <2> DEFINE e == [r EXCEPT !.todo = @ \ {u}, !.failed = TRUE, !.clean = FALSE]
  <2>2. Goes(c, Handled(e))
    BY <1>1, <1>3, <2>1, FetchFailsKnows DEF Goes, FetchFails
  <2>3. e \in Run
    BY <1>1 DEF Run, GroupsOf
  <2>4. e.clean = FALSE
    BY <1>1 DEF Run
  <2> HIDE DEF e
  <2>5. Handled(e).clean = FALSE
    BY <2>3, <2>4, HandledFields
  <2>6. UNCHANGED group
    BY <1>3 DEF FetchFails
  <2> QED BY <1>1, <1>2, <2>2, <2>5, <2>6, UnusedMirror
<1>4. CASE BeginMembers(c)
  <2>1. PICK u \in r.todo, gs \in SUBSET GroupsOf(c), read \in SUBSET GroupsOf(c) :
          read \subseteq gs /\
          Set(c, [r EXCEPT !.pc = IF read = {} THEN "replace" ELSE "upsert", !.cur = u, !.todo = @ \ {u},
                           !.want = read, !.listed[u] = gs, !.clean = @ /\ read = gs])
    BY <1>4 DEF BeginMembers
  <2>2. PICK d : d = Begun(r, u, gs, read)
    OBVIOUS
  <2>3. r.pc = "member" /\ UNCHANGED group
    BY <1>4 DEF BeginMembers
  <2>4. Knows(c, d) /\ Attends(r, d, u) /\ Set(c, d)
    <3>1. Set(c, d)
      BY <2>1, <2>2 DEF Begun
    <3>2. read \in SUBSET gs
      BY <2>1
    <3> HIDE DEF r
    <3> QED BY <1>1, <2>2, <2>3, <3>1, <3>2, BeginKnows
  <2>5. r.listed \in [Users -> SUBSET Groups] /\ r.ok \subseteq Users
    BY <1>1 DEF Run
  <2>6. \A v \in (d.ok \ d.todo) \ Current(d) : v \in (r.ok \ r.todo) \ Current(r) /\ d.listed[v] = r.listed[v]
    BY <2>3, <2>4, <2>5 DEF Current, Assigning, Attends
  <2>7. d.pc \notin {"drop", "orphans", "success"}
    BY <2>4 DEF Assigning, Attends
  <2> HIDE DEF r
  <2> QED BY <1>1, <1>2, <2>3, <2>4, <2>6, <2>7, QuietMirror DEF r, Attends, Goes
<1>5. CASE UpsertGroup(c)
  <2>1. PICK g \in r.want, fails \in BOOLEAN :
          LET e == [r EXCEPT !.want = @ \ {g}, !.census = @ \cup {g},
                             !.pc = IF r.want = {g} THEN "replace" ELSE "upsert"] IN
          IF fails \/ ~(Accepted(c) \/ g \in group)
          THEN Set(c, [e EXCEPT !.clean = FALSE]) /\ UNCHANGED group
          ELSE Set(c, [e EXCEPT !.ids = @ \cup {g}]) /\ group' = group \cup {g}
    BY <1>5 DEF UpsertGroup
  <2>2. r.pc = "upsert" /\ g \in GroupsOf(c)
    BY <1>1, <1>5 DEF UpsertGroup, Knows, RunOK
  <2>3. PICK n : n = Rejected(r, g)
    OBVIOUS
  <2>4. PICK y : y = Joined(r, g)
    OBVIOUS
  <2>5. Knows(c, n) /\ n.clean = FALSE /\ Knows(c, y) /\ Adds(r, y, g)
    <3> HIDE DEF r
    <3> QED BY <1>1, <2>2, <2>3, <2>4, UpsertKnows
  <2>6. \/ Set(c, n) /\ UNCHANGED group
        \/ Set(c, y) /\ group' = group \cup {g}
    BY <2>1, <2>3, <2>4 DEF Upserted, Rejected, Joined
  <2>7. CASE Set(c, n) /\ UNCHANGED group
    BY <1>1, <1>2, <2>5, <2>7, UnusedMirror DEF Goes
  <2>8. CASE Set(c, y) /\ group' = group \cup {g}
    <3>1. \A x \in Sources \ {c} : Undisturbed(x)
      BY <1>2, <2>2, <2>8 DEF Undisturbed, GroupsOf
    <3>2. Current(y) = Current(r)
      BY <2>2, <2>5 DEF Current, Assigning, Adds
    <3>3. Stored(c, y)'
      <4> HIDE DEF r
      <4>1. UNCHANGED Rows
        BY <1>2 DEF Rows
      <4> QED BY <1>1, <1>2, <2>5, <2>8, <3>2, <4>1 DEF Stored, Assigning, Adds
    <3> QED BY <1>1, <1>2, <2>5, <2>8, <3>1, <3>3, RunMirror DEF Goes, MirrorInv, AdminScope
  <2> QED BY <2>6, <2>7, <2>8
<1> QED BY <1>3, <1>4, <1>5

LEMMA ReplaceMirror ==
  ASSUME DirectoryInv, MirrorInv, NEW c \in Sources, ReplaceMembers(c)
  PROVE  MirrorInv'
<1> DEFINE r == run[c]
           u == r.cur
           e == [r EXCEPT !.ids = {}]
<1>1. /\ Knows(c, r) /\ r \in Run /\ r.pc = "replace" /\ Stored(c, r) /\ run \in [Sources -> Run]
      /\ user \in [Users -> {None} \cup User]
  BY DEF MirrorInv, Knows, ReplaceMembers, DirectoryInv, DirectoryTypes
<1>2. UNCHANGED <<group, admin, alone>>
  BY DEF ReplaceMembers
<1>3. CASE End(c) /\ UNCHANGED user
  BY <1>1, <1>2, <1>3, EndMirror
<1>4. CASE Set(c, Handled(e)) /\ user' = IF user[u] = None THEN user ELSE [user EXCEPT ![u].groups = r.ids]
  <2>1. u \in Of(c) /\ u \in Users /\ u \in r.ok \ r.todo /\ r.ok \subseteq Users
    BY <1>1 DEF Knows, RunOK, Progress, Assigning, Of, Run
  <2>2. PICK d : d = Handled(e)
    OBVIOUS
  <2>3. Goes(c, d)
    BY <1>1, <1>4, <2>2, ReplaceKnows DEF Goes
  <2>4. e \in Run /\ e.ok = r.ok /\ e.todo = r.todo /\ e.census = r.census /\ e.listed = r.listed
    BY <1>1 DEF Run
  <2>5. e.clean = r.clean
    BY <1>1 DEF Run
  <2> HIDE DEF e
  <2>6. /\ d.ok = r.ok /\ d.todo = r.todo /\ d.census = r.census /\ d.listed = r.listed /\ d.clean = r.clean
        /\ d.pc \in {"user", "member", "unseen"}
    BY <2>2, <2>4, <2>5, HandledFields
  <2>7. \A v \in Users \ {u} : user'[v] = user[v]
    BY <1>1, <1>4, <2>1
  <2>8. user[u] # None => user'[u] # None /\ user'[u].groups = r.ids
    <3>1. r.ids \in SUBSET Groups
      BY <1>1 DEF Run
    <3> QED BY ONLY <1>1, <1>4, <2>1, <3>1, RowReplaced
  <2>9. r.clean => r.ids = r.listed[u]
    BY <1>1 DEF Knows, Progress, Clean, Assigning
  <2>10. Current(r) = {u} /\ Current(d) = {}
    BY <1>1, <2>6 DEF Current, Assigning
  <2> HIDE DEF r, u
  <2>11. Stored(c, d)'
    <3> SUFFICES ASSUME c \in alone, d.clean PROVE Stored(c, d)'
      BY <1>2 DEF Stored
    <3>1. r.ok \subseteq Rows /\ r.census \subseteq group
          /\ \A v \in (r.ok \ r.todo) \ {u} : user[v].groups = r.listed[v]
      BY <1>1, <2>6, <2>10 DEF Stored
    <3>2. r.ok \subseteq Rows' /\ \A v \in r.ok \ r.todo : user'[v].groups = r.listed[v]
      BY <2>1, <2>6, <2>7, <2>8, <2>9, <3>1 DEF Rows
    <3> QED BY <1>2, <2>6, <3>1, <3>2 DEF Stored
  <2> QED BY <1>1, <1>2, <2>1, <2>3, <2>7, <2>11, OtherSource, RunMirror DEF MirrorInv, AdminScope
<1> QED BY <1>3, <1>4 DEF ReplaceMembers

LEMMA FindUnseenMirror ==
  ASSUME DirectoryInv, MirrorInv, NEW c \in Sources, FindUnseen(c)
  PROVE  MirrorInv'
<1> DEFINE r == run[c]
<1>1. /\ Knows(c, r) /\ r \in Run /\ r.pc = "unseen" /\ Stored(c, r) /\ run \in [Sources -> Run]
  BY DEF MirrorInv, Knows, FindUnseen, DirectoryInv, DirectoryTypes
<1>2. UNCHANGED <<user, group, admin, alone>>
  BY DEF FindUnseen
<1>3. PICK drop : drop = {u \in Scope(c) \cap Rows : user[u].active /\ u \notin r.seen}
  OBVIOUS
<1>4. PICK pc : pc = IF drop = {} THEN "orphans" ELSE "drop"
  OBVIOUS
<1>5. PICK d : d = Turned(r, pc, drop)
  OBVIOUS
<1>6. Set(c, d)
  BY <1>3, <1>4, <1>5 DEF FindUnseen, Turned
<1> HIDE DEF r
<1>7. drop \subseteq Of(c) /\ drop \cap r.seen = {} /\ pc \in {"drop", "orphans"} /\ (pc # "drop" => drop = {})
  BY <1>3, <1>4 DEF Scope
<1>8. Knows(c, d) /\ Turns(r, d, pc, drop)
  BY <1>1, <1>5, <1>7, UnseenKnows
<1>9. r.todo = {}
  BY <1>1 DEF Knows, Progress
<1>10. Current(d) = {} /\ Current(r) = {}
  BY <1>1, <1>7, <1>8 DEF Turns, Current, Assigning
<1>11. Stored(c, d)'
  <2> SUFFICES ASSUME c \in alone, d.clean PROVE Stored(c, d)'
    BY <1>2 DEF Stored
  <2>1. \A u \in Of(c) \cap Rows : user[u].active => u \in d.seen \cup d.drop
    BY <1>3, <1>8 DEF Turns, Scope
  <2> QED BY <1>1, <1>2, <1>7, <1>8, <1>10, <2>1 DEF Stored, Turns, Rows
<1> QED BY <1>1, <1>2, <1>6, <1>8, <1>11, RunMirror, Quiet DEF Goes, MirrorInv, AdminScope

LEMMA DeactivateMirror ==
  ASSUME DirectoryInv, MirrorInv, NEW c \in Sources, Deactivate(c)
  PROVE  MirrorInv'
<1> DEFINE r == run[c]
<1>1. /\ Knows(c, r) /\ r \in Run /\ r.pc = "drop" /\ Stored(c, r) /\ run \in [Sources -> Run]
      /\ user \in [Users -> {None} \cup User]
  BY DEF MirrorInv, Knows, Deactivate, DirectoryInv, DirectoryTypes
<1>2. UNCHANGED <<group, admin, alone>>
  BY DEF Deactivate
<1>3. PICK u \in r.drop :
          IF user[u] = None THEN End(c) /\ UNCHANGED user
          ELSE /\ user' = [user EXCEPT ![u] = Deactivated(u)]
               /\ Set(c, [r EXCEPT !.drop = @ \ {u}, !.pc = IF r.drop = {u} THEN "orphans" ELSE "drop"])
  BY DEF Deactivate
<1>4. u \in Of(c) /\ u \in Users /\ u \notin r.seen /\ r.ok \subseteq r.seen
  BY <1>1 DEF Knows, RunOK, Progress, Of
<1>5. CASE user[u] = None
  BY <1>1, <1>2, <1>3, <1>5, EndMirror
<1>6. CASE user[u] # None
  <2>1. PICK pc : pc = IF r.drop = {u} THEN "orphans" ELSE "drop"
    OBVIOUS
  <2>2. PICK drop : drop = r.drop \ {u}
    OBVIOUS
  <2>3. PICK d : d = Turned(r, pc, drop)
    OBVIOUS
  <2>4. d = [r EXCEPT !.drop = @ \ {u}, !.pc = IF r.drop = {u} THEN "orphans" ELSE "drop"]
    <3> HIDE DEF r
    <3> QED BY <1>1, <2>1, <2>2, <2>3 DEF Turned, Run
  <2>5. Set(c, d) /\ user' = [user EXCEPT ![u] = Deactivated(u)]
    BY <1>3, <1>6, <2>4
  <2> HIDE DEF r
  <2>6. /\ drop \subseteq Of(c) /\ drop \cap r.seen = {} /\ pc \in {"drop", "orphans"}
        /\ (pc # "drop" => drop = {}) /\ r.todo = {}
    BY <1>1, <2>1, <2>2 DEF Knows, RunOK, Progress
  <2>7. Knows(c, d) /\ Turns(r, d, pc, drop)
    BY <1>1, <2>3, <2>6, UnseenKnows
  <2>8. /\ user'[u] # None /\ user'[u].active = FALSE /\ \A v \in Users \ {u} : user'[v] = user[v]
    <3>1. user[u] \in User
      BY <1>1, <1>4, <1>6
    <3>2. Deactivated(u) \in User
      BY <1>4, <3>1, DeactivatedRow
    <3>3. Deactivated(u).active = FALSE
      BY <3>1 DEF Deactivated, User
    <3> QED BY <1>1, <1>4, <2>5, <3>2, <3>3, RowWritten
  <2>9. Current(d) = {} /\ Current(r) = {}
    BY <1>1, <2>6, <2>7 DEF Turns, Current, Assigning
  <2>10. Stored(c, d)'
    <3> SUFFICES ASSUME c \in alone, d.clean PROVE Stored(c, d)'
      BY <1>2 DEF Stored
    <3>1. /\ r.ok \subseteq Rows /\ r.census \subseteq group /\ \A v \in r.ok : user[v].groups = r.listed[v]
          /\ \A v \in Of(c) \cap Rows : user[v].active => v \in r.seen \cup r.drop
      BY <1>1, <2>6, <2>7, <2>9 DEF Stored, Turns
    <3>2. r.ok \subseteq Rows' /\ \A v \in r.ok : user'[v].groups = r.listed[v]
      BY <1>4, <2>8, <3>1 DEF Rows
    <3>3. \A v \in Of(c) \cap Rows' : user'[v].active => v \in r.seen \cup drop
      BY <2>2, <2>8, <3>1 DEF Rows
    <3> QED BY <1>2, <2>6, <2>7, <3>1, <3>2, <3>3 DEF Stored, Turns
  <2> QED BY <1>1, <1>2, <1>4, <2>5, <2>7, <2>8, <2>10, OtherSource, RunMirror DEF Goes, MirrorInv, AdminScope
<1> QED BY <1>5, <1>6

LEMMA OrphansMirror ==
  ASSUME DirectoryInv, MirrorInv, NEW c \in Sources, DeleteOrphans(c)
  PROVE  MirrorInv'
<1> DEFINE r == run[c]
<1>1. /\ Knows(c, r) /\ r \in Run /\ r.pc = "orphans" /\ Stored(c, r) /\ run \in [Sources -> Run]
      /\ user \in [Users -> {None} \cup User]
  BY DEF MirrorInv, Knows, DeleteOrphans, DirectoryInv, DirectoryTypes
<1>2. /\ UNCHANGED <<admin, alone>> /\ group' = group \ Orphans(c) /\ user' = Without(Orphans(c))
      /\ Set(c, [r EXCEPT !.pc = "success"])
  BY DEF DeleteOrphans
<1>3. PICK d : d = Turned(r, "success", {})
  OBVIOUS
<1>4. Orphans(c) \subseteq GroupsOf(c) /\ (~r.failed => Orphans(c) = GroupsOf(c) \ r.census)
  BY DEF Orphans
<1> HIDE DEF r
<1>5. r.todo = {} /\ r.drop = {} /\ r.want = {}
  BY <1>1 DEF Knows, Progress
<1>6. d = [r EXCEPT !.pc = "success"]
  BY <1>1, <1>3, <1>5 DEF Turned, Run
<1>7. Knows(c, d) /\ Turns(r, d, "success", {})
  BY <1>1, <1>3, UnseenKnows
<1>8. \A v \in Users : /\ user[v] = None <=> user'[v] = None
                       /\ user[v] # None => /\ user'[v].groups = user[v].groups \ Orphans(c)
                                            /\ user'[v].active = user[v].active
  <2> SUFFICES ASSUME NEW v \in Users
               PROVE  /\ user[v] = None <=> user'[v] = None
                      /\ user[v] # None => /\ user'[v].groups = user[v].groups \ Orphans(c)
                                           /\ user'[v].active = user[v].active
    OBVIOUS
  <2>1. CASE user[v] = None
    BY <1>2, <2>1 DEF Without
  <2>2. CASE user[v] # None
    <3>1. user[v] \in User
      BY <1>1, <2>2
    <3>2. Without(Orphans(c))[v] \in User /\ Without(Orphans(c))[v].groups = user[v].groups \ Orphans(c)
      BY <3>1, WithoutRow
    <3>3. Without(Orphans(c))[v] = [user[v] EXCEPT !.groups = @ \ Orphans(c)]
      BY <2>2 DEF Without
    <3>4. Without(Orphans(c))[v].active = user[v].active
      BY <3>1, <3>3 DEF User
    <3>5. Without(Orphans(c))[v] # None
      BY ONLY <3>2, NoneIsNoRow
    <3> QED BY ONLY <1>2, <2>2, <3>2, <3>4, <3>5
  <2> QED BY <2>1, <2>2
<1>9. \A x \in Sources \ {c} : Undisturbed(x)
  BY <1>2, <1>4, <1>8 DEF Undisturbed, Of, GroupsOf
<1>10. Stored(c, d)'
  <2> SUFFICES ASSUME c \in alone, d.clean PROVE Stored(c, d)'
    BY <1>2 DEF Stored
  <2>1. r.clean /\ ~r.failed /\ Orphans(c) = GroupsOf(c) \ r.census
    BY <1>1, <1>4, <1>7 DEF Turns, Knows, Clean
  <2>2. /\ r.ok \subseteq Rows /\ r.census \subseteq group /\ \A v \in r.ok : user[v].groups = r.listed[v]
        /\ \A v \in Of(c) \cap Rows : user[v].active => v \in r.seen
    BY <1>1, <1>5, <2>1 DEF Stored, Current, Assigning
  <2>3. \A v \in r.ok : r.listed[v] \subseteq r.census
    BY <1>1, <1>5, <2>1 DEF Knows, Census
  <2>4. r.ok \subseteq Rows' /\ \A v \in r.ok : user'[v].groups = r.listed[v]
    <3>1. r.ok \subseteq Rows'
      BY <1>8, <2>2 DEF Rows
    <3>2. ASSUME NEW v \in r.ok PROVE user'[v].groups = r.listed[v]
      <4>1. user'[v].groups = user[v].groups \ Orphans(c)
        BY <1>8, <2>2 DEF Rows
      <4>2. user[v].groups \cap Orphans(c) = {}
        BY <2>1, <2>2, <2>3
      <4>3. user[v].groups = r.listed[v]
        BY <2>2
      <4> QED BY ONLY <4>1, <4>2, <4>3
    <3> QED BY <3>1, <3>2
  <2>5. \A v \in Of(c) \cap Rows' : user'[v].active => v \in r.seen
    BY <1>8, <2>2 DEF Rows
  <2>6. r.census \subseteq group' /\ group' \cap GroupsOf(c) \subseteq r.census
    BY <1>2, <2>1, <2>2
  <2> QED BY <1>5, <1>7, <2>4, <2>5, <2>6 DEF Stored, Turns
<1> QED BY <1>1, <1>2, <1>6, <1>7, <1>9, <1>10, RunMirror DEF Goes, MirrorInv, AdminScope

-----------------------------------------------------------------------------
(* The administrator and the pool leave the runs alone.                    *)

LEMMA StillMirror ==
  ASSUME MirrorInv, UNCHANGED run, AdminScope', alone' \subseteq Sources,
         \A x \in Sources \cap alone' : Undisturbed(x)
  PROVE  MirrorInv'
<1>1. ASSUME NEW x \in Sources PROVE Stored(x, run[x])'
  <2>1. CASE x \in alone'
    BY <2>1, UndisturbedStored DEF MirrorInv
  <2>2. CASE x \notin alone'
    BY <2>2 DEF Stored
  <2> QED BY <2>1, <2>2
<1>2. \A x \in Sources : Knows(x, run'[x])
  BY DEF MirrorInv
<1> QED BY <1>1, <1>2 DEF MirrorInv

LEMMA BeginsMirror ==
  ASSUME DirectoryInv, MirrorInv, \/ \E c \in Sources : BeginDeactivate(c) \/ BeginDisconnect(c)
                                  \/ \E u \in Users, n \in Names : BeginManual(u, n)
  PROVE  MirrorInv'
<1>1. UNCHANGED <<conns, user, group, run, pool, alone>>
  BY DEF BeginDeactivate, BeginDisconnect, BeginManual, Begin
<1>2. AdminScope'
  BY DEF BeginDeactivate, BeginDisconnect, BeginManual, Begin, NoAdmin, AdminScope
<1> QED BY <1>1, <1>2, Quiet, StillMirror DEF MirrorInv

LEMMA NoAdminScope ==
  ASSUME admin' = NoAdmin
  PROVE  AdminScope'
  BY DEF NoAdmin, AdminScope

LEMMA ManualMirror ==
  ASSUME DirectoryInv, MirrorInv, WriteManual \/ \E u \in Users : DeleteManual(u)
  PROVE  MirrorInv'
<1>1. user \in [Users -> {None} \cup User]
  BY DEF DirectoryInv, DirectoryTypes
<1>2. ASSUME NEW u \in Users, Home[u] = Local, \A v \in Users \ {u} : user'[v] = user[v],
             UNCHANGED <<group, run, alone>>, AdminScope'
      PROVE  MirrorInv'
  <2>1. \A x \in Sources : Undisturbed(x)
    <3>1. ASSUME NEW x \in Sources, NEW v \in Of(x) PROVE user'[v] = user[v]
      <4>1. v \in Users /\ Home[v] = x /\ x # Local
        BY DEF Of
      <4> QED BY ONLY <1>2, <4>1
    <3> QED BY <1>2, <3>1 DEF Undisturbed
  <2> QED BY <1>2, <2>1, StillMirror DEF MirrorInv
<1>3. CASE WriteManual
  <2>1. admin.of \in Users /\ Home[admin.of] = Local
    BY <1>3 DEF WriteManual, DirectoryInv, AdminOK, Of
  <2>2. \A v \in Users \ {admin.of} : user'[v] = user[v]
    BY <1>1, <1>3, <2>1 DEF WriteManual
  <2> QED BY <1>2, <1>3, <2>1, <2>2, NoAdminScope DEF WriteManual
<1>4. ASSUME NEW u \in Users, DeleteManual(u) PROVE MirrorInv'
  <2>1. Home[u] = Local /\ UNCHANGED <<group, run, alone>> /\ \A v \in Users \ {u} : user'[v] = user[v]
    BY <1>1, <1>4 DEF DeleteManual
  <2>2. AdminScope'
    BY <1>4 DEF DeleteManual, MirrorInv, AdminScope
  <2> QED BY <1>2, <2>1, <2>2
<1> QED BY <1>3, <1>4

LEMMA SourceMirror ==
  ASSUME DirectoryInv, MirrorInv, DeactivateSource \/ Disconnect \/ \E c \in Sources : DeleteIdentities(c)
  PROVE  MirrorInv'
<1>1. CASE DeactivateSource
  <2>1. /\ user' = [u \in Users |-> IF u \in admin.ids /\ user[u] # None THEN Deactivated(u) ELSE user[u]]
        /\ admin' = NoAdmin /\ alone' = alone \ {admin.of} /\ UNCHANGED <<group, run>>
        /\ admin.of \in Sources /\ admin.ids \subseteq Of(admin.of)
    BY <1>1 DEF DeactivateSource, MirrorInv, AdminScope
  <2>2. \A x \in Sources \cap alone' : \A u \in Of(x) : user'[u] = user[u]
    BY <2>1 DEF Of
  <2>3. \A x \in Sources \cap alone' : Undisturbed(x)
    BY <2>1, <2>2 DEF Undisturbed
  <2> QED BY <2>1, <2>3, NoAdminScope, StillMirror DEF MirrorInv
<1>2. CASE Disconnect
  BY <1>2, NoAdminScope, Quiet, StillMirror DEF Disconnect, MirrorInv
<1>3. ASSUME NEW c \in Sources, DeleteIdentities(c) PROVE MirrorInv'
  <2>1. /\ user' = [u \in Users |-> IF Home[u] = c THEN None ELSE user[u]]
        /\ group' = group \ GroupsOf(c) /\ alone' = alone \ {c} /\ UNCHANGED <<run, admin>>
    BY <1>3 DEF DeleteIdentities
  <2>2. \A x \in Sources \cap alone' : /\ \A u \in Of(x) : user'[u] = user[u]
                                       /\ group' \cap GroupsOf(x) = group \cap GroupsOf(x)
    BY <2>1 DEF Of, GroupsOf
  <2>3. \A x \in Sources \cap alone' : Undisturbed(x)
    BY <2>1, <2>2 DEF Undisturbed
  <2> QED BY <2>1, <2>3, StillMirror DEF MirrorInv, AdminScope
<1> QED BY <1>1, <1>2, <1>3

LEMMA InitMirrorInv == Init => MirrorInv
<1> SUFFICES ASSUME Init PROVE MirrorInv
  OBVIOUS
<1>1. \A c \in Sources : Knows(c, run[c])
  BY NoRunKnows DEF Init
<1> QED BY <1>1 DEF Init, MirrorInv, Stored, AdminScope, NoAdmin

LEMMA NextMirrorInv ==
  ASSUME DirectoryInv, MirrorInv, [Next]_vars
  PROVE  MirrorInv'
<1>1. conns \subseteq Sources /\ run \in [Sources -> Run]
  BY DEF DirectoryInv, DirectoryTypes
<1>2. ASSUME NEW c \in Sources, Trigger(c) PROVE MirrorInv'
  BY <1>1, <1>2, StartMirror DEF Trigger
<1>3. ASSUME SyncAllNext PROVE MirrorInv'
  <2>1. UNCHANGED <<conns, user, group, admin>>
    BY <1>3 DEF SyncAllNext
  <2>2. PICK c \in pool.queue : (c \in conns /\ Start(c, TRUE)) \/ UNCHANGED <<run, alone>>
    BY <1>3 DEF SyncAllNext
  <2>3. CASE UNCHANGED <<run, alone>>
    BY <2>1, <2>3, Quiet, StillMirror DEF MirrorInv, AdminScope
  <2> QED BY <1>1, <2>1, <2>2, <2>3, StartMirror
<1>4. CASE StartSyncAll \/ UNCHANGED vars
  BY <1>4, Quiet, StillMirror DEF StartSyncAll, vars, MirrorInv, AdminScope
<1>5. ASSUME NEW c \in Sources, RunStep(c) PROVE MirrorInv'
  <2>1. CASE Succeed(c) \/ RunFault(c)
    BY <1>1, <2>1, EndMirror DEF Succeed, RunFault
  <2> QED BY <1>1, <1>5, <2>1, UsersMirror, WriteUserMirror, MembersMirror, ReplaceMirror, FindUnseenMirror,
             DeactivateMirror, OrphansMirror DEF RunStep
<1> QED BY <1>2, <1>3, <1>4, <1>5, BeginsMirror, ManualMirror, SourceMirror DEF Next, AdminStep

\* A run in which nothing failed leaves its source's part of the directory as the source answered, whatever
\* the runs of the other sources and the administrator do meanwhile, short of removing the identities.
THEOREM MirrorsSource == Spec => []SuccessMirrors
<1>1. Init => DirectoryInv /\ MirrorInv
  BY InitDirectoryInv, InitMirrorInv
<1>2. DirectoryInv /\ MirrorInv /\ [Next]_vars => (DirectoryInv /\ MirrorInv)'
  BY NextDirectoryInv, NextMirrorInv
<1>3. DirectoryInv /\ MirrorInv => SuccessMirrors
  <2> SUFFICES ASSUME MirrorInv, NEW c \in Sources \cap alone, run[c].pc = "success", run[c].clean
               PROVE  /\ \A u \in Of(c) \cap Rows : user[u].active => u \in run[c].seen
                      /\ \A u \in run[c].seen : u \in Rows /\ user[u].groups = run[c].listed[u]
                      /\ group \cap GroupsOf(c) = UNION {run[c].listed[u] : u \in run[c].seen}
    BY DEF SuccessMirrors
  <2> DEFINE r == run[c]
  <2>1. Knows(c, r) /\ Stored(c, r) /\ r.pc = "success" /\ r.clean
    BY DEF MirrorInv
  <2> HIDE DEF r
  <2>2. /\ r.todo = {} /\ r.left = {} /\ r.drop = {} /\ r.want = {} /\ r.census \subseteq GroupsOf(c)
        /\ r.seen = r.ok /\ ~r.failed /\ Current(r) = {}
        /\ \A g \in r.census : \E u \in r.seen : g \in r.listed[u]
    BY <2>1 DEF Knows, Progress, Clean, Current, Assigning
  <2>3. \A u \in r.seen : r.listed[u] \subseteq r.census
    BY <2>1, <2>2 DEF Knows, Census
  <2>4. /\ r.ok \subseteq Rows /\ \A u \in r.ok : user[u].groups = r.listed[u]
        /\ \A u \in Of(c) \cap Rows : user[u].active => u \in r.seen
        /\ r.census \subseteq group /\ group \cap GroupsOf(c) \subseteq r.census
    BY <2>1, <2>2 DEF Stored
  <2>5. group \cap GroupsOf(c) = r.census
    BY <2>2, <2>4
  <2>6. UNION {r.listed[u] : u \in r.seen} = r.census
    BY <2>2, <2>3
  <2> QED BY <2>2, <2>4, <2>5, <2>6 DEF r
<1> QED BY <1>1, <1>2, <1>3, PTL DEF Spec

-----------------------------------------------------------------------------
(* The pool of "sync all".                                                 *)

\* The run of c goes on, and the pool is as it was.
GoesOn(c) == \E d : Set(c, d) /\ (d.all <=> run[c].all) /\ d.pc # "idle" /\ UNCHANGED pool

LEMMA HandledAll ==
  ASSUME NEW r \in Run
  PROVE  Handled(r).all = r.all /\ Handled(r).pc # "idle"
<1> DEFINE s == [r EXCEPT !.left = @ \ {r.cur}, !.cur = None, !.name = None]
           d == [s EXCEPT !.pc = Onward(s)]
<1>1. s \in Run
  BY DEF Run
<1>2. s.all = r.all
  BY DEF Run
<1> HIDE DEF s
<1>3. d.all = s.all
  BY <1>1 DEF Run
<1>4. d.pc # "idle"
  BY <1>1 DEF Run, Onward
<1>5. Handled(r) = d
  BY DEF Handled, s
<1> HIDE DEF d
<1> QED BY <1>2, <1>3, <1>4, <1>5

LEMMA SkipGoesOn ==
  ASSUME NEW c \in Sources, NEW r \in Run, r.all = run[c].all, NEW strict, Skip(c, r, strict)
  PROVE  End(c) \/ GoesOn(c)
<1> DEFINE e == [r EXCEPT !.clean = FALSE]
<1>1. e \in Run
  BY DEF Run
<1>2. e.all = r.all
  BY DEF Run
<1>3. End(c) \/ (Set(c, Handled(e)) /\ UNCHANGED pool)
  BY DEF Skip
<1> HIDE DEF e
<1> QED BY <1>1, <1>2, <1>3, HandledAll DEF GoesOn

LEMMA CollideGoesOn ==
  ASSUME NEW c \in Sources, NEW r \in Run, r.all = run[c].all, r.cur \in Users, Collide(c, r)
  PROVE  End(c) \/ GoesOn(c)
  BY SkipGoesOn DEF Collide

LEMMA RunStepGoesOn ==
  ASSUME DirectoryInv, NEW c \in Sources, RunStep(c)
  PROVE  run[c].pc # "idle" /\ (End(c) \/ GoesOn(c))
<1> DEFINE r == run[c]
<1>1. r \in Run /\ RunOK(c, r)
  BY DEF DirectoryInv, DirectoryTypes, RunsOK
<1>2. r.pc # "idle"
  BY DEF RunStep, FetchUsers, BadUser, LookUpName, WriteUser, UserFault, FetchFails, BeginMembers, UpsertGroup,
         ReplaceMembers, FindUnseen, Deactivate, DeleteOrphans, Succeed, RunFault
<1>3. r.left \cup r.todo \cup r.drop \subseteq Users
  BY <1>1 DEF RunOK, Of
<1> SUFFICES End(c) \/ GoesOn(c)
  BY <1>2
<1>4. CASE FetchUsers(c)
  <2>1. CASE End(c)
    BY <2>1
  <2>2. ASSUME NEW ids \in SUBSET Of(c), NEW junk \in BOOLEAN,
               Set(c, [r EXCEPT !.pc = IF ids = {} THEN "unseen" ELSE "user",
                                !.left = ids, !.seen = ids, !.clean = ~junk]), UNCHANGED pool
        PROVE  GoesOn(c)
    <3> DEFINE d(pc) == [r EXCEPT !.pc = pc, !.left = ids, !.seen = ids, !.clean = ~junk]
    <3>1. ASSUME NEW pc \in {"unseen", "user"} PROVE d(pc).all = r.all /\ d(pc).pc # "idle"
      BY <1>1 DEF Run
    <3>2. \E pc \in {"unseen", "user"} : Set(c, d(pc))
      BY <2>2
    <3> HIDE DEF d
    <3> QED BY <2>2, <3>1, <3>2 DEF GoesOn
  <2> QED BY <1>4, <2>1, <2>2 DEF FetchUsers
<1>5. CASE BadUser(c)
  <2>1. PICK u \in r.left : Skip(c, [r EXCEPT !.cur = u], c \in Strict)
    BY <1>5 DEF BadUser
  <2> DEFINE d == [r EXCEPT !.cur = u]
  <2>2. d \in Run
    BY <1>1, <1>3 DEF Run
  <2>3. d.all = r.all
    BY <1>1 DEF Run
  <2>4. Skip(c, d, c \in Strict)
    BY <2>1
  <2> HIDE DEF d
  <2> QED BY <2>2, <2>3, <2>4, SkipGoesOn
<1>6. CASE LookUpName(c)
  <2>1. PICK u \in r.left, n \in Names :
          LET e == [r EXCEPT !.cur = u, !.name = n] IN
          IF Owners(n) \subseteq {u} THEN Set(c, [e EXCEPT !.pc = "write"]) /\ UNCHANGED pool ELSE Collide(c, e)
    BY <1>6 DEF LookUpName
  <2> DEFINE e == [r EXCEPT !.cur = u, !.name = n]
             d == [e EXCEPT !.pc = "write"]
  <2>2. e \in Run /\ e.cur \in Users
    BY <1>1, <1>3 DEF Run
  <2>3. e.all = r.all
    BY <1>1 DEF Run
  <2>4. (Set(c, d) /\ UNCHANGED pool) \/ Collide(c, e)
    BY <2>1
  <2> HIDE DEF e
  <2>5. d.pc = "write"
    BY <2>2 DEF Run
  <2>6. d.all = e.all
    BY <2>2 DEF Run
  <2> HIDE DEF d
  <2> QED BY <2>2, <2>3, <2>4, <2>5, <2>6, CollideGoesOn DEF GoesOn
<1>7. CASE WriteUser(c)
  <2> DEFINE u == r.cur
             e == [r EXCEPT !.ok = @ \cup {u}, !.todo = @ \cup {u}]
  <2>1. u \in Users
    BY <1>1, <1>7 DEF WriteUser, RunOK, Of
  <2>2. e \in Run
    BY <1>1, <2>1 DEF Run
  <2>3. e.all = r.all
    BY <1>1 DEF Run
  <2>4. (Set(c, Handled(e)) /\ UNCHANGED pool) \/ Skip(c, r, FALSE) \/ Collide(c, r)
    BY <1>7 DEF WriteUser
  <2> HIDE DEF e
  <2> QED BY <1>1, <2>1, <2>2, <2>3, <2>4, HandledAll, SkipGoesOn, CollideGoesOn DEF GoesOn
<1>8. CASE UserFault(c)
  BY <1>1, <1>8, SkipGoesOn DEF UserFault
<1>9. CASE FetchFails(c)
  <2>1. PICK u \in r.todo :
          /\ Set(c, Handled([r EXCEPT !.todo = @ \ {u}, !.failed = TRUE, !.clean = FALSE]))
          /\ UNCHANGED pool
    BY <1>9 DEF FetchFails
  <2> DEFINE e == [r EXCEPT !.todo = @ \ {u}, !.failed = TRUE, !.clean = FALSE]
  <2>2. e \in Run
    BY <1>1 DEF Run, GroupsOf
  <2>3. e.all = r.all
    BY <1>1 DEF Run
  <2>4. Set(c, Handled(e)) /\ UNCHANGED pool
    BY <2>1
  <2> HIDE DEF e
  <2> QED BY <2>2, <2>3, <2>4, HandledAll DEF GoesOn
<1>10. CASE BeginMembers(c)
  <2>1. PICK u \in r.todo, gs \in SUBSET GroupsOf(c), read \in SUBSET GroupsOf(c) :
          Set(c, Begun(r, u, gs, read)) /\ UNCHANGED pool
    <3>1. PICK u \in r.todo, gs \in SUBSET GroupsOf(c) : \E read \in SUBSET gs :
            Set(c, Begun(r, u, gs, read)) /\ UNCHANGED pool
      BY <1>10 DEF BeginMembers, Begun
    <3>2. \A read \in SUBSET gs : read \in SUBSET GroupsOf(c)
      OBVIOUS
    <3> QED BY ONLY <3>1, <3>2
  <2>2. Begun(r, u, gs, read).all = r.all
    BY <1>1 DEF Run, Begun
  <2>3. Begun(r, u, gs, read).pc # "idle"
    BY <1>1 DEF Run, Begun
  <2> QED BY <2>1, <2>2, <2>3 DEF GoesOn
<1>11. CASE UpsertGroup(c)
  <2>1. PICK g \in r.want : (Set(c, Rejected(r, g)) \/ Set(c, Joined(r, g))) /\ UNCHANGED pool
    BY <1>11 DEF UpsertGroup, Upserted, Rejected, Joined
  <2> DEFINE e == Upserted(r, g)
  <2>2. e \in Run
    BY <1>1 DEF Run, Upserted
  <2>3. e.all = r.all
    BY <1>1 DEF Run, Upserted
  <2>4. e.pc # "idle"
    BY <1>1 DEF Run, Upserted
  <2>5. Rejected(r, g) = [e EXCEPT !.clean = FALSE] /\ Joined(r, g) = [e EXCEPT !.ids = @ \cup {g}]
    BY DEF Rejected, Joined
  <2> HIDE DEF e
  <2>6. Rejected(r, g).all = e.all /\ Joined(r, g).all = e.all
    BY <2>2, <2>5 DEF Run
  <2>7. Rejected(r, g).pc = e.pc /\ Joined(r, g).pc = e.pc
    BY <2>2, <2>5 DEF Run
  <2> QED BY <2>1, <2>3, <2>4, <2>6, <2>7 DEF GoesOn
<1>12. CASE ReplaceMembers(c)
  <2> DEFINE e == [r EXCEPT !.ids = {}]
  <2>1. e \in Run
    BY <1>1 DEF Run
  <2>2. e.all = r.all
    BY <1>1 DEF Run
  <2>3. End(c) \/ (Set(c, Handled(e)) /\ UNCHANGED pool)
    BY <1>12 DEF ReplaceMembers
  <2> HIDE DEF e
  <2> QED BY <2>1, <2>2, <2>3, HandledAll DEF GoesOn
<1>13. CASE FindUnseen(c)
  <2> DEFINE d(pc, drop) == [r EXCEPT !.pc = pc, !.drop = drop]
  <2>1. \E drop : \E pc \in {"orphans", "drop"} : Set(c, d(pc, drop)) /\ UNCHANGED pool
    BY <1>13 DEF FindUnseen
  <2>2. \A drop : \A pc \in {"orphans", "drop"} : d(pc, drop).all = r.all /\ d(pc, drop).pc # "idle"
    BY <1>1 DEF Run
  <2> HIDE DEF d
  <2> QED BY <2>1, <2>2 DEF GoesOn
<1>14. CASE Deactivate(c)
  <2> DEFINE d(pc, drop) == [r EXCEPT !.drop = drop, !.pc = pc]
  <2>1. End(c) \/ \E drop : \E pc \in {"orphans", "drop"} : Set(c, d(pc, drop)) /\ UNCHANGED pool
    BY <1>14 DEF Deactivate
  <2>2. \A drop : \A pc \in {"orphans", "drop"} : d(pc, drop).all = r.all /\ d(pc, drop).pc # "idle"
    BY <1>1 DEF Run
  <2> HIDE DEF d
  <2> QED BY <2>1, <2>2 DEF GoesOn
<1>15. CASE DeleteOrphans(c)
  <2> DEFINE d == [r EXCEPT !.pc = "success"]
  <2>1. Set(c, d) /\ UNCHANGED pool
    BY <1>15 DEF DeleteOrphans
  <2>2. d.all = r.all
    BY <1>1 DEF Run
  <2>3. d.pc = "success"
    BY <1>1 DEF Run
  <2> HIDE DEF d
  <2> QED BY <2>1, <2>2, <2>3 DEF GoesOn
<1>16. CASE Succeed(c) \/ RunFault(c)
  BY <1>16 DEF Succeed, RunFault
<1> QED BY <1>4, <1>5, <1>6, <1>7, <1>8, <1>9, <1>10, <1>11, <1>12, <1>13, <1>14, <1>15, <1>16 DEF RunStep

AnySkips == \E d \in conns : Policy[d] = "skip"

\* The runs of "sync all" are those of the sources its workers are at; the workers are ahead of the queue; and
\* as long as any source skips a user on a collision, there is one worker.
PoolInv ==
    /\ pool \in Pool
    /\ \A c \in Sources : run[c].pc = "idle" => c \notin pool.busy
    /\ \A c \in Sources : run[c].pc # "idle" => (run[c].all <=> c \in pool.busy)
    /\ \A c \in pool.busy, d \in pool.queue : Rank[c] < Rank[d]
    /\ AnySkips => \A c, d \in pool.busy : c = d
    /\ AnySkips /\ ~PoolIdle => pool.size = 1

\* Runs and the pool as they were, and no source is new.
LEMMA PoolStill ==
  ASSUME PoolInv, UNCHANGED <<run, pool>>, conns' \subseteq conns
  PROVE  PoolInv'
  BY DEF PoolInv, AnySkips, PoolIdle

LEMMA EndPool ==
  ASSUME PoolInv, run \in [Sources -> Run], NEW c \in Sources, End(c), UNCHANGED conns
  PROVE  PoolInv'
<1>1. pool' \in Pool /\ pool'.busy = pool.busy \ {c} /\ pool'.queue = pool.queue /\ pool'.size = pool.size
  BY DEF End, PoolInv, Pool
<1>2. run'[c].pc = "idle" /\ \A x \in Sources \ {c} : run'[x] = run[x]
  BY DEF End, Set, NoRun
<1> QED BY <1>1, <1>2 DEF PoolInv, AnySkips, PoolIdle

LEMMA GoesOnPool ==
  ASSUME PoolInv, run \in [Sources -> Run], NEW c \in Sources, run[c].pc # "idle", GoesOn(c), UNCHANGED conns
  PROVE  PoolInv'
<1>1. /\ run'[c].pc # "idle" /\ (run'[c].all <=> run[c].all) /\ \A x \in Sources \ {c} : run'[x] = run[x]
      /\ UNCHANGED pool
  BY DEF GoesOn, Set
<1> QED BY <1>1 DEF PoolInv, AnySkips, PoolIdle

LEMMA StartRun ==
  ASSUME run \in [Sources -> Run], NEW c \in Sources, NEW all \in BOOLEAN, Start(c, all)
  PROVE  /\ run[c].pc = "idle" /\ run'[c].pc = "fetch" /\ run'[c].all = all
         /\ \A x \in Sources \ {c} : run'[x] = run[x]
<1> DEFINE d == [NoRun EXCEPT !.pc = "fetch", !.all = all]
<1>1. d.pc = "fetch"
  BY DEF NoRun
<1>2. d.all = all
  BY DEF NoRun
<1>3. Set(c, d) /\ run[c].pc = "idle"
  BY DEF Start
<1> HIDE DEF d
<1> QED BY <1>1, <1>2, <1>3 DEF Set

LEMMA StartSyncAllPool ==
  ASSUME PoolInv, conns \subseteq Sources, StartSyncAll
  PROVE  PoolInv'
<1>1. /\ pool.queue = {} /\ pool.busy = {} /\ UNCHANGED <<run, conns>>
      /\ pool' = [queue |-> conns, busy |-> {}, size |-> EffectiveConcurrency(conns)]
  BY DEF StartSyncAll, PoolIdle
<1>2. EffectiveConcurrency(conns) \in {1, Concurrency} /\ (AnySkips => EffectiveConcurrency(conns) = 1)
  BY DEF EffectiveConcurrency, AnySkips
<1>3. pool' \in Pool /\ pool'.busy = {} /\ pool'.size = EffectiveConcurrency(conns)
  BY <1>1, <1>2 DEF Pool
<1> QED BY <1>1, <1>2, <1>3 DEF PoolInv, AnySkips

LEMMA SyncAllNextPool ==
  ASSUME PoolInv, run \in [Sources -> Run], conns \subseteq Sources, SyncAllNext
  PROVE  PoolInv'
<1>1. PICK c \in pool.queue :
          /\ \A d \in pool.queue : Rank[c] <= Rank[d]
          /\ IF c \in conns /\ run[c].pc = "idle"
             THEN Start(c, TRUE) /\ pool' = [pool EXCEPT !.queue = @ \ {c}, !.busy = @ \cup {c}]
             ELSE pool' = [pool EXCEPT !.queue = @ \ {c}] /\ UNCHANGED <<run, alone>>
  BY DEF SyncAllNext
<1>2. Cardinality(pool.busy) < pool.size /\ UNCHANGED conns
  BY DEF SyncAllNext
<1>3. pool \in Pool /\ c \in Sources /\ pool.queue \subseteq Sources /\ pool.busy \subseteq Sources
  BY DEF PoolInv, Pool
<1>4. CASE UNCHANGED run /\ pool' = [pool EXCEPT !.queue = @ \ {c}]
  <2>1. pool' \in Pool /\ pool'.queue = pool.queue \ {c} /\ pool'.busy = pool.busy /\ pool'.size = pool.size
    BY <1>3, <1>4 DEF Pool
  <2> QED BY <1>2, <1>4, <2>1 DEF PoolInv, AnySkips, PoolIdle
<1>5. CASE Start(c, TRUE) /\ pool' = [pool EXCEPT !.queue = @ \ {c}, !.busy = @ \cup {c}]
  <2>1. /\ pool' \in Pool /\ pool'.queue = pool.queue \ {c} /\ pool'.busy = pool.busy \cup {c}
        /\ pool'.size = pool.size
    BY <1>3, <1>5 DEF Pool
  <2>2. /\ run[c].pc = "idle" /\ run'[c].pc = "fetch" /\ run'[c].all = TRUE
        /\ \A x \in Sources \ {c} : run'[x] = run[x]
    BY <1>3, <1>5, StartRun
  <2>3. /\ \A x \in Sources : run'[x].pc = "idle" => x \notin pool'.busy
        /\ \A x \in Sources : run'[x].pc # "idle" => (run'[x].all <=> x \in pool'.busy)
    BY <2>1, <2>2 DEF PoolInv
  <2>4. \A x \in pool'.busy, d \in pool'.queue : Rank[x] < Rank[d]
    <3>1. \A d \in pool'.queue : Rank[c] < Rank[d]
      <4> SUFFICES ASSUME NEW d \in pool'.queue PROVE Rank[c] < Rank[d]
        OBVIOUS
      <4>1. d \in pool.queue /\ d # c /\ d \in Sources
        BY <1>3, <2>1
      <4>2. Rank[c] <= Rank[d] /\ Rank[c] # Rank[d] /\ Rank[c] \in Nat /\ Rank[d] \in Nat
        BY <1>1, <1>3, <4>1
      <4> QED BY ONLY <4>2
    <3> QED BY <2>1, <3>1 DEF PoolInv
  <2>5. AnySkips => pool.busy = {} /\ pool.size = 1
    <3> SUFFICES ASSUME AnySkips PROVE pool.busy = {} /\ pool.size = 1
      OBVIOUS
    <3>1. pool.size = 1
      BY DEF PoolInv, PoolIdle
    <3>2. IsFiniteSet(pool.busy)
      BY <1>3, FS_Subset
    <3>3. Cardinality(pool.busy) \in Nat /\ (Cardinality(pool.busy) = 0 <=> pool.busy = {})
      BY <3>2, FS_CardinalityType, FS_EmptySet
    <3> QED BY <1>2, <3>1, <3>3
  <2>6. AnySkips' => AnySkips
    BY <1>2 DEF AnySkips
  <2>7. AnySkips' => (\A x, d \in pool'.busy : x = d) /\ pool'.size = 1
    BY <2>1, <2>5, <2>6
  <2> QED BY <2>1, <2>3, <2>4, <2>7 DEF PoolInv
<1> QED BY <1>1, <1>4, <1>5

LEMMA InitPoolInv == Init => PoolInv
<1> SUFFICES ASSUME Init PROVE PoolInv
  OBVIOUS
<1>1. pool \in Pool /\ pool.queue = {} /\ pool.busy = {}
  BY DEF Init, NoPool, Pool
<1>2. \A c \in Sources : run[c].pc = "idle"
  BY DEF Init, NoRun
<1> QED BY <1>1, <1>2 DEF PoolInv, PoolIdle

LEMMA NextPoolInv ==
  ASSUME DirectoryInv, PoolInv, [Next]_vars
  PROVE  PoolInv'
<1>1. conns \subseteq Sources /\ run \in [Sources -> Run]
  BY DEF DirectoryInv, DirectoryTypes
<1>2. ASSUME NEW c \in Sources, Trigger(c) PROVE PoolInv'
  <2>1. /\ run[c].pc = "idle" /\ run'[c].pc = "fetch" /\ run'[c].all = FALSE
        /\ \A x \in Sources \ {c} : run'[x] = run[x]
    BY <1>1, <1>2, StartRun DEF Trigger
  <2>2. UNCHANGED <<conns, pool>>
    BY <1>2 DEF Trigger
  <2> QED BY <2>1, <2>2 DEF PoolInv, AnySkips, PoolIdle
<1>3. ASSUME NEW c \in Sources, RunStep(c) PROVE PoolInv'
  <2>1. UNCHANGED conns
    BY <1>3 DEF RunStep, FetchUsers, BadUser, LookUpName, WriteUser, UserFault, FetchFails, BeginMembers,
                UpsertGroup, ReplaceMembers, FindUnseen, Deactivate, DeleteOrphans, Succeed, RunFault
  <2> QED BY <1>1, <1>3, <2>1, RunStepGoesOn, EndPool, GoesOnPool
<1>4. ASSUME \/ UNCHANGED vars \/ AdminStep \/ \E u \in Users : DeleteManual(u) \/ \E n \in Names : BeginManual(u, n)
             \/ \E c \in Sources : BeginDeactivate(c) \/ DeleteIdentities(c) \/ BeginDisconnect(c)
      PROVE  PoolInv'
  <2>1. UNCHANGED <<run, pool>> /\ conns' \subseteq conns
    BY <1>4 DEF vars, AdminStep, WriteManual, DeactivateSource, Disconnect, DeleteManual, BeginManual, Begin,
                BeginDeactivate, DeleteIdentities, BeginDisconnect
  <2> QED BY <2>1, PoolStill
<1> QED BY <1>1, <1>2, <1>3, <1>4, StartSyncAllPool, SyncAllNextPool DEF Next

-----------------------------------------------------------------------------
\* Every variable keeps its type, whatever the runs, "sync all" and the administrator do.
THEOREM DirectoryTypeCorrect == Spec => []TypeOK
<1> DEFINE Inv == DirectoryInv /\ MirrorInv /\ PoolInv /\ ops \in 0..MaxOps
<1>1. Init => Inv
  BY InitDirectoryInv, InitMirrorInv, InitPoolInv DEF Init
<1>2. Inv /\ [Next]_vars => Inv'
  <2> SUFFICES ASSUME Inv, [Next]_vars PROVE Inv'
    OBVIOUS
  <2>1. UNCHANGED ops \/ (ops < MaxOps /\ ops' = ops + 1)
    <3>1. ASSUME NEW c \in Sources, RunStep(c) PROVE UNCHANGED ops
      BY <3>1 DEF RunStep, FetchUsers, BadUser, LookUpName, WriteUser, UserFault, FetchFails, BeginMembers,
                  UpsertGroup, ReplaceMembers, FindUnseen, Deactivate, DeleteOrphans, Succeed, RunFault
    <3> QED BY <3>1 DEF Next, vars, Trigger, StartSyncAll, SyncAllNext, AdminStep, WriteManual, DeactivateSource,
               Disconnect, DeleteManual, BeginManual, Begin, BeginDeactivate, DeleteIdentities, BeginDisconnect
  <2>2. ops' \in 0..MaxOps
    BY <2>1
  <2> QED BY <2>2, NextDirectoryInv, NextMirrorInv, NextPoolInv
<1>3. Inv => TypeOK
  <2> SUFFICES ASSUME Inv PROVE TypeOK
    OBVIOUS
  <2>1. \A c \in Sources : /\ run[c].todo \subseteq run[c].ok /\ run[c].ok \subseteq run[c].seen
                           /\ run[c].seen \cup run[c].drop \subseteq Of(c)
                           /\ run[c].census \cup run[c].ids \cup run[c].want \subseteq GroupsOf(c)
    BY DEF MirrorInv, Knows, Progress, RunOK
  <2> QED BY <2>1 DEF TypeOK, DirectoryInv, DirectoryTypes, MirrorInv, PoolInv
<1> QED BY <1>1, <1>2, <1>3, PTL DEF Spec

\* "Sync all" lets the first source by createdAt win a contested user name, whatever the sources' policies are
\* and whatever the scheduler and the administrator start or remove meanwhile.
THEOREM FirstSourceWinsName == Spec => FirstSourceWins
<1> DEFINE Inv == DirectoryInv /\ PoolInv
           Wins == \A c \in Sources :
                     run[c].all /\ run[c].pc = "write" /\ run'[c].ok # run[c].ok /\ (\E d \in conns : Policy[d] = "skip")
                     => \A d \in Sources : Rank[d] < Rank[c] => d \notin pool.busy \cup pool.queue
<1>1. Init => Inv
  BY InitDirectoryInv, InitPoolInv
<1>2. Inv /\ [Next]_vars => Inv'
  BY NextDirectoryInv, NextPoolInv
<1>3. Inv => Wins
  <2> SUFFICES ASSUME PoolInv, NEW c \in Sources, run[c].all, run[c].pc = "write", AnySkips,
                      NEW d \in Sources, Rank[d] < Rank[c]
               PROVE  d \notin pool.busy \cup pool.queue
    BY DEF AnySkips
  <2>1. c \in pool.busy /\ Rank[c] \in Nat /\ Rank[d] \in Nat
    BY DEF PoolInv
  <2>2. d # c /\ ~(Rank[c] < Rank[d])
    BY <2>1
  <2> QED BY <2>1, <2>2 DEF PoolInv
<1>4. Inv /\ [Next]_vars => [Wins]_vars
  BY <1>3
<1> QED BY <1>1, <1>2, <1>4, PTL DEF Spec, FirstSourceWins

\* Only its own steps change a run under way.
LEMMA OwnSteps ==
  ASSUME DirectoryInv, NEW c \in Sources, [Next]_vars, run[c].pc # "idle", run'[c] # run[c]
  PROVE  RunStep(c)
<1>1. run \in [Sources -> Run] /\ conns \subseteq Sources
  BY DEF DirectoryInv, DirectoryTypes
<1>2. ASSUME NEW x \in Sources, x # c PROVE \A d : Set(x, d) => run'[c] = run[c]
  BY <1>1, <1>2 DEF Set
<1>3. ASSUME NEW x \in Sources, RunStep(x) PROVE x = c
  <2>1. \E d : Set(x, d)
    BY <1>3, RunStepGoesOn DEF End, GoesOn
  <2> QED BY <1>2, <2>1
<1>4. ~SyncAllNext
  BY <1>1, <1>2 DEF SyncAllNext, Start
<1>5. \A x \in Sources : ~Trigger(x)
  BY <1>2 DEF Trigger, Start
<1>6. ~(UNCHANGED run)
  OBVIOUS
<1> QED BY <1>3, <1>4, <1>5, <1>6 DEF Next, vars, StartSyncAll, AdminStep, WriteManual, DeactivateSource, Disconnect,
           DeleteManual, BeginManual, Begin, BeginDeactivate, DeleteIdentities, BeginDisconnect

-----------------------------------------------------------------------------
(* The census guard.                                                       *)

\* Unless a fetch failed, whoever the run is done with has only groups that it has seen.
Kept(c, r) ==
    ~r.failed => \A u \in (r.ok \ r.todo) \ Current(r) : user[u] # None => user[u].groups \subseteq r.census

KeptAll == \A c \in Sources : Kept(c, run[c])

\* No user of the source gains a row or a membership.
Shrinks(c) == \A u \in Of(c) : user'[u] # None => user[u] # None /\ user'[u].groups \subseteq user[u].groups

\* The run goes on from r to x without being done with one more user, and forgets nothing.
Retains(r, x) ==
    /\ r.census \subseteq x.census /\ (x.failed = FALSE => r.failed = FALSE)
    /\ (x.ok \ x.todo) \ Current(x) \subseteq (r.ok \ r.todo) \ Current(r)

LEMMA RetainsKept ==
  ASSUME NEW c \in Sources, NEW r, NEW x, Kept(c, r), r \in Run, x \in Run, r.ok \subseteq Of(c), Retains(r, x),
         Shrinks(c)
  PROVE  Kept(c, x)'
<1> SUFFICES ASSUME ~x.failed, NEW u \in (x.ok \ x.todo) \ Current(x), user'[u] # None
             PROVE  user'[u].groups \subseteq x.census
  BY DEF Kept
<1>1. ~r.failed
  BY DEF Run, Retains
<1>2. u \in (r.ok \ r.todo) \ Current(r) /\ u \in Of(c)
  BY DEF Retains
<1>3. user[u] # None /\ user'[u].groups \subseteq user[u].groups
  BY <1>2 DEF Shrinks
<1> QED BY <1>1, <1>2, <1>3 DEF Kept, Retains

\* Phase A, the start and the end: nobody is done with.
NobodyDone(x) == x.ok \subseteq x.todo

LEMMA SkipNobody ==
  ASSUME NEW c \in Sources, NEW r, Knows(c, r), r.pc \in {"user", "write"}, NEW d, SameRun(d, r),
         NEW strict, Skip(c, d, strict)
  PROVE  End(c) \/ \E h : Set(c, h) /\ NobodyDone(h)
<1> DEFINE e == [d EXCEPT !.clean = FALSE]
<1>1. SameRun(e, r)
  BY DEF SameRun, Run
<1>2. End(c) \/ Set(c, Handled(e))
  BY DEF Skip
<1> HIDE DEF e
<1>3. Handled(e).ok = e.ok /\ Handled(e).todo = e.todo
  BY <1>1, HandledFields DEF SameRun
<1>4. NobodyDone(Handled(e))
  BY <1>1, <1>3 DEF NobodyDone, SameRun, Knows, Progress
<1> QED BY <1>2, <1>4

LEMMA CollideNobody ==
  ASSUME NEW c \in Sources, NEW r, Knows(c, r), r.pc \in {"user", "write"}, NEW d, SameRun(d, r), Collide(c, d)
  PROVE  End(c) \/ \E h : Set(c, h) /\ NobodyDone(h)
  BY SkipNobody DEF Collide

LEMMA UsersNobody ==
  ASSUME NEW c \in Sources, Knows(c, run[c]),
         FetchUsers(c) \/ BadUser(c) \/ LookUpName(c) \/ WriteUser(c) \/ UserFault(c)
  PROVE  End(c) \/ \E h : Set(c, h) /\ NobodyDone(h)
<1> DEFINE r == run[c]
<1>1. Knows(c, r) /\ r \in Run
  BY DEF Knows
<1>2. r.left \subseteq Users /\ r.left \subseteq Of(c)
  BY <1>1 DEF Knows, RunOK, Of
<1>3. CASE FetchUsers(c)
  <2>1. ASSUME NEW ids \in SUBSET Of(c), NEW junk \in BOOLEAN,
               Set(c, [r EXCEPT !.pc = IF ids = {} THEN "unseen" ELSE "user",
                                !.left = ids, !.seen = ids, !.clean = ~junk])
        PROVE  \E h : Set(c, h) /\ NobodyDone(h)
    <3> DEFINE d == [r EXCEPT !.pc = IF ids = {} THEN "unseen" ELSE "user",
                              !.left = ids, !.seen = ids, !.clean = ~junk]
    <3>1. d.ok = r.ok /\ r.ok = {}
      BY <1>1, <1>3 DEF Run, Knows, Progress, FetchUsers
    <3> HIDE DEF d
    <3>2. NobodyDone(d)
      BY <3>1 DEF NobodyDone
    <3>3. Set(c, d)
      BY <2>1 DEF d
    <3> QED BY <3>2, <3>3
  <2> QED BY <1>3, <2>1 DEF FetchUsers
<1>4. CASE BadUser(c)
  <2>1. PICK u \in r.left : Skip(c, [r EXCEPT !.cur = u], c \in Strict)
    BY <1>4 DEF BadUser
  <2> DEFINE d == [r EXCEPT !.cur = u]
  <2>2. SameRun(d, r) /\ r.pc = "user"
    BY <1>1, <1>2, <1>4 DEF Knows, Run, SameRun, BadUser
  <2>3. Skip(c, d, c \in Strict)
    BY <2>1
  <2> HIDE DEF d, r
  <2> QED BY <1>1, <2>2, <2>3, SkipNobody
<1>5. CASE LookUpName(c)
  <2>1. PICK u \in r.left, n \in Names :
          LET e == [r EXCEPT !.cur = u, !.name = n] IN
          Set(c, [e EXCEPT !.pc = "write"]) \/ Collide(c, e)
    BY <1>5 DEF LookUpName
  <2> DEFINE e == [r EXCEPT !.cur = u, !.name = n]
             d == [e EXCEPT !.pc = "write"]
  <2>2. SameRun(e, r) /\ r.pc = "user"
    BY <1>1, <1>2, <1>5 DEF Knows, Run, SameRun, LookUpName
  <2>3. Set(c, d) \/ Collide(c, e)
    BY <2>1
  <2> HIDE DEF e
  <2>4. d.ok = e.ok /\ d.todo = e.todo
    BY <2>2 DEF SameRun, Run
  <2> HIDE DEF d
  <2>5. NobodyDone(d)
    BY <1>1, <2>2, <2>4 DEF NobodyDone, SameRun, Knows, Progress
  <2> HIDE DEF r
  <2> QED BY <1>1, <2>2, <2>3, <2>5, CollideNobody
<1>6. CASE WriteUser(c)
  <2> DEFINE e == [r EXCEPT !.ok = @ \cup {r.cur}, !.todo = @ \cup {r.cur}]
  <2>1. r.pc = "write" /\ SameRun(r, r)
    BY <1>1, <1>6 DEF Knows, RunOK, Progress, SameRun, WriteUser
  <2>2. Set(c, Handled(e)) \/ Skip(c, r, FALSE) \/ Collide(c, r)
    BY <1>6 DEF WriteUser
  <2>3. r.cur \in Users
    BY <1>2, <2>1 DEF SameRun
  <2>4. e \in Run /\ e.ok = r.ok \cup {r.cur} /\ e.todo = r.todo \cup {r.cur}
    BY <1>1, <2>3 DEF Run
  <2> HIDE DEF e
  <2>5. NobodyDone(Handled(e))
    BY <1>1, <2>1, <2>4, HandledFields DEF NobodyDone, Knows, Progress
  <2> HIDE DEF r
  <2> QED BY <1>1, <2>1, <2>2, <2>5, SkipNobody, CollideNobody
<1>7. CASE UserFault(c)
  <2>1. r.pc = "write" /\ SameRun(r, r) /\ Skip(c, r, FALSE)
    BY <1>1, <1>7 DEF Knows, RunOK, Progress, SameRun, UserFault
  <2> HIDE DEF r
  <2> QED BY <1>1, <2>1, SkipNobody
<1> QED BY <1>3, <1>4, <1>5, <1>6, <1>7

\* Phases B and C: the run retains what it is done with, or a fetch has failed.
LEMMA MembersRetain ==
  ASSUME DirectoryInv, NEW c \in Sources, Knows(c, run[c]), FetchFails(c) \/ BeginMembers(c) \/ UpsertGroup(c)
  PROVE  UNCHANGED user /\ \E h : Set(c, h) /\ (h.failed = TRUE \/ Retains(run[c], h))
<1> DEFINE r == run[c]
<1>1. Knows(c, r) /\ r \in Run
  BY DEF Knows
<1>2. UNCHANGED user
  BY DEF FetchFails, BeginMembers, UpsertGroup
<1>3. CASE FetchFails(c)
  <2>1. PICK u \in r.todo :
          Set(c, Handled([r EXCEPT !.todo = @ \ {u}, !.failed = TRUE, !.clean = FALSE]))
    BY <1>3 DEF FetchFails
  <2> DEFINE e == [r EXCEPT !.todo = @ \ {u}, !.failed = TRUE, !.clean = FALSE]
  <2>2. e \in Run
    BY <1>1 DEF Run, GroupsOf
  <2>3. e.failed = TRUE
    BY <1>1 DEF Run
  <2>4. Set(c, Handled(e))
    BY <2>1
  <2> HIDE DEF e
  <2>5. Handled(e).failed = TRUE
    BY <2>2, <2>3, HandledFields
  <2> QED BY <1>2, <2>4, <2>5
<1>4. CASE BeginMembers(c)
  <2>1. PICK u \in r.todo, gs \in SUBSET GroupsOf(c) : \E read \in SUBSET gs : Set(c, Begun(r, u, gs, read))
    BY <1>4 DEF BeginMembers, Begun
  <2>2. PICK read \in SUBSET gs : Set(c, Begun(r, u, gs, read))
    BY <2>1
  <2>3. r.pc = "member"
    BY <1>4 DEF BeginMembers
  <2> HIDE DEF r
  <2>4. Attends(r, Begun(r, u, gs, read), u)
    BY <1>1, <2>3, BeginKnows
  <2>5. Retains(r, Begun(r, u, gs, read))
    BY <2>3, <2>4 DEF Retains, Attends, Current, Assigning
  <2> QED BY <1>2, <2>2, <2>5 DEF r
<1>5. CASE UpsertGroup(c)
  <2>1. PICK g \in r.want : Set(c, Rejected(r, g)) \/ Set(c, Joined(r, g))
    BY <1>5 DEF UpsertGroup, Upserted, Rejected, Joined
  <2>2. r.pc = "upsert"
    BY <1>5 DEF UpsertGroup
  <2> HIDE DEF r
  <2>3. Adds(r, Rejected(r, g), g) /\ Adds(r, Joined(r, g), g)
    BY <1>1, <2>2, UpsertKnows
  <2>4. Retains(r, Rejected(r, g)) /\ Retains(r, Joined(r, g))
    BY <2>2, <2>3 DEF Retains, Adds, Current, Assigning
  <2> QED BY <1>2, <2>1, <2>4 DEF r
<1> QED BY <1>3, <1>4, <1>5

LEMMA UnseenRetains ==
  ASSUME DirectoryInv, NEW c \in Sources, Knows(c, run[c]), FindUnseen(c) \/ Deactivate(c) \/ DeleteOrphans(c)
  PROVE  End(c) \/ (Shrinks(c) /\ \E h : Set(c, h) /\ Retains(run[c], h))
<1> DEFINE r == run[c]
<1>1. Knows(c, r) /\ r \in Run /\ r.pc \in {"unseen", "drop", "orphans"}
  BY DEF Knows, FindUnseen, Deactivate, DeleteOrphans
<1>2. user \in [Users -> {None} \cup User]
  BY DEF DirectoryInv, DirectoryTypes
<1>3. ASSUME NEW pc \in {"drop", "orphans", "success"}, NEW drop \in SUBSET Of(c)
      PROVE  Retains(r, Turned(r, pc, drop))
  <2>1. /\ Turned(r, pc, drop).pc = pc /\ Turned(r, pc, drop).ok = r.ok /\ Turned(r, pc, drop).todo = r.todo
        /\ Turned(r, pc, drop).census = r.census
    BY <1>1 DEF Run, Of, Turned
  <2>2. Turned(r, pc, drop).failed = r.failed
    BY <1>1 DEF Run, Turned
  <2> QED BY <1>1, <2>1, <2>2 DEF Retains, Current, Assigning
<1>4. CASE FindUnseen(c)
  <2>1. UNCHANGED user /\ \E pc \in {"drop", "orphans"}, drop \in SUBSET Of(c) : Set(c, Turned(r, pc, drop))
    BY <1>4 DEF FindUnseen, Turned, Scope
  <2> QED BY <1>3, <2>1 DEF Shrinks
<1>5. CASE Deactivate(c)
  <2>1. End(c) \/ \E u \in r.drop : /\ user[u] # None /\ user' = [user EXCEPT ![u] = Deactivated(u)]
                                    /\ \E pc \in {"drop", "orphans"} : Set(c, Turned(r, pc, r.drop \ {u}))
    BY <1>5 DEF Deactivate, Turned
  <2>2. ASSUME NEW u \in r.drop, user[u] # None, user' = [user EXCEPT ![u] = Deactivated(u)] PROVE Shrinks(c)
    <3>1. u \in Users /\ user[u] \in User
      BY <1>1, <1>2, <2>2 DEF Knows, RunOK, Of
    <3>2. user'[u].groups = {}
      BY <1>2, <2>2, <3>1 DEF Deactivated, User
    <3>3. \A v \in Users \ {u} : user'[v] = user[v]
      BY <1>2, <2>2
    <3> QED BY <2>2, <3>2, <3>3 DEF Shrinks, Of
  <2>3. r.drop \subseteq Of(c)
    BY <1>1 DEF Knows, RunOK
  <2>4. \A u : r.drop \ {u} \in SUBSET Of(c)
    BY <2>3
  <2> HIDE DEF r
  <2> QED BY <1>3, <2>1, <2>2, <2>4 DEF r
<1>6. CASE DeleteOrphans(c)
  <2>1. Set(c, [r EXCEPT !.pc = "success"]) /\ user' = Without(Orphans(c))
    BY <1>6 DEF DeleteOrphans
  <2>2. \A row \in User : \A gs : [row EXCEPT !.groups = @ \ gs].groups \subseteq row.groups
    BY DEF User
  <2>3. Shrinks(c)
    <3> SUFFICES ASSUME NEW u \in Users, user'[u] # None
                 PROVE  user[u] # None /\ user'[u].groups \subseteq user[u].groups
      BY DEF Shrinks, Of
    <3>1. user'[u] = IF user[u] = None THEN None ELSE [user[u] EXCEPT !.groups = @ \ Orphans(c)]
      BY <2>1 DEF Without
    <3>2. user[u] # None /\ user[u] \in User
      BY <1>2, <3>1
    <3> QED BY <2>2, <3>1, <3>2
  <2>4. [r EXCEPT !.pc = "success"] = Turned(r, "success", r.drop)
    BY <1>1 DEF Run, Turned
  <2>5. r.drop \in SUBSET Of(c)
    BY <1>1 DEF Knows, RunOK
  <2>6. Retains(r, Turned(r, "success", r.drop))
    BY <1>3, <2>5
  <2> QED BY <2>1, <2>3, <2>4, <2>6
<1> QED BY <1>4, <1>5, <1>6

\* A user gets the groups that were upserted for it, and all of those have been seen.
LEMMA ReplaceKept ==
  ASSUME DirectoryInv, NEW c \in Sources, Knows(c, run[c]), Kept(c, run[c]), ReplaceMembers(c)
  PROVE  End(c) \/ \E h : Set(c, h) /\ Kept(c, h)'
<1> DEFINE r == run[c]
           e == [r EXCEPT !.ids = {}]
<1>1. /\ Knows(c, r) /\ r \in Run /\ r.pc = "replace" /\ Kept(c, r) /\ user \in [Users -> {None} \cup User]
  BY DEF Knows, ReplaceMembers, DirectoryInv, DirectoryTypes
<1>2. CASE Set(c, Handled(e)) /\ user' = IF user[r.cur] = None THEN user ELSE [user EXCEPT ![r.cur].groups = r.ids]
  <2>1. r.cur \in Users /\ r.ok \subseteq Users /\ r.ids \subseteq r.census /\ r.ids \in SUBSET Groups
    BY <1>1 DEF Knows, RunOK, Progress, Assigning, Of, Run
  <2>2. PICK h : h = Handled(e)
    OBVIOUS
  <2>3. e \in Run /\ e.ok = r.ok /\ e.todo = r.todo /\ e.census = r.census
    BY <1>1 DEF Run
  <2>4. e.failed = r.failed
    BY <1>1 DEF Run
  <2> HIDE DEF e
  <2>5. /\ h.ok = r.ok /\ h.todo = r.todo /\ h.census = r.census /\ h.failed = r.failed
    BY <2>2, <2>3, <2>4, HandledFields
  <2>6. Current(r) = {r.cur}
    BY <1>1 DEF Current, Assigning
  <2>7. \A v \in Users \ {r.cur} : user'[v] = user[v]
    BY <1>1, <1>2, <2>1
  <2>8. user[r.cur] # None => user'[r.cur].groups = r.ids
    BY ONLY <1>1, <1>2, <2>1, RowReplaced
  <2>9. user[r.cur] = None => user'[r.cur] = None
    BY <1>2
  <2> HIDE DEF r
  <2>10. Kept(c, h)'
    BY <1>1, <2>1, <2>5, <2>6, <2>7, <2>8, <2>9 DEF Kept
  <2> QED BY <1>2, <2>2, <2>10
<1> QED BY <1>2 DEF ReplaceMembers

\* No step but those of its own run gives a user of the source a row or a membership, and it leaves that run
\* alone or starts it.
LEMMA ElseShrinks ==
  ASSUME DirectoryInv, NEW c \in Sources, [Next]_vars, ~RunStep(c)
  PROVE  Shrinks(c)
<1>1. user \in [Users -> {None} \cup User] /\ Of(c) \subseteq Users
  BY DEF DirectoryInv, DirectoryTypes, Of
<1>2. CASE UNCHANGED user
  BY <1>2 DEF Shrinks
<1>3. ASSUME NEW u \in Users \ Of(c), \A v \in Users \ {u} : user'[v] = user[v] PROVE Shrinks(c)
  BY <1>1, <1>3 DEF Shrinks
<1>4. ASSUME NEW x \in Sources, x # c, RunStep(x) PROVE Shrinks(c)
  <2>1. RunOK(x, run[x])
    BY DEF DirectoryInv, RunsOK
  <2>2. CASE DeleteOrphans(x)
    <3>1. user' = Without(Orphans(x))
      BY <2>2 DEF DeleteOrphans
    <3>2. ASSUME NEW u \in Users, user'[u] # None PROVE user[u] # None /\ user'[u].groups \subseteq user[u].groups
      <4>1. user[u] # None /\ user[u] \in User
        BY <1>1, <3>1, <3>2 DEF Without
      <4> QED BY <3>1, <4>1, WithoutRow
    <3> QED BY <1>1, <3>2 DEF Shrinks
  <2>3. CASE WriteUser(x) \/ ReplaceMembers(x)
    <3>1. run[x].cur \in Users \ Of(c)
      BY <1>4, <2>1, <2>3 DEF RunOK, WriteUser, ReplaceMembers, Of
    <3>2. \A v \in Users \ {run[x].cur} : user'[v] = user[v]
      BY <1>1, <2>3 DEF WriteUser, ReplaceMembers
    <3> QED BY <1>3, <3>1, <3>2
  <2>4. CASE Deactivate(x)
    <3>1. PICK u \in run[x].drop : user' = user \/ user' = [user EXCEPT ![u] = Deactivated(u)]
      BY <2>4 DEF Deactivate
    <3>2. u \in Users \ Of(c)
      BY <1>4, <2>1 DEF RunOK, Of
    <3>3. \A v \in Users \ {u} : user'[v] = user[v]
      BY <1>1, <3>1
    <3> QED BY <1>3, <3>2, <3>3
  <2>5. CASE FetchUsers(x) \/ BadUser(x) \/ LookUpName(x) \/ UserFault(x) \/ FetchFails(x) \/ BeginMembers(x)
             \/ UpsertGroup(x) \/ FindUnseen(x) \/ Succeed(x) \/ RunFault(x)
    BY <1>2, <2>5 DEF FetchUsers, BadUser, LookUpName, UserFault, FetchFails, BeginMembers, UpsertGroup, FindUnseen,
       Succeed, RunFault
  <2> QED BY <1>4, <2>2, <2>3, <2>4, <2>5 DEF RunStep
<1>5. CASE WriteManual
  <2>1. admin.of \in Users \ Of(c)
    BY <1>5 DEF WriteManual, DirectoryInv, AdminOK, Of
  <2>2. \A v \in Users \ {admin.of} : user'[v] = user[v]
    BY <1>1, <1>5, <2>1 DEF WriteManual
  <2> QED BY <1>3, <2>1, <2>2
<1>6. ASSUME NEW u \in Users, DeleteManual(u) PROVE Shrinks(c)
  <2>1. u \in Users \ Of(c) /\ \A v \in Users \ {u} : user'[v] = user[v]
    BY <1>1, <1>6 DEF DeleteManual, Of
  <2> QED BY <1>3, <2>1
<1>7. CASE DeactivateSource
  <2>1. ASSUME NEW u \in Users, user'[u] # None PROVE user[u] # None /\ user'[u].groups \subseteq user[u].groups
    <3>1. user'[u] = IF u \in admin.ids /\ user[u] # None THEN Deactivated(u) ELSE user[u]
      BY <1>7 DEF DeactivateSource
    <3>2. user[u] # None /\ user[u] \in User
      BY <1>1, <2>1, <3>1
    <3>3. Deactivated(u).groups = {}
      BY <3>2, DeactivatedRow
    <3> QED BY <3>1, <3>2, <3>3
  <2> QED BY <1>1, <2>1 DEF Shrinks
<1>8. ASSUME NEW x \in Sources, DeleteIdentities(x) PROVE Shrinks(c)
  BY <1>1, <1>8 DEF DeleteIdentities, Shrinks
<1>9. CASE \/ \E x \in Sources : Trigger(x) \/ BeginDeactivate(x) \/ BeginDisconnect(x)
           \/ \E u \in Users, n \in Names : BeginManual(u, n)
           \/ StartSyncAll \/ SyncAllNext \/ Disconnect \/ UNCHANGED vars
  BY <1>2, <1>9 DEF Trigger, BeginDeactivate, BeginDisconnect, BeginManual, Begin, StartSyncAll, SyncAllNext, Disconnect,
     vars
<1> QED BY <1>4, <1>5, <1>6, <1>7, <1>8, <1>9 DEF Next, AdminStep

LEMMA ElseStarts ==
  ASSUME DirectoryInv, NEW c \in Sources, [Next]_vars, ~RunStep(c)
  PROVE  run'[c] = run[c] \/ run'[c].pc = "fetch"
<1>1. run \in [Sources -> Run] /\ conns \subseteq Sources
  BY DEF DirectoryInv, DirectoryTypes
<1>2. ASSUME NEW x \in Sources, x # c, NEW d, Set(x, d) PROVE run'[c] = run[c]
  BY <1>1, <1>2 DEF Set
<1>3. ASSUME NEW x \in Sources, RunStep(x) PROVE run'[c] = run[c]
  <2>1. \E d : Set(x, d)
    BY <1>3, RunStepGoesOn DEF End, GoesOn
  <2> QED BY <1>2, <1>3, <2>1
<1>4. ASSUME NEW x \in Sources, NEW all \in BOOLEAN, Start(x, all) PROVE run'[c] = run[c] \/ run'[c].pc = "fetch"
  BY <1>1, <1>4, StartRun
<1>5. CASE SyncAllNext
  <2>1. PICK x \in pool.queue : (x \in conns /\ Start(x, TRUE)) \/ UNCHANGED run
    BY <1>5 DEF SyncAllNext
  <2> QED BY <1>1, <1>4, <2>1
<1>6. ASSUME NEW x \in Sources, Trigger(x) PROVE run'[c] = run[c] \/ run'[c].pc = "fetch"
  BY <1>4, <1>6 DEF Trigger
<1>7. CASE UNCHANGED run
  BY <1>7
<1> QED BY <1>3, <1>5, <1>6, <1>7 DEF Next, vars, StartSyncAll, AdminStep, WriteManual, DeactivateSource, Disconnect,
           DeleteManual, BeginManual, Begin, BeginDeactivate, DeleteIdentities, BeginDisconnect

LEMMA NextKept ==
  ASSUME DirectoryInv, MirrorInv, DirectoryInv', MirrorInv', KeptAll, [Next]_vars
  PROVE  KeptAll'
<1> SUFFICES ASSUME NEW c \in Sources PROVE Kept(c, run[c])'
  BY DEF KeptAll
<1>1. /\ Knows(c, run[c]) /\ Kept(c, run[c]) /\ run \in [Sources -> Run] /\ run' \in [Sources -> Run]
      /\ run[c] \in Run /\ run'[c] \in Run /\ run[c].ok \subseteq Of(c) /\ Knows(c, run'[c])
  BY DEF MirrorInv, KeptAll, DirectoryInv, DirectoryTypes, Knows, Progress
<1>2. ASSUME NEW h, Set(c, h) PROVE run'[c] = h
  BY <1>1, <1>2 DEF Set
<1>3. ASSUME run'[c].ok \subseteq run'[c].todo PROVE Kept(c, run[c])'
  BY <1>3 DEF Kept
<1>4. CASE End(c)
  <2>1. run'[c] = NoRun /\ NoRun.ok = {}
    BY <1>2, <1>4 DEF End, NoRun
  <2> QED BY <1>3, <2>1
<1>5. ASSUME NEW h, Set(c, h), h.failed = TRUE PROVE Kept(c, run[c])'
  BY <1>2, <1>5 DEF Kept
<1>6. ASSUME NEW h, Set(c, h), Retains(run[c], h), Shrinks(c) PROVE Kept(c, run[c])'
  <2>1. run'[c] = h /\ h \in Run
    BY <1>1, <1>2, <1>6
  <2>2. Kept(c, h)'
    BY <1>1, <1>6, <2>1, RetainsKept
  <2> QED BY <2>1, <2>2 DEF Kept
<1>7. CASE FetchUsers(c) \/ BadUser(c) \/ LookUpName(c) \/ WriteUser(c) \/ UserFault(c)
  <2>1. End(c) \/ \E h : Set(c, h) /\ NobodyDone(h)
    BY <1>1, <1>7, UsersNobody
  <2> QED BY <1>2, <1>3, <1>4, <2>1 DEF NobodyDone
<1>8. CASE FetchFails(c) \/ BeginMembers(c) \/ UpsertGroup(c)
  <2>1. UNCHANGED user /\ \E h : Set(c, h) /\ (h.failed = TRUE \/ Retains(run[c], h))
    BY <1>1, <1>8, MembersRetain
  <2>2. Shrinks(c)
    BY <2>1 DEF Shrinks
  <2> QED BY <1>5, <1>6, <2>1, <2>2
<1>9. CASE ReplaceMembers(c)
  <2>1. End(c) \/ \E h : Set(c, h) /\ Kept(c, h)'
    BY <1>1, <1>9, ReplaceKept
  <2>2. ASSUME NEW h, Set(c, h), Kept(c, h)' PROVE Kept(c, run[c])'
    BY <1>2, <2>2 DEF Kept
  <2> QED BY <1>4, <2>1, <2>2
<1>10. CASE FindUnseen(c) \/ Deactivate(c) \/ DeleteOrphans(c)
  BY <1>1, <1>4, <1>6, <1>10, UnseenRetains
<1>11. CASE Succeed(c) \/ RunFault(c)
  BY <1>4, <1>11 DEF Succeed, RunFault
<1>12. CASE ~RunStep(c)
  <2>1. Shrinks(c) /\ (run'[c] = run[c] \/ run'[c].pc = "fetch")
    BY <1>12, ElseShrinks, ElseStarts
  <2>2. CASE run'[c] = run[c]
    BY <1>1, <2>1, <2>2 DEF Kept, Shrinks
  <2>3. CASE run'[c].pc = "fetch"
    <3>1. run'[c].ok = {}
      BY <1>1, <2>3 DEF Knows, Progress
    <3> QED BY <1>3, <3>1
  <2> QED BY <2>1, <2>2, <2>3
<1> QED BY <1>7, <1>8, <1>9, <1>10, <1>11, <1>12 DEF RunStep

\* The orphans a run deletes take no membership of a user it upserted with them, whatever else goes on in the
\* directory: a user whose list could not be fetched keeps its old groups, and therefore nothing is deleted.
THEOREM ReferencedGroupsStay == Spec => KeepsReferenced
<1> DEFINE Inv == DirectoryInv /\ MirrorInv /\ KeptAll
           Keeps == \A c \in Sources : run[c].pc = "orphans" /\ run'[c].pc = "success"
                      => \A g \in group \ group' : \A u \in run[c].ok \cap Rows : g \notin user[u].groups
<1>1. Init => Inv
  <2>1. Init => KeptAll
    BY DEF Init, KeptAll, Kept, NoRun
  <2> QED BY <2>1, InitDirectoryInv, InitMirrorInv
<1>2. Inv /\ [Next]_vars => Inv'
  BY NextDirectoryInv, NextMirrorInv, NextKept
<1>3. Inv /\ [Next]_vars => [Keeps]_vars
  <2> SUFFICES ASSUME Inv, [Next]_vars, NEW c \in Sources, run[c].pc = "orphans", run'[c].pc = "success",
                      NEW g \in group \ group', NEW u \in run[c].ok \cap Rows
               PROVE  g \notin user[u].groups
    OBVIOUS
  <2>1. RunStep(c)
    BY OwnSteps
  <2>2. DeleteOrphans(c) \/ RunFault(c)
    BY <2>1 DEF RunStep, FetchUsers, BadUser, LookUpName, WriteUser, UserFault, FetchFails, BeginMembers, UpsertGroup,
       ReplaceMembers, FindUnseen, Deactivate, Succeed
  <2>3. g \in Orphans(c)
    BY <2>2 DEF DeleteOrphans, RunFault
  <2>4. ~run[c].failed /\ g \notin run[c].census
    BY <2>3 DEF Orphans
  <2>5. run[c].todo = {} /\ Current(run[c]) = {}
    BY DEF MirrorInv, Knows, Progress, Current, Assigning
  <2>6. user[u].groups \subseteq run[c].census
    BY <2>4, <2>5 DEF KeptAll, Kept, Rows
  <2> QED BY <2>4, <2>6
<1> QED BY <1>1, <1>2, <1>3, PTL DEF Spec, KeepsReferenced
=============================================================================
