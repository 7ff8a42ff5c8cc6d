---------------------------- MODULE UserAuthCache ----------------------------
(***************************************************************************)
(* The cache of a user's authentication state: model/user_auth_cache.go,   *)
(* model/user_cache.go and the updates of model/user.go that use them.     *)
(*                                                                         *)
(* One user.  Redis holds the user's hash, a pending fence with a TTL and  *)
(* a permanent committed floor.  A restrictive change (ban, password, role,*)
(* second factor, deletion) raises auth_version in a transaction: the fence*)
(* is published before the row is updated, the floor after the commit.     *)
(* Readers serve requests from the hash or from the database.  Every Redis *)
(* command or script and every SQL statement is a step of its own.         *)
(*                                                                         *)
(* auth_version stands for the status, role and factors stored with it;    *)
(* the group is kept apart, for subscriptions change it at one version.    *)
(***************************************************************************)
EXTENDS Integers

CONSTANTS
    Readers,         \* calls of GetUserCache
    Admins,          \* restrictive changes
    Profiles,        \* updates that leave auth_version alone
    Refreshers,      \* group changes followed by RefreshUserGroupCache
    Kinds,           \* how a restrictive change ends, a subset of AllKinds
    Groups,          \* user groups
    InitGroup,       \* the group at the start
    RowLock,         \* lockForUpdate locks the row (FALSE: SQLite)
    VersionAttempts, \* 3 in IncrementUserAuthVersionWithTx
    RefreshAttempts, \* 3 in RefreshUserGroupCache
    MaxFaults,       \* bound: failing SQL statements and Redis commands
    MaxCrashes,      \* bound: crashes of the process of a call
    NoOne            \* nobody holds the row

AllKinds == {"publish", "update", "delete", "hardDelete"}
Procs    == Readers \union Admins \union Profiles \union Refreshers

ASSUME KindsAssumption == Kinds \subseteq AllKinds
ASSUME GroupsAssumption == InitGroup \in Groups
ASSUME AttemptsAssumption == VersionAttempts \in Nat \ {0} /\ RefreshAttempts \in Nat
ASSUME BoundsAssumption == MaxFaults \in Nat /\ MaxCrashes \in Nat
ASSUME FlagsAssumption == RowLock \in BOOLEAN
ASSUME ProcsAssumption ==
    /\ NoOne \notin Procs
    /\ Readers \intersect (Admins \union Profiles \union Refreshers) = {}
    /\ Admins \intersect (Profiles \union Refreshers) = {}
    /\ Profiles \intersect Refreshers = {}

VARIABLES
    db,        \* the row of users: auth_version, group, live, deleted or gone
    holder,    \* the transaction that holds the row
    hash,      \* the user's hash in Redis; by tells which script wrote its
               \* group, before that its TTL began before the fence's
    fence,     \* auth:user:fence, 0 when absent
    committed, \* auth:user:version, 0 when absent
    pc,        \* per call: the step it is at
    snap,      \* per call: the snapshot of the user it holds
    cur,       \* per restrictive change: the version it read under the lock
    kind,      \* per restrictive change: how it ends
    tries,     \* per call: rounds of its loop
    published, \* history: the highest version whose publication returned no error
    since,     \* history, per reader: auth_version when it began
    pubSince,  \* history, per reader: published when it began
    late,      \* history: a fence has expired over a call that relies on it
    faults,
    crashes

redis  == <<hash, fence, committed>>
locals == <<snap, cur, kind, tries>>
past   == <<since, pubSince, late>>
vars   == <<db, holder, redis, pc, locals, published, past, faults, crashes>>

Snapshot == [v : Nat, group : Groups]
Hash     == [v : Nat, group : Groups, by : {"none", "snapshot", "refresh"},
             before : BOOLEAN]
NoHash   == [v |-> 0, group |-> InitGroup, by |-> "none", before |-> FALSE]

Busy  == {"floor", "read", "check", "fill", "lock", "fence", "update", "commit",
          "reread", "write", "tombstone", "edit", "invalidate", "refresh", "field", "verify"}
Ended == {"served", "denied", "done", "failed"}

(* The row as a caller reads it. *)
Row == [v |-> db.v, group |-> db.group]

Init ==
    /\ db = [v |-> 1, group |-> InitGroup, row |-> "live"]
    /\ holder = NoOne
    /\ \/ hash = NoHash /\ committed = 0
       \/ hash = [NoHash EXCEPT !.v = 1, !.by = "snapshot"] /\ committed = 1
    /\ fence = 0
    /\ pc = [p \in Procs |-> "idle"]
    /\ snap = [p \in Procs |-> [v |-> 0, group |-> InitGroup]]
    /\ cur = [a \in Admins |-> 0]
    /\ kind \in [Admins -> Kinds]
    /\ tries = [p \in Procs |-> 0]
    /\ published = 0
    /\ since = [r \in Readers |-> 0]
    /\ pubSince = [r \in Readers |-> 0]
    /\ late = FALSE
    /\ faults = 0
    /\ crashes = 0
-----------------------------------------------------------------------------
(***************************************************************************)
(* Helpers and the Redis scripts.                                          *)
(***************************************************************************)
Max2(m, n) == IF m < n THEN n ELSE m

Goto(p, l) == pc' = [pc EXCEPT ![p] = l]
Hold(p, s) == snap' = [snap EXCEPT ![p] = s]

Fault   == faults < MaxFaults /\ faults' = faults + 1
NoFault == UNCHANGED faults

getUserAuthVersionFloor == Max2(fence, committed)

Rejects(v) == fence > v \/ committed > v \/ hash.v > v

(* The committed floor rises to v, which makes a fence up to v obsolete. *)
Promote(v) ==
    /\ committed' = Max2(committed, v)
    /\ fence' = IF fence <= v THEN 0 ELSE fence

writeUserCache(s, includeQuota) ==
    IF Rejects(s.v)
    THEN UNCHANGED redis
    ELSE /\ Promote(s.v)
         /\ hash' = IF hash = NoHash /\ ~includeQuota THEN hash
                    ELSE [v |-> s.v, group |-> s.group, by |-> "snapshot", before |-> FALSE]

updateUserCacheFieldAtVersion(s) ==
    IF Rejects(s.v)
    THEN UNCHANGED redis
    ELSE /\ Promote(s.v)
         /\ hash' = IF hash.v # s.v THEN hash
                    ELSE [v |-> hash.v, group |-> s.group, by |-> "refresh", before |-> hash.before]

(* Mutant: the pending version goes straight to the permanent floor. *)
MutFenceForEver(v) ==
    /\ committed' = Max2(committed, v)
    /\ UNCHANGED <<hash, fence>>

(* The TTL of the fence starts again, unless a higher fence stands. *)
SetUserAuthVersionFence(v) ==
    /\ fence' = Max2(fence, v)
    /\ hash' = IF hash # NoHash /\ fence <= v THEN [hash EXCEPT !.before = TRUE] ELSE hash
    /\ UNCHANGED committed

(* Mutant: the tombstone only lifts the fence. *)
MutTombstone(v) ==
    /\ fence' = IF fence <= v THEN 0 ELSE fence
    /\ UNCHANGED <<hash, committed>>

publishCommittedUserAuthVersion(v) == Promote(v) /\ UNCHANGED hash
-----------------------------------------------------------------------------
(***************************************************************************)
(* GetUserCache.                                                           *)
(***************************************************************************)
(* HGETALL of cacheGetUserBase: a miss and an error both go on to the row. *)
GetUserCache(r) ==
    /\ pc[r] = "idle"
    /\ since' = [since EXCEPT ![r] = db.v]
    /\ pubSince' = [pubSince EXCEPT ![r] = published]
    /\ \/ hash # NoHash /\ NoFault /\ Goto(r, "floor")
          /\ Hold(r, [v |-> hash.v, group |-> hash.group])
       \/ hash = NoHash /\ NoFault /\ Goto(r, "read") /\ UNCHANGED snap
       \/ Fault /\ Goto(r, "read") /\ UNCHANGED snap
    /\ UNCHANGED <<db, holder, redis, cur, kind, tries, published, late, crashes>>

(* MGET of the two floors, the end of cacheGetUserBase. *)
cacheGetUserBase(r) ==
    /\ pc[r] = "floor"
    /\ \/ getUserAuthVersionFloor <= snap[r].v /\ NoFault /\ Goto(r, "served")
       \/ getUserAuthVersionFloor > snap[r].v /\ NoFault /\ Goto(r, "read")
       \/ Fault /\ Goto(r, "read")
    /\ UNCHANGED <<db, holder, redis, locals, published, past, crashes>>

(* GetUserById: a deleted user is not found. *)
GetUserById(r) ==
    /\ pc[r] = "read"
    /\ \/ db.row = "live" /\ NoFault /\ Hold(r, Row) /\ Goto(r, "check")
       \/ db.row # "live" /\ NoFault /\ Goto(r, "denied") /\ UNCHANGED snap
       \/ Fault /\ Goto(r, "denied") /\ UNCHANGED snap
    /\ UNCHANGED <<db, holder, redis, cur, kind, tries, published, past, crashes>>

(* An error of MGET lets the snapshot through to populateUserCache. *)
checkFloor(r) ==
    /\ pc[r] = "check"
    /\ \/ getUserAuthVersionFloor <= snap[r].v /\ NoFault /\ Goto(r, "fill")
       \/ getUserAuthVersionFloor > snap[r].v /\ NoFault /\ Goto(r, "denied")
       \/ Fault /\ Goto(r, "fill")
    /\ UNCHANGED <<db, holder, redis, locals, published, past, crashes>>

(* An error, with the script executed or not, is logged and the user served. *)
populateUserCache(r) ==
    /\ pc[r] = "fill"
    /\ \/ NoFault /\ Goto(r, IF Rejects(snap[r].v) THEN "denied" ELSE "served")
          /\ writeUserCache(snap[r], TRUE)
       \/ Fault /\ Goto(r, "served")
          /\ (writeUserCache(snap[r], TRUE) \/ UNCHANGED redis)
    /\ UNCHANGED <<db, holder, locals, published, past, crashes>>
-----------------------------------------------------------------------------
(***************************************************************************)
(* Restrictive changes: IncrementUserAuthVersionWithTx in a transaction,   *)
(* then the publication.                                                   *)
(***************************************************************************)
Release(a) == holder' = IF holder = a THEN NoOne ELSE holder

(* SELECT ... FOR UPDATE, unscoped: only a hard-deleted user is not found. *)
lockUser(a) ==
    /\ pc[a] \in {"idle", "lock"}
    /\ \/ /\ db.row # "gone" /\ NoFault
          /\ RowLock => holder \in {NoOne, a}
          /\ holder' = IF RowLock THEN a ELSE holder
          /\ cur' = [cur EXCEPT ![a] = db.v]
          /\ Goto(a, "fence")
       \/ db.row = "gone" /\ NoFault /\ Goto(a, "failed") /\ UNCHANGED cur /\ Release(a)
    /\ UNCHANGED <<db, redis, snap, kind, tries, published, past, crashes>>

setFence(a) ==
    /\ pc[a] = "fence"
    /\ \/ NoFault /\ SetUserAuthVersionFence(cur[a] + 1) /\ Goto(a, "update") /\ UNCHANGED holder
       \/ Fault /\ (SetUserAuthVersionFence(cur[a] + 1) \/ UNCHANGED redis)
          /\ Goto(a, "failed") /\ Release(a)
    /\ UNCHANGED <<db, locals, published, past, crashes>>

(* UPDATE ... WHERE auth_version = cur; no row means another change won. *)
updateVersion(a) ==
    /\ pc[a] = "update"
    /\ holder \in {NoOne, a}
    /\ NoFault
    /\ \/ db.v = cur[a] /\ holder' = a /\ Goto(a, "commit") /\ UNCHANGED tries
       \/ /\ db.v # cur[a]
          /\ tries' = [tries EXCEPT ![a] = @ + 1]
          /\ Goto(a, IF tries[a] + 1 < VersionAttempts THEN "lock" ELSE "failed")
          /\ IF tries[a] + 1 < VersionAttempts THEN UNCHANGED holder ELSE Release(a)
    /\ UNCHANGED <<db, redis, snap, cur, kind, published, past, crashes>>

(* The other statements of the transaction and its commit.  Edit and Update *)
(* may change the group and read the row back before they commit.           *)
commit(a) ==
    /\ pc[a] = "commit"
    /\ NoFault
    /\ kind[a] = "update" => db.row = "live"
    /\ holder' = NoOne
    /\ \E g \in Groups :
          /\ kind[a] # "update" => g = db.group
          /\ db' = [v     |-> cur[a] + 1,
                    group |-> g,
                    row   |-> CASE kind[a] = "hardDelete" -> "gone"
                                [] kind[a] = "delete"     -> "deleted"
                                [] OTHER                  -> db.row]
          /\ Hold(a, [v |-> cur[a] + 1, group |-> g])
    /\ Goto(a, CASE kind[a] = "publish" -> "reread"
                 [] kind[a] = "update"  -> "write"
                 [] OTHER               -> "tombstone")
    /\ UNCHANGED <<redis, cur, kind, tries, published, past, crashes>>

(* A statement fails, or Update does not find the user any more. *)
rollback(a) ==
    /\ pc[a] \in {"lock", "update", "commit"}
    /\ \/ Fault
       \/ pc[a] = "commit" /\ kind[a] = "update" /\ db.row # "live" /\ NoFault
    /\ Release(a)
    /\ Goto(a, "failed")
    /\ UNCHANGED <<db, redis, locals, published, past, crashes>>

(* PublishUserAuthCache reads the row again; so does ClearBinding. *)
PublishUserAuthCache(p) ==
    /\ pc[p] = "reread"
    /\ \/ db.row = "live" /\ NoFault /\ Hold(p, Row) /\ Goto(p, "write")
       \/ db.row # "live" /\ NoFault /\ Goto(p, "failed") /\ UNCHANGED snap
       \/ Fault /\ Goto(p, "failed") /\ UNCHANGED snap
    /\ UNCHANGED <<db, holder, redis, cur, kind, tries, published, past, crashes>>

updateUserCache(p) ==
    /\ pc[p] = "write"
    /\ \/ /\ NoFault /\ ~Rejects(snap[p].v)
          /\ writeUserCache(snap[p], FALSE)
          /\ published' = Max2(published, snap[p].v)
          /\ Goto(p, "done")
       \/ /\ NoFault /\ Rejects(snap[p].v)
          /\ Goto(p, "failed") /\ UNCHANGED <<redis, published>>
       \/ /\ Fault
          /\ writeUserCache(snap[p], FALSE) \/ UNCHANGED redis
          /\ Goto(p, "failed") /\ UNCHANGED published
    /\ UNCHANGED <<db, holder, locals, past, crashes>>

(* Delete and HardDelete: Delete gives up on an error, HardDelete logs it. *)
publishTombstone(a) ==
    /\ pc[a] = "tombstone"
    /\ \/ /\ NoFault /\ publishCommittedUserAuthVersion(cur[a] + 1)
          /\ published' = Max2(published, cur[a] + 1)
          /\ Goto(a, "invalidate")
       \/ /\ Fault
          /\ publishCommittedUserAuthVersion(cur[a] + 1) \/ UNCHANGED redis
          /\ Goto(a, IF kind[a] = "delete" THEN "failed" ELSE "invalidate")
          /\ UNCHANGED published
    /\ UNCHANGED <<db, holder, locals, past, crashes>>

(* Delete revokes the sessions first, which may fail too. *)
invalidateUserCache(a) ==
    /\ pc[a] = "invalidate"
    /\ \/ NoFault /\ hash' = NoHash /\ Goto(a, "done")
       \/ Fault /\ UNCHANGED hash /\ Goto(a, "failed")
    /\ UNCHANGED <<db, holder, fence, committed, locals, published, past, crashes>>
-----------------------------------------------------------------------------
(***************************************************************************)
(* Updates at an unchanged version.                                        *)
(***************************************************************************)
(* EditWithTx reads the row before it locks it. *)
editProfile(p) ==
    /\ pc[p] = "idle"
    /\ \/ db.row = "live" /\ Hold(p, Row) /\ Goto(p, "edit")
       \/ db.row # "live" /\ Goto(p, "failed") /\ UNCHANGED snap
    /\ UNCHANGED <<db, holder, redis, cur, kind, tries, published, past, faults, crashes>>

(* Edit writes the group it read, Update and ClearBinding leave it alone.  *)
(* Edit and Update read the row back in the transaction, ClearBinding      *)
(* after it.                                                               *)
saveProfile(p) ==
    /\ pc[p] = "edit"
    /\ holder = NoOne
    /\ \/ /\ db.row = "live" /\ NoFault
          /\ \E g \in {snap[p].group, db.group} :
                /\ db' = [db EXCEPT !.group = g]
                /\ Hold(p, [v |-> db.v, group |-> g])
          /\ Goto(p, "write")
       \/ db.row = "live" /\ NoFault /\ Goto(p, "reread") /\ UNCHANGED <<db, snap>>
       \/ db.row # "live" /\ NoFault /\ Goto(p, "failed") /\ UNCHANGED <<db, snap>>
       \/ Fault /\ Goto(p, "failed") /\ UNCHANGED <<db, snap>>
    /\ UNCHANGED <<holder, redis, cur, kind, tries, published, past, crashes>>

(* A subscription begins or ends and sets the group of a user that is not  *)
(* deleted.                                                                *)
setGroup(f) ==
    /\ pc[f] = "idle"
    /\ holder = NoOne
    /\ \E g \in Groups :
          /\ db.row # "live" => g = db.group
          /\ db' = [db EXCEPT !.group = g]
    /\ Goto(f, "refresh")
    /\ UNCHANGED <<holder, redis, locals, published, past, faults, crashes>>

(* RefreshUserGroupCache: the first read. *)
RefreshUserGroupCache(f) ==
    /\ pc[f] = "refresh"
    /\ \/ db.row = "live" /\ NoFault /\ Hold(f, Row) /\ Goto(f, "field")
       \/ db.row # "live" /\ NoFault /\ Goto(f, "failed") /\ UNCHANGED snap
       \/ Fault /\ Goto(f, "failed") /\ UNCHANGED snap
    /\ UNCHANGED <<db, holder, redis, cur, kind, tries, published, past, crashes>>

(* The write after the last round ends in an error whatever it does. *)
writeGroup(f) ==
    /\ pc[f] = "field"
    /\ \/ /\ NoFault
          /\ updateUserCacheFieldAtVersion(snap[f])
          /\ Goto(f, IF Rejects(snap[f].v) \/ tries[f] = RefreshAttempts
                     THEN "failed" ELSE "verify")
       \/ /\ Fault
          /\ updateUserCacheFieldAtVersion(snap[f]) \/ UNCHANGED redis
          /\ Goto(f, "failed")
    /\ UNCHANGED <<db, holder, locals, published, past, crashes>>

(* Mutant: the refresh is not verified. *)
MutNoVerify(f) ==
    /\ pc[f] = "verify"
    /\ NoFault /\ Goto(f, "done")
    /\ UNCHANGED <<db, holder, redis, locals, published, past, crashes>>

verifyGroup(f) ==
    /\ pc[f] = "verify"
    /\ \/ /\ db.row = "live" /\ NoFault /\ Row = snap[f]
          /\ Goto(f, "done") /\ UNCHANGED <<snap, tries>>
       \/ /\ db.row = "live" /\ NoFault /\ Row # snap[f]
          /\ Hold(f, Row) /\ tries' = [tries EXCEPT ![f] = @ + 1]
          /\ Goto(f, "field")
       \/ db.row # "live" /\ NoFault /\ Goto(f, "failed") /\ UNCHANGED <<snap, tries>>
       \/ Fault /\ Goto(f, "failed") /\ UNCHANGED <<snap, tries>>
    /\ UNCHANGED <<db, holder, redis, cur, kind, published, past, crashes>>
-----------------------------------------------------------------------------
(***************************************************************************)
(* Expiry and crashes.                                                     *)
(***************************************************************************)
(* userCacheTTLSeconds after the last write of the hash. *)
ExpireHash ==
    /\ hash # NoHash
    /\ hash' = NoHash
    /\ UNCHANGED <<db, holder, fence, committed, pc, locals, published, past, faults, crashes>>

(* A call that relies on the fence: a transaction between publishing the   *)
(* fence and its end, and a caller about to use an older snapshot.         *)
Covered(p) ==
    \/ p \in Admins /\ pc[p] \in {"update", "commit"} /\ cur[p] + 1 <= fence
    \/ pc[p] \in {"floor", "check", "fill", "write", "field"} /\ snap[p].v < fence

DropFence ==
    /\ fence # 0
    /\ fence' = 0
    /\ late' = (late \/ \E p \in Procs : Covered(p))
    /\ UNCHANGED <<db, holder, hash, committed, pc, locals, published, since, pubSince,
                   faults, crashes>>

(* Mutant: the TTL of a fence is shorter than that of a hash. *)
MutFenceTTL == DropFence

(* userAuthFenceTTLSeconds is more than userCacheTTLSeconds: a fence expires *)
(* after every hash whose TTL began before its own.                         *)
ExpireFence == ~hash.before /\ DropFence

(* The process of call p dies; the database rolls its transaction back. *)
Crash(p) ==
    /\ crashes < MaxCrashes
    /\ pc[p] \in Busy
    /\ crashes' = crashes + 1
    /\ Release(p)
    /\ Goto(p, "failed")
    /\ UNCHANGED <<db, redis, locals, published, past, faults>>

Read(r) ==
    GetUserCache(r) \/ cacheGetUserBase(r) \/ GetUserById(r) \/ checkFloor(r) \/ populateUserCache(r)

Change(a) ==
    \/ lockUser(a) \/ setFence(a) \/ updateVersion(a) \/ commit(a) \/ rollback(a)
    \/ PublishUserAuthCache(a) \/ updateUserCache(a)
    \/ publishTombstone(a) \/ invalidateUserCache(a)

Profile(p) ==
    editProfile(p) \/ saveProfile(p) \/ PublishUserAuthCache(p) \/ updateUserCache(p)

Refresh(f) == setGroup(f) \/ RefreshUserGroupCache(f) \/ writeGroup(f) \/ verifyGroup(f)

Next ==
    \/ \E r \in Readers : Read(r)
    \/ \E a \in Admins : Change(a)
    \/ \E p \in Profiles : Profile(p)
    \/ \E f \in Refreshers : Refresh(f)
    \/ ExpireHash \/ ExpireFence
    \/ \E p \in Procs : Crash(p)

(* Go schedules a call that has begun until it returns; Redis drops a key  *)
(* whose TTL is over.                                                      *)
Fairness ==
    /\ \A r \in Readers : WF_vars(pc[r] # "idle" /\ Read(r))
    /\ \A a \in Admins : WF_vars(pc[a] # "idle" /\ Change(a))
    /\ \A p \in Profiles : WF_vars(pc[p] # "idle" /\ Profile(p))
    /\ \A f \in Refreshers : WF_vars(pc[f] # "idle" /\ Refresh(f))
    /\ WF_vars(ExpireHash) /\ WF_vars(ExpireFence)

Spec == Init /\ [][Next]_vars /\ Fairness
-----------------------------------------------------------------------------
(***************************************************************************)
(* Properties.                                                             *)
(***************************************************************************)
(* The variables keep their types. *)
TypeOK ==
    /\ db \in [v : Nat, group : Groups, row : {"live", "deleted", "gone"}]
    /\ holder \in Admins \union {NoOne}
    /\ hash \in Hash /\ fence \in Nat /\ committed \in Nat
    /\ pc \in [Procs -> {"idle"} \union Busy \union Ended]
    /\ snap \in [Procs -> Snapshot]
    /\ cur \in [Admins -> Nat] /\ kind \in [Admins -> Kinds]
    /\ tries \in [Procs -> Nat]
    /\ published \in Nat
    /\ since \in [Readers -> Nat] /\ pubSince \in [Readers -> Nat]
    /\ late \in BOOLEAN
    /\ faults \in 0..MaxFaults /\ crashes \in 0..MaxCrashes

(* Only versions that the database has committed reach the permanent floor: *)
(* otherwise a rolled-back change would lock the user out for good, for     *)
(* GetUserCache refuses every row below the floor.                          *)
FloorIsCommitted == committed <= db.v

(* Once a change has been published (PublishUserAuthCache, updateUserCache  *)
(* or the tombstone returned no error), no call of GetUserCache that begins *)
(* later serves an older version, however long a cache fill or another      *)
(* transaction was delayed, whatever crashed or expired.                    *)
NoStaleAfterPublish ==
    \A r \in Readers : pc[r] = "served" => snap[r].v >= pubSince[r]

(* While no transaction and no cache fill has outlived a fence's TTL, the   *)
(* same holds from the commit on, even if the publication fails or its      *)
(* process dies: no call that begins after the commit serves an older state.*)
NoStaleAfterCommit ==
    ~late => \A r \in Readers : pc[r] = "served" => snap[r].v >= since[r]

(* RefreshUserGroupCache repairs what a delayed refresh has overwritten:    *)
(* when every refresh and edit has ended without an error, a group in the   *)
(* hash that a refresh wrote is the group of the row.                       *)
GroupRepaired ==
    /\ \A p \in Refreshers \union Profiles : pc[p] \in {"idle", "done"}
    /\ db.row = "live" /\ hash.v = db.v /\ hash.by = "refresh"
    => hash.group = db.group

(* A change that is given up after its fence was published does not lock    *)
(* the user out: again and again every call that has begun has ended (none  *)
(* keeps the row) and no floor is above the row.                            *)
AccessHeals ==
    []<>(/\ \A p \in Procs : pc[p] \notin Busy
         /\ getUserAuthVersionFloor <= db.v)
=============================================================================
