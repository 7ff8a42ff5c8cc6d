------------------------ MODULE UserAuthCache_proofs ------------------------
(***************************************************************************)
(* Proofs about UserAuthCache: types, the committed floor, and that no     *)
(* reader is served a state older than the one committed, or published,    *)
(* when it began, and that the group in the hash is repaired; for any      *)
(* number of calls, faults and crashes.                                    *)
(***************************************************************************)
EXTENDS UserAuthCache, TLAPS

Floor == Max2(fence, committed)

(* Nothing in Redis or in a caller's hands is ahead of the row; what was   *)
(* published is on the permanent floor.                                    *)
Versions ==
    /\ committed <= db.v
    /\ hash.v <= committed
    /\ published <= committed
    /\ \A p \in Procs : snap[p].v <= db.v
    /\ \A r \in Readers : since[r] <= db.v /\ pubSince[r] <= published

(* A transaction about to commit has the row, at the version it read. *)
Transactions ==
    \A a \in Admins :
        /\ pc[a] = "commit" => holder = a /\ cur[a] = db.v
        /\ pc[a] = "tombstone" => cur[a] + 1 <= db.v

(* A reader past the database read holds a row it read after it began. *)
Reads ==
    \A r \in Readers :
        /\ pc[r] \in {"check", "fill"} => snap[r].v >= since[r] /\ snap[r].v >= pubSince[r]
        /\ pc[r] = "served" => snap[r].v >= pubSince[r]

Using == {"floor", "check", "fill", "write", "field"}

(* While no fence expired too early: a floor covers the committed version, *)
(* or nothing older than the row is cached or in use; a floor covers every *)
(* open transaction; and an older hash expires before the fence.           *)
Fences ==
    /\ \/ Floor >= db.v
       \/ /\ hash = NoHash \/ hash.v >= db.v
          /\ \A p \in Procs : pc[p] \in Using => snap[p].v >= db.v
    /\ \A a \in Admins : pc[a] \in {"update", "commit"} => Floor >= cur[a] + 1
    /\ fence # 0 /\ hash # NoHash /\ hash.v < fence => hash.before
    /\ \A r \in Readers : pc[r] = "served" => snap[r].v >= since[r]

IInv == TypeOK /\ Versions /\ Transactions /\ Reads /\ (~late => Fences)

(***************************************************************************)
(* What a script run with version v may do to the three keys.              *)
(***************************************************************************)
RedisMoves(v) ==
    /\ hash' \in Hash /\ fence' \in Nat /\ committed' \in Nat
    /\ committed <= committed' /\ committed' <= db.v
    /\ hash'.v <= committed'
    /\ fence' \in {0, fence}
    /\ Floor' >= Floor
    /\ \/ hash' \in {hash, NoHash}
       \/ fence' = 0 /\ hash'.v = v /\ v >= Floor

(* A step that leaves Redis alone is a move, too. *)
LEMMA NothingMoves ==
    ASSUME TypeOK, Versions, NEW v \in Nat, UNCHANGED redis
    PROVE  RedisMoves(v)
<1>1. hash \in Hash /\ fence \in Nat /\ committed \in Nat /\ db.v \in Nat
  BY DEF TypeOK
<1>2. committed <= db.v /\ hash.v <= committed /\ hash.v \in Nat
  BY <1>1 DEF Versions, Hash
<1> QED
  BY <1>1, <1>2 DEF RedisMoves, Floor, Max2, redis

(* writeUserCache of a snapshot that is not ahead of the row. *)
LEMMA WriteMoves ==
    ASSUME TypeOK, Versions, NEW s \in Snapshot, s.v <= db.v, NEW q \in BOOLEAN,
           writeUserCache(s, q)
    PROVE  RedisMoves(s.v)
<1>1. hash \in Hash /\ fence \in Nat /\ committed \in Nat /\ db.v \in Nat /\ s.v \in Nat
  BY DEF TypeOK, Snapshot
<1>2. committed <= db.v /\ hash.v <= committed
  BY DEF Versions
<1>3. hash.v \in Nat /\ s.group \in Groups
  BY <1>1 DEF Hash, Snapshot
<1>4. CASE Rejects(s.v)
  BY <1>1, <1>4, NothingMoves DEF writeUserCache
<1>5. CASE ~Rejects(s.v)
  <2>1. Promote(s.v) /\ fence <= s.v /\ committed <= s.v
    BY <1>1, <1>5 DEF writeUserCache, Rejects
  <2>2. fence' = 0 /\ committed' = s.v
    BY <1>1, <2>1 DEF Promote, Max2
  <2>3. hash' = hash \/ hash' = [v |-> s.v, group |-> s.group, by |-> "snapshot", before |-> FALSE]
    BY <1>5 DEF writeUserCache
  <2>4. hash' \in Hash /\ hash'.v <= s.v /\ (hash' = hash \/ hash'.v = s.v)
    <3>1. CASE hash' = hash
      BY <1>1, <1>2, <1>3, <2>1, <3>1
    <3>2. CASE hash' = [v |-> s.v, group |-> s.group, by |-> "snapshot", before |-> FALSE]
      BY <1>1, <1>3, <3>2 DEF Hash
    <3> QED
      BY <2>3, <3>1, <3>2
  <2>5. Floor <= s.v /\ Floor' = s.v
    BY <1>1, <2>1, <2>2 DEF Floor, Max2
  <2> QED
    BY <1>1, <2>1, <2>2, <2>4, <2>5 DEF RedisMoves, Floor, Max2
<1> QED
  BY <1>4, <1>5

(* updateUserCacheFieldAtVersion at a version that is not ahead of the row. *)
LEMMA FieldMoves ==
    ASSUME TypeOK, Versions, NEW s \in Snapshot, s.v <= db.v,
           updateUserCacheFieldAtVersion(s)
    PROVE  RedisMoves(s.v)
<1>1. hash \in Hash /\ fence \in Nat /\ committed \in Nat /\ db.v \in Nat /\ s.v \in Nat
  BY DEF TypeOK, Snapshot
<1>2. committed <= db.v /\ hash.v <= committed
  BY DEF Versions
<1>3. hash.v \in Nat /\ s.group \in Groups
  BY <1>1 DEF Hash, Snapshot
<1>4. CASE Rejects(s.v)
  BY <1>1, <1>4, NothingMoves DEF updateUserCacheFieldAtVersion
<1>5. CASE ~Rejects(s.v)
  <2>1. Promote(s.v) /\ fence <= s.v /\ committed <= s.v
    BY <1>1, <1>5 DEF updateUserCacheFieldAtVersion, Rejects
  <2>2. fence' = 0 /\ committed' = s.v
    BY <1>1, <2>1 DEF Promote, Max2
  <2>3. hash' = hash \/ (hash.v = s.v /\ hash' = [v |-> hash.v, group |-> s.group, by |-> "refresh", before |-> hash.before])
    BY <1>5 DEF updateUserCacheFieldAtVersion
  <2>4. hash' \in Hash /\ hash'.v <= s.v /\ (hash' = hash \/ hash'.v = s.v)
    <3>1. CASE hash' = hash
      BY <1>1, <1>2, <1>3, <2>1, <3>1
    <3>2. CASE hash.v = s.v /\ hash' = [v |-> hash.v, group |-> s.group, by |-> "refresh", before |-> hash.before]
      BY <1>1, <1>3, <3>2 DEF Hash
    <3> QED
      BY <2>3, <3>1, <3>2
  <2>5. Floor <= s.v /\ Floor' = s.v
    BY <1>1, <2>1, <2>2 DEF Floor, Max2
  <2> QED
    BY <1>1, <2>1, <2>2, <2>4, <2>5 DEF RedisMoves, Floor, Max2
<1> QED
  BY <1>4, <1>5

(* publishCommittedUserAuthVersion of a committed version. *)
LEMMA TombstoneMoves ==
    ASSUME TypeOK, Versions, NEW v \in Nat, v <= db.v,
           publishCommittedUserAuthVersion(v)
    PROVE  RedisMoves(v) /\ hash' = hash /\ committed' >= v
<1>1. hash \in Hash /\ fence \in Nat /\ committed \in Nat /\ db.v \in Nat
  BY DEF TypeOK
<1>2. committed <= db.v /\ hash.v <= committed /\ hash.v \in Nat
  BY <1>1 DEF Versions, Hash
<1>3. hash' = hash /\ committed' = Max2(committed, v) /\ fence' = (IF fence <= v THEN 0 ELSE fence)
  BY DEF publishCommittedUserAuthVersion, Promote
<1> QED
  BY <1>1, <1>2, <1>3 DEF RedisMoves, Floor, Max2

(***************************************************************************)
(* A step of call p to label l with snapshot s that starts no transaction  *)
(* and leaves auth_version alone.                                          *)
(***************************************************************************)
PCs == {"idle"} \union Busy \union Ended

Types(p, l, s) ==
    /\ p \in Procs /\ l \in PCs /\ s \in Snapshot
    /\ pc' = [pc EXCEPT ![p] = l]
    /\ snap' = [snap EXCEPT ![p] = s]
    /\ db' \in [v : Nat, group : Groups, row : {"live", "deleted", "gone"}]
    /\ holder' \in Admins \union {NoOne}
    /\ tries' \in [Procs -> Nat]
    /\ published' \in Nat
    /\ faults' \in 0..MaxFaults /\ crashes' \in 0..MaxCrashes
    /\ cur' = cur /\ kind' = kind
    /\ since' = since /\ pubSince' = pubSince /\ late' = late

CallStep(p, l, s) ==
    /\ Types(p, l, s)
    /\ db'.v = db.v
    /\ RedisMoves(s.v)
    /\ hash' \in {hash, NoHash} \/ (pc[p] \in Using /\ s = snap[p])
    /\ published <= published' /\ published' <= committed'
    /\ \A a \in Admins : a # p /\ holder = a => holder' = a
    /\ l \notin {"update", "commit", "tombstone"}
    /\ s.v <= db.v
    /\ l \in Using => s.v = db.v \/ (pc[p] \in Using /\ s = snap[p])
    /\ l \in {"check", "fill"} => s.v = db.v \/ (pc[p] \in {"check", "fill"} /\ s = snap[p])
    /\ l = "served" => s = snap[p] /\ (pc[p] = "fill" \/ (pc[p] = "floor" /\ Floor <= s.v))

(* Such a step keeps the invariant. *)
LEMMA StepPreserves ==
    ASSUME IInv, NEW p, NEW l, NEW s, CallStep(p, l, s)
    PROVE  IInv'
<1> USE DEF IInv
<1>1. /\ Types(p, l, s) /\ RedisMoves(s.v)
      /\ s.v \in Nat /\ db.v \in Nat /\ hash.v \in Nat /\ fence \in Nat /\ committed \in Nat
      /\ hash'.v \in Nat /\ fence' \in Nat /\ committed' \in Nat /\ s.v <= db.v
      /\ published \in Nat /\ published' \in Nat
  BY DEF CallStep, Types, Snapshot, TypeOK, RedisMoves, Hash
<1>2. /\ pc'[p] = l /\ snap'[p] = s
      /\ \A q \in Procs : q # p => pc'[q] = pc[q] /\ snap'[q] = snap[q]
      /\ Readers \subseteq Procs /\ Admins \subseteq Procs /\ p \in Procs
  BY <1>1 DEF TypeOK, Types, Procs
<1>3. \A q \in Procs : snap[q].v \in Nat /\ snap'[q].v \in Nat
  BY <1>1, <1>2 DEF TypeOK, Snapshot, Types
<1>4. /\ \A r \in Readers : since[r] \in Nat /\ pubSince[r] \in Nat
      /\ \A a \in Admins : cur[a] \in Nat
  BY DEF TypeOK
<1>5. cur' = cur /\ since' = since /\ pubSince' = pubSince /\ late' = late /\ db'.v = db.v
  BY <1>1 DEF Types, CallStep
<1>6. Floor \in Nat /\ Floor' \in Nat /\ Floor <= Floor' /\ fence <= Floor /\ committed <= Floor
  BY <1>1 DEF RedisMoves, Floor, Max2
<1>7. TypeOK'
  BY <1>1 DEF TypeOK, Types, RedisMoves, PCs
<1>8. Versions'
  BY <1>1, <1>2, <1>3, <1>4, <1>5 DEF Versions, CallStep, RedisMoves
<1>9. Transactions'
  BY <1>1, <1>2, <1>4, <1>5 DEF Transactions, CallStep
<1>10. Reads'
  <2> SUFFICES ASSUME NEW r \in Readers
               PROVE  /\ pc'[r] \in {"check", "fill"} => snap'[r].v >= since[r] /\ snap'[r].v >= pubSince[r]
                      /\ pc'[r] = "served" => snap'[r].v >= pubSince[r]
    BY <1>5 DEF Reads
  <2>1. since[r] <= db.v /\ pubSince[r] <= published /\ published <= committed /\ committed <= db.v
    BY DEF Versions
  <2>2. CASE r # p
    BY <1>2, <2>2 DEF Reads
  <2>3. CASE r = p /\ l \in {"check", "fill"}
    BY <1>1, <1>2, <1>3, <1>4, <2>1, <2>3 DEF Reads, CallStep
  <2>4. CASE r = p /\ l = "served"
    <3>1. s = snap[p] /\ (pc[p] = "fill" \/ Floor <= s.v)
      BY <2>4 DEF CallStep
    <3> QED
      BY <1>1, <1>2, <1>3, <1>4, <1>6, <2>1, <2>4, <3>1 DEF Reads
  <2> QED
    BY <1>2, <2>2, <2>3, <2>4
<1>11. ASSUME ~late' PROVE Fences'
  <2>1. Fences
    BY <1>5, <1>11
  <2>2. \/ Floor' >= db.v
        \/ /\ hash' = NoHash \/ hash'.v >= db.v
           /\ \A q \in Procs : pc'[q] \in Using => snap'[q].v >= db.v
    <3>1. CASE Floor >= db.v
      BY <1>1, <1>6, <3>1
    <3>2. CASE /\ hash = NoHash \/ hash.v >= db.v
               /\ \A q \in Procs : pc[q] \in Using => snap[q].v >= db.v
      <4>1. \A q \in Procs : pc'[q] \in Using => snap'[q].v >= db.v
        BY <1>1, <1>2, <3>2 DEF CallStep
      <4>2. hash' = NoHash \/ hash'.v >= db.v
        BY <1>1, <1>2, <3>2 DEF CallStep, RedisMoves
      <4> QED
        BY <4>1, <4>2
    <3> QED
      BY <2>1, <3>1, <3>2 DEF Fences
  <2>3. \A a \in Admins : pc'[a] \in {"update", "commit"} => Floor' >= cur[a] + 1
    BY <1>1, <1>2, <1>4, <1>6, <2>1 DEF Fences, CallStep
  <2>4. fence' # 0 /\ hash' # NoHash /\ hash'.v < fence' => hash'.before
    BY <1>1, <2>1 DEF Fences, RedisMoves
  <2>5. \A r \in Readers : pc'[r] = "served" => snap'[r].v >= since[r]
    <3> SUFFICES ASSUME NEW r \in Readers, pc'[r] = "served"
                 PROVE  snap'[r].v >= since[r]
      OBVIOUS
    <3>1. CASE r # p
      BY <1>2, <2>1, <3>1 DEF Fences
    <3>2. CASE r = p
      <4>1. s = snap[p] /\ (pc[p] = "fill" \/ (pc[p] = "floor" /\ Floor <= s.v))
        BY <1>2, <3>2 DEF CallStep
      <4>2. CASE pc[p] = "fill"
        BY <1>2, <3>2, <4>1, <4>2 DEF Reads
      <4>3. CASE pc[p] = "floor" /\ Floor <= s.v
        <5>1. s.v >= db.v
          BY <1>1, <1>2, <1>6, <2>1, <4>1, <4>3 DEF Fences, Using
        <5>2. since[r] <= db.v
          BY DEF Versions
        <5> QED
          BY <1>1, <1>2, <1>4, <3>2, <5>1, <5>2
      <4> QED
        BY <4>1, <4>2, <4>3
    <3> QED
      BY <3>1, <3>2
  <2> QED
    BY <1>5, <2>2, <2>3, <2>4, <2>5 DEF Fences
<1> QED
  BY <1>7, <1>8, <1>9, <1>10, <1>11

(* What the lemmas below need of the state before a step. *)
LEMMA Facts ==
    ASSUME IInv, NEW p \in Procs
    PROVE  /\ snap[p] \in Snapshot /\ snap[p].v \in Nat /\ snap[p].v <= db.v
           /\ Row \in Snapshot /\ Row.v = db.v /\ db.v \in Nat
           /\ snap = [snap EXCEPT ![p] = snap[p]]
           /\ db \in [v : Nat, group : Groups, row : {"live", "deleted", "gone"}]
           /\ holder \in Admins \union {NoOne}
           /\ tries \in [Procs -> Nat]
           /\ published \in Nat /\ committed \in Nat /\ published <= committed
           /\ fence \in Nat /\ hash \in Hash /\ hash.v \in Nat
           /\ faults \in 0..MaxFaults /\ crashes \in 0..MaxCrashes
           /\ TypeOK /\ Versions
<1>1. TypeOK /\ Versions
  BY DEF IInv
<1>2. snap[p] \in Snapshot /\ snap[p].v \in Nat /\ snap[p].v <= db.v
  BY <1>1 DEF TypeOK, Versions, Snapshot
<1>3. Row \in Snapshot /\ Row.v = db.v /\ db.v \in Nat
  BY <1>1 DEF TypeOK, Row, Snapshot
<1>4. hash \in Hash /\ hash.v \in Nat
  BY <1>1 DEF TypeOK, Hash
<1> QED
  BY <1>1, <1>2, <1>3, <1>4 DEF TypeOK, Versions

(* The bound on faults is kept by both outcomes of a statement. *)
LEMMA FaultTypes ==
    ASSUME faults \in 0..MaxFaults, Fault \/ NoFault
    PROVE  faults' \in 0..MaxFaults
BY BoundsAssumption DEF Fault, NoFault

(* A transaction that ends gives the row back, and no other loses it. *)
LEMMA ReleaseKeeps ==
    ASSUME holder \in Admins \union {NoOne}, NEW p, Release(p)
    PROVE  /\ holder' \in Admins \union {NoOne}
           /\ \A a \in Admins : a # p /\ holder = a => holder' = a
BY DEF Release

(* A call moves to l without touching Redis, the history or a version. *)
Quiet(p, l, s) ==
    /\ l \in PCs \ {"update", "commit", "tombstone"}
    /\ s = snap[p] \/ (s \in Snapshot /\ s.v = db.v)
    /\ Goto(p, l)
    /\ Hold(p, s)
    /\ db' \in [v : Nat, group : Groups, row : {"live", "deleted", "gone"}]
    /\ db'.v = db.v
    /\ holder' \in Admins \union {NoOne}
    /\ \A a \in Admins : a # p /\ holder = a => holder' = a
    /\ tries' \in [Procs -> Nat]
    /\ faults' \in 0..MaxFaults /\ crashes' \in 0..MaxCrashes
    /\ l \in Using => s.v = db.v \/ (pc[p] \in Using /\ s = snap[p])
    /\ l \in {"check", "fill"} => s.v = db.v \/ (pc[p] \in {"check", "fill"} /\ s = snap[p])
    /\ l = "served" => s = snap[p] /\ pc[p] = "floor" /\ Floor <= s.v
    /\ UNCHANGED <<redis, cur, kind, published, past>>

(* A quiet step is one of those and keeps the invariant. *)
LEMMA QuietPreserves ==
    ASSUME IInv, NEW p \in Procs, NEW l, NEW s, Quiet(p, l, s)
    PROVE  IInv'
<1>1. s \in Snapshot /\ s.v \in Nat /\ s.v <= db.v
  BY Facts DEF Quiet
<1>2. UNCHANGED redis /\ hash' = hash /\ committed' = committed /\ published' = published
  BY DEF Quiet, redis
<1>3. RedisMoves(s.v)
  BY <1>1, <1>2, Facts, NothingMoves
<1>4. Types(p, l, s)
  BY <1>1, Facts DEF Types, Quiet, Goto, Hold, past
<1>5. published <= published' /\ published' <= committed'
  BY <1>2, Facts
<1>6. CallStep(p, l, s)
  BY <1>1, <1>2, <1>3, <1>4, <1>5 DEF CallStep, Quiet
<1> QED
  BY <1>6, StepPreserves

(* GetUserCache reads the row. *)
LEMMA GetUserByIdPreserves ==
    ASSUME IInv, NEW p \in Readers, GetUserById(p)
    PROVE  IInv'
<1>1. p \in Procs
  BY DEF Procs
<1>2. Quiet(p, "check", Row) \/ Quiet(p, "denied", snap[p])
  BY <1>1, Facts, FaultTypes DEF GetUserById, Quiet, Hold, PCs, Busy, Ended, Using
<1> QED
  BY <1>1, <1>2, QuietPreserves

(* The hash is served when no floor is above it. *)
LEMMA cacheGetUserBasePreserves ==
    ASSUME IInv, NEW p \in Readers, cacheGetUserBase(p)
    PROVE  IInv'
<1>1. p \in Procs
  BY DEF Procs
<1>2. Quiet(p, "served", snap[p]) \/ Quiet(p, "read", snap[p])
  BY <1>1, Facts, FaultTypes
     DEF cacheGetUserBase, getUserAuthVersionFloor, Floor, Quiet, Hold, PCs, Busy, Ended, Using, locals
<1> QED
  BY <1>1, <1>2, QuietPreserves

(* GetUserCache compares the row with the floors. *)
LEMMA checkFloorPreserves ==
    ASSUME IInv, NEW p \in Readers, checkFloor(p)
    PROVE  IInv'
<1>1. p \in Procs
  BY DEF Procs
<1>2. Quiet(p, "fill", snap[p]) \/ Quiet(p, "denied", snap[p])
  BY <1>1, Facts, FaultTypes DEF checkFloor, Quiet, Hold, PCs, Busy, Ended, Using, locals
<1> QED
  BY <1>1, <1>2, QuietPreserves

(* PublishUserAuthCache and ClearBinding read the row again. *)
LEMMA PublishUserAuthCachePreserves ==
    ASSUME IInv, NEW p \in Admins \union Profiles, PublishUserAuthCache(p)
    PROVE  IInv'
<1>1. p \in Procs
  BY DEF Procs
<1>2. Quiet(p, "write", Row) \/ Quiet(p, "failed", snap[p])
  BY <1>1, Facts, FaultTypes DEF PublishUserAuthCache, Quiet, Hold, PCs, Busy, Ended, Using
<1> QED
  BY <1>1, <1>2, QuietPreserves

(* Edit reads the row before it locks it. *)
LEMMA editProfilePreserves ==
    ASSUME IInv, NEW p \in Profiles, editProfile(p)
    PROVE  IInv'
<1>1. p \in Procs
  BY DEF Procs
<1>2. Quiet(p, "edit", Row) \/ Quiet(p, "failed", snap[p])
  BY <1>1, Facts DEF editProfile, Quiet, Hold, PCs, Busy, Ended, Using
<1> QED
  BY <1>1, <1>2, QuietPreserves

(* A subscription sets the group. *)
LEMMA setGroupPreserves ==
    ASSUME IInv, NEW p \in Refreshers, setGroup(p)
    PROVE  IInv'
<1>1. p \in Procs
  BY DEF Procs
<1>2. Quiet(p, "refresh", snap[p])
  BY <1>1, Facts DEF setGroup, Quiet, Hold, PCs, Busy, Ended, Using, locals
<1> QED
  BY <1>1, <1>2, QuietPreserves

(* RefreshUserGroupCache reads the group. *)
LEMMA RefreshUserGroupCachePreserves ==
    ASSUME IInv, NEW p \in Refreshers, RefreshUserGroupCache(p)
    PROVE  IInv'
<1>1. p \in Procs
  BY DEF Procs
<1>2. Quiet(p, "field", Row) \/ Quiet(p, "failed", snap[p])
  BY <1>1, Facts, FaultTypes DEF RefreshUserGroupCache, Quiet, Hold, PCs, Busy, Ended, Using
<1> QED
  BY <1>1, <1>2, QuietPreserves

(* RefreshUserGroupCache reads the group again. *)
LEMMA verifyGroupPreserves ==
    ASSUME IInv, NEW p \in Refreshers, verifyGroup(p)
    PROVE  IInv'
<1>1. p \in Procs
  BY DEF Procs
<1>2. tries' \in [Procs -> Nat]
  BY <1>1, Facts DEF verifyGroup
<1>3. Quiet(p, "field", Row) \/ Quiet(p, "failed", snap[p]) \/ Quiet(p, "done", snap[p])
  BY <1>1, <1>2, Facts, FaultTypes DEF verifyGroup, Quiet, Hold, PCs, Busy, Ended, Using
<1> QED
  BY <1>1, <1>3, QuietPreserves

(* A restrictive change is rolled back. *)
LEMMA rollbackPreserves ==
    ASSUME IInv, NEW p \in Admins, rollback(p)
    PROVE  IInv'
<1>1. p \in Procs
  BY DEF Procs
<1>2. Quiet(p, "failed", snap[p])
  BY <1>1, Facts, FaultTypes, ReleaseKeeps DEF rollback, Quiet, Hold, PCs, Busy, Ended, Using, locals
<1> QED
  BY <1>1, <1>2, QuietPreserves

(* The process of a call dies. *)
LEMMA CrashPreserves ==
    ASSUME IInv, NEW p \in Procs, Crash(p)
    PROVE  IInv'
<1>1. crashes' \in 0..MaxCrashes
  BY Facts, BoundsAssumption DEF Crash
<1>2. Quiet(p, "failed", snap[p])
  BY <1>1, Facts, ReleaseKeeps DEF Crash, Quiet, Hold, PCs, Busy, Ended, Using, locals
<1> QED
  BY <1>2, QuietPreserves

(* A profile update commits at the same version. *)
LEMMA saveProfilePreserves ==
    ASSUME IInv, NEW p \in Profiles, saveProfile(p)
    PROVE  IInv'
<1>1. p \in Procs
  BY DEF Procs
<1>2. ASSUME NEW g \in {snap[p].group, db.group}
      PROVE  /\ [v |-> db.v, group |-> g] \in Snapshot
             /\ [db EXCEPT !.group = g] \in [v : Nat, group : Groups, row : {"live", "deleted", "gone"}]
             /\ [db EXCEPT !.group = g].v = db.v
  BY <1>1, Facts DEF Snapshot
<1>3. \/ \E g \in {snap[p].group, db.group} : Quiet(p, "write", [v |-> db.v, group |-> g])
      \/ Quiet(p, "reread", snap[p])
      \/ Quiet(p, "failed", snap[p])
  BY <1>1, <1>2, Facts, FaultTypes DEF saveProfile, Quiet, Hold, PCs, Busy, Ended, Using
<1> QED
  BY <1>1, <1>3, QuietPreserves

(* GetUserCache fills the hash. *)
LEMMA populateUserCachePreserves ==
    ASSUME IInv, NEW p \in Readers, populateUserCache(p)
    PROVE  IInv'
<1>1. p \in Procs
  BY DEF Procs
<1>2. RedisMoves(snap[p].v)
  BY <1>1, Facts, WriteMoves, NothingMoves DEF populateUserCache
<1>3. PICK l \in {"served", "denied"} : Goto(p, l)
  BY DEF populateUserCache
<1>4. Types(p, l, snap[p])
  BY <1>1, <1>3, Facts, FaultTypes
     DEF populateUserCache, Types, Goto, PCs, Busy, Ended, locals, past
<1>5. published <= published' /\ published' <= committed'
  BY <1>1, <1>2, Facts DEF populateUserCache, RedisMoves
<1>6. CallStep(p, l, snap[p])
  BY <1>1, <1>2, <1>4, <1>5, Facts DEF populateUserCache, CallStep, Using
<1> QED
  BY <1>6, StepPreserves

(* A snapshot is published. *)
LEMMA updateUserCachePreserves ==
    ASSUME IInv, NEW p \in Admins \union Profiles, updateUserCache(p)
    PROVE  IInv'
<1>1. p \in Procs
  BY DEF Procs
<1>2. RedisMoves(snap[p].v)
  BY <1>1, Facts, WriteMoves, NothingMoves DEF updateUserCache
<1>3. published' \in Nat /\ published <= published' /\ published' <= committed'
  <2>1. CASE published' = published
    BY <1>1, <1>2, <2>1, Facts DEF RedisMoves
  <2>2. CASE ~Rejects(snap[p].v) /\ writeUserCache(snap[p], FALSE)
             /\ published' = Max2(published, snap[p].v)
    <3>1. committed' = Max2(committed, snap[p].v)
      BY <2>2 DEF writeUserCache, Promote
    <3> QED
      BY <1>1, <2>2, <3>1, Facts DEF Max2
  <2> QED
    BY <2>1, <2>2 DEF updateUserCache
<1>4. \E l \in {"done", "failed"} : CallStep(p, l, snap[p])
  BY <1>1, <1>2, <1>3, Facts, FaultTypes
     DEF updateUserCache, CallStep, Types, Goto, PCs, Busy, Ended, Using, locals, past
<1> QED
  BY <1>4, StepPreserves

(* RefreshUserGroupCache writes the group. *)
LEMMA writeGroupPreserves ==
    ASSUME IInv, NEW p \in Refreshers, writeGroup(p)
    PROVE  IInv'
<1>1. p \in Procs
  BY DEF Procs
<1>2. RedisMoves(snap[p].v)
  BY <1>1, Facts, FieldMoves, NothingMoves DEF writeGroup
<1>3. \E l \in {"verify", "failed"} : CallStep(p, l, snap[p])
  BY <1>1, <1>2, Facts, FaultTypes
     DEF writeGroup, CallStep, Types, RedisMoves, Goto, PCs, Busy, Ended, Using, locals, past
<1> QED
  BY <1>3, StepPreserves

(* A deletion is published. *)
LEMMA publishTombstonePreserves ==
    ASSUME IInv, NEW p \in Admins, publishTombstone(p)
    PROVE  IInv'
<1>1. p \in Procs
  BY DEF Procs
<1>2. cur[p] + 1 \in Nat /\ cur[p] + 1 <= db.v
  BY DEF IInv, TypeOK, Transactions, publishTombstone
<1>3. /\ hash' = hash
      /\ \/ publishCommittedUserAuthVersion(cur[p] + 1) /\ committed' >= cur[p] + 1
         \/ UNCHANGED redis
      /\ RedisMoves(cur[p] + 1)
  BY <1>1, <1>2, Facts, TombstoneMoves, NothingMoves DEF publishTombstone, redis
<1>4. RedisMoves(snap[p].v)
  BY <1>3 DEF RedisMoves
<1>5. published' \in Nat /\ published <= published' /\ published' <= committed'
  <2>1. CASE published' = published
    BY <1>1, <1>4, <2>1, Facts DEF RedisMoves
  <2>2. CASE published' = Max2(published, cur[p] + 1) /\ publishCommittedUserAuthVersion(cur[p] + 1)
    <3>1. committed' = Max2(committed, cur[p] + 1)
      BY <2>2 DEF publishCommittedUserAuthVersion, Promote
    <3> QED
      BY <1>1, <1>2, <2>2, <3>1, Facts DEF Max2
  <2> QED
    BY <2>1, <2>2 DEF publishTombstone
<1>6. \E l \in {"invalidate", "failed"} : CallStep(p, l, snap[p])
  BY <1>1, <1>3, <1>4, <1>5, Facts, FaultTypes
     DEF publishTombstone, CallStep, Types, Goto, PCs, Busy, Ended, Using, locals, past
<1> QED
  BY <1>6, StepPreserves

(* Dropping the hash is a move of Redis, too. *)
LEMMA DropHashMoves ==
    ASSUME TypeOK, Versions, NEW v \in Nat, hash' \in {hash, NoHash}, UNCHANGED <<fence, committed>>
    PROVE  RedisMoves(v)
<1>1. hash \in Hash /\ fence \in Nat /\ committed \in Nat /\ db.v \in Nat
  BY DEF TypeOK
<1>2. committed <= db.v /\ hash.v <= committed /\ hash.v \in Nat
  BY <1>1 DEF Versions, Hash
<1>3. NoHash \in Hash /\ NoHash.v = 0
  BY GroupsAssumption DEF NoHash, Hash
<1> QED
  BY <1>1, <1>2, <1>3 DEF RedisMoves, Floor, Max2

(* A deletion drops the hash. *)
LEMMA invalidateUserCachePreserves ==
    ASSUME IInv, NEW p \in Admins, invalidateUserCache(p)
    PROVE  IInv'
<1>1. p \in Procs
  BY DEF Procs
<1>2. RedisMoves(snap[p].v) /\ hash' \in {hash, NoHash} /\ committed' = committed
  BY <1>1, Facts, DropHashMoves DEF invalidateUserCache
<1>3. \E l \in {"done", "failed"} : CallStep(p, l, snap[p])
  BY <1>1, <1>2, Facts, FaultTypes
     DEF invalidateUserCache, CallStep, Types, Goto, PCs, Busy, Ended, Using, locals, past
<1> QED
  BY <1>3, StepPreserves

(***************************************************************************)
(* The steps that are not of that form.                                    *)
(***************************************************************************)
LEMMA lockUserPreserves ==
    ASSUME IInv, NEW p \in Admins, lockUser(p)
    PROVE  IInv'
<1>1. p \in Procs
  BY DEF Procs
<1>2. CASE Goto(p, "failed") /\ UNCHANGED cur /\ Release(p)
  <2>1. Quiet(p, "failed", snap[p])
    BY <1>1, <1>2, Facts, FaultTypes, ReleaseKeeps DEF lockUser, Quiet, Hold, PCs, Busy, Ended, Using
  <2> QED
    BY <1>1, <2>1, QuietPreserves
<1>3. CASE /\ RowLock => holder \in {NoOne, p}
           /\ holder' = IF RowLock THEN p ELSE holder
           /\ cur' = [cur EXCEPT ![p] = db.v]
           /\ Goto(p, "fence")
           /\ NoFault
  <2>1. /\ UNCHANGED <<db, hash, fence, committed, snap, kind, tries, published, since, pubSince, late, crashes>>
        /\ faults' = faults
        /\ cur' = [cur EXCEPT ![p] = db.v] /\ pc' = [pc EXCEPT ![p] = "fence"]
    BY <1>3 DEF lockUser, redis, past, Goto, NoFault
  <2>2. Floor' = Floor
    BY <2>1 DEF Floor
  <2>3. /\ pc'[p] = "fence"
        /\ \A q \in Procs : q # p => pc'[q] = pc[q]
        /\ \A a \in Admins : a # p => cur'[a] = cur[a]
        /\ Readers \subseteq Procs /\ Admins \subseteq Procs
    BY <1>1, <2>1 DEF IInv, TypeOK, Procs
  <2>4. TypeOK'
    BY <1>1, <1>3, <2>1, Facts DEF IInv, TypeOK, Busy
  <2>5. Versions'
    BY <2>1 DEF IInv, Versions
  <2>6. Transactions'
    <3>1. \A a \in Admins : a # p /\ holder = a => holder' = a
      BY <1>1, <1>3, ProcsAssumption DEF Procs
    <3> QED
      BY <2>1, <2>3, <3>1 DEF IInv, Transactions
  <2>7. Reads'
    BY <2>1, <2>3 DEF IInv, Reads
  <2>8. Fences => Fences'
    BY <2>1, <2>2, <2>3 DEF Fences, Using
  <2> QED
    BY <2>1, <2>4, <2>5, <2>6, <2>7, <2>8 DEF IInv
<1> QED
  BY <1>2, <1>3 DEF lockUser

(* The conditional update takes the row or loses the race. *)
LEMMA updateVersionPreserves ==
    ASSUME IInv, NEW p \in Admins, updateVersion(p)
    PROVE  IInv'
<1>1. p \in Procs
  BY DEF Procs
<1>2. CASE db.v # cur[p]
  <2>1. tries' \in [Procs -> Nat]
    BY <1>1, <1>2, Facts DEF updateVersion
  <2>2. /\ holder' \in Admins \union {NoOne}
        /\ \A a \in Admins : a # p /\ holder = a => holder' = a
    BY <1>1, <1>2, Facts, ReleaseKeeps DEF updateVersion
  <2>3. \E l \in {"lock", "failed"} : Goto(p, l)
    BY <1>2 DEF updateVersion
  <2>4. \E l \in {"lock", "failed"} : Quiet(p, l, snap[p])
    BY <1>1, <2>1, <2>2, <2>3, Facts, FaultTypes DEF updateVersion, Quiet, Hold, PCs, Busy, Ended, Using
  <2> QED
    BY <1>1, <2>4, QuietPreserves
<1>3. CASE db.v = cur[p]
  <2>1. /\ UNCHANGED <<db, hash, fence, committed, snap, cur, kind, tries, published, since, pubSince, late, crashes>>
        /\ faults' = faults /\ holder' = p /\ pc' = [pc EXCEPT ![p] = "commit"]
        /\ pc[p] = "update" /\ holder \in {NoOne, p}
    BY <1>3 DEF updateVersion, redis, past, Goto, NoFault
  <2>2. Floor' = Floor
    BY <2>1 DEF Floor
  <2>3. /\ pc'[p] = "commit"
        /\ \A q \in Procs : q # p => pc'[q] = pc[q]
        /\ Readers \subseteq Procs /\ Admins \subseteq Procs
    BY <1>1, <2>1 DEF IInv, TypeOK, Procs
  <2>4. TypeOK'
    BY <1>1, <2>1, Facts DEF IInv, TypeOK, Busy
  <2>5. Versions'
    BY <2>1 DEF IInv, Versions
  <2>6. Transactions'
    <3>1. \A a \in Admins : a # p => holder # a
      BY <1>1, <2>1, ProcsAssumption DEF Procs
    <3> QED
      BY <1>3, <2>1, <2>3, <3>1 DEF IInv, Transactions
  <2>7. Reads'
    BY <2>1, <2>3 DEF IInv, Reads
  <2>8. Fences => Fences'
    BY <2>1, <2>2, <2>3 DEF Fences, Using
  <2> QED
    BY <2>1, <2>4, <2>5, <2>6, <2>7, <2>8 DEF IInv
<1> QED
  BY <1>2, <1>3

(* A reader begins and may hold the hash. *)
LEMMA GetUserCachePreserves ==
    ASSUME IInv, NEW p \in Readers, GetUserCache(p)
    PROVE  IInv'
<1>1. p \in Procs /\ pc[p] = "idle"
  BY DEF Procs, GetUserCache
<1>2. PICK l \in {"floor", "read"}, s \in Snapshot :
          /\ pc' = [pc EXCEPT ![p] = l] /\ snap' = [snap EXCEPT ![p] = s]
          /\ s.v <= db.v /\ s.v \in Nat
          /\ l = "floor" => s.v = hash.v /\ hash # NoHash
  <2>1. CASE hash # NoHash /\ Goto(p, "floor") /\ Hold(p, [v |-> hash.v, group |-> hash.group])
    <3>1. [v |-> hash.v, group |-> hash.group] \in Snapshot
      BY <1>1, Facts DEF Hash, Snapshot
    <3>2. hash.v <= db.v
      BY <1>1, Facts DEF Versions
    <3> QED
      BY <1>1, <2>1, <3>1, <3>2, Facts DEF Goto, Hold
  <2>2. CASE Goto(p, "read") /\ UNCHANGED snap
    BY <1>1, <2>2, Facts DEF Goto
  <2> QED
    BY <2>1, <2>2 DEF GetUserCache
<1>3. /\ UNCHANGED <<db, holder, hash, fence, committed, cur, kind, tries, published, late, crashes>>
      /\ since' = [since EXCEPT ![p] = db.v] /\ pubSince' = [pubSince EXCEPT ![p] = published]
      /\ faults' \in 0..MaxFaults
  BY <1>1, Facts, FaultTypes DEF GetUserCache, redis
<1>4. /\ pc'[p] = l /\ snap'[p] = s
      /\ \A q \in Procs : q # p => pc'[q] = pc[q] /\ snap'[q] = snap[q]
      /\ since'[p] = db.v /\ pubSince'[p] = published
      /\ \A r \in Readers : r # p => since'[r] = since[r] /\ pubSince'[r] = pubSince[r]
      /\ Readers \subseteq Procs /\ Admins \subseteq Procs
  BY <1>1, <1>2, <1>3 DEF IInv, TypeOK, Procs
<1>5. Floor' = Floor
  BY <1>3 DEF Floor
<1>6. TypeOK'
  BY <1>1, <1>2, <1>3, Facts DEF IInv, TypeOK, Busy
<1>7. Versions'
  BY <1>1, <1>2, <1>3, <1>4, Facts DEF IInv, Versions
<1>8. Transactions'
  BY <1>2, <1>3, <1>4 DEF IInv, Transactions
<1>9. Reads'
  BY <1>2, <1>3, <1>4 DEF IInv, Reads
<1>10. Fences => Fences'
  BY <1>1, <1>2, <1>3, <1>4, <1>5, Facts DEF Fences, Using
<1> QED
  BY <1>3, <1>6, <1>7, <1>8, <1>9, <1>10 DEF IInv

(* The fence is published before the row is updated. *)
LEMMA setFencePreserves ==
    ASSUME IInv, NEW p \in Admins, setFence(p)
    PROVE  IInv'
<1>1. p \in Procs /\ cur[p] \in Nat /\ pc[p] = "fence"
  BY DEF Procs, IInv, TypeOK, setFence
<1>2. CASE UNCHANGED redis /\ Goto(p, "failed") /\ Release(p)
  <2>1. Quiet(p, "failed", snap[p])
    BY <1>1, <1>2, Facts, FaultTypes, ReleaseKeeps
       DEF setFence, Quiet, Hold, PCs, Busy, Ended, Using, locals
  <2> QED
    BY <1>1, <2>1, QuietPreserves
<1>3. ASSUME SetUserAuthVersionFence(cur[p] + 1)
      PROVE  IInv'
  <2>1. PICK l \in {"update", "failed"} : pc' = [pc EXCEPT ![p] = l]
    BY DEF setFence, Goto
  <2>2. /\ UNCHANGED <<db, snap, cur, kind, tries, published, since, pubSince, late, crashes>>
        /\ faults' \in 0..MaxFaults
    BY <1>1, Facts, FaultTypes DEF setFence, locals, past
  <2>3. /\ holder' \in Admins \union {NoOne}
        /\ \A a \in Admins : a # p /\ holder = a => holder' = a
    BY <1>1, Facts, ReleaseKeeps DEF setFence
  <2>4. /\ fence' = Max2(fence, cur[p] + 1) /\ committed' = committed
        /\ hash' = IF hash # NoHash /\ fence <= cur[p] + 1 THEN [hash EXCEPT !.before = TRUE] ELSE hash
    BY <1>3 DEF SetUserAuthVersionFence
  <2>5. /\ hash' \in Hash /\ hash'.v = hash.v
        /\ hash = NoHash => hash' = NoHash
        /\ hash' = hash \/ hash'.before
        /\ fence > cur[p] + 1 => hash' = hash
    <3>1. hash \in Hash /\ fence \in Nat
      BY <1>1, Facts
    <3>2. [hash EXCEPT !.before = TRUE] \in Hash /\ [hash EXCEPT !.before = TRUE].v = hash.v
          /\ [hash EXCEPT !.before = TRUE].before
      BY <3>1 DEF Hash
    <3> QED
      BY <1>1, <2>4, <3>1, <3>2
  <2>6. /\ fence' \in Nat /\ Floor' \in Nat /\ Floor \in Nat
        /\ Floor' >= Floor /\ Floor' >= cur[p] + 1
    BY <1>1, <2>4, Facts DEF Floor, Max2
  <2>7. /\ pc'[p] = l
        /\ \A q \in Procs : q # p => pc'[q] = pc[q]
        /\ Readers \subseteq Procs /\ Admins \subseteq Procs
    BY <1>1, <2>1 DEF IInv, TypeOK, Procs
  <2>8. TypeOK'
    BY <1>1, <2>1, <2>2, <2>3, <2>4, <2>5, <2>6, Facts DEF IInv, TypeOK, Busy, Ended
  <2>9. Versions'
    BY <2>2, <2>4, <2>5 DEF IInv, Versions
  <2>10. Transactions'
    BY <2>1, <2>2, <2>3, <2>7 DEF IInv, Transactions
  <2>11. Reads'
    BY <2>1, <2>2, <2>7 DEF IInv, Reads
  <2>12. ASSUME Fences PROVE Fences'
    <3>1. \/ Floor' >= db.v
          \/ /\ hash' = NoHash \/ hash'.v >= db.v
             /\ \A q \in Procs : pc'[q] \in Using => snap[q].v >= db.v
      BY <1>1, <2>1, <2>5, <2>6, <2>7, <2>12, Facts DEF Fences, Using
    <3>2. \A a \in Admins : pc'[a] \in {"update", "commit"} => Floor' >= cur[a] + 1
      <4>1. \A a \in Admins : cur[a] \in Nat
        BY DEF IInv, TypeOK
      <4> QED
        BY <2>1, <2>6, <2>7, <2>12, <4>1 DEF Fences
    <3>3. fence' # 0 /\ hash' # NoHash /\ hash'.v < fence' => hash'.before
      <4>1. CASE fence > cur[p] + 1
        BY <1>1, <2>4, <2>5, <2>12, <4>1, Facts DEF Fences, Max2
      <4>2. CASE fence <= cur[p] + 1
        <5>1. CASE hash = NoHash
          BY <2>5, <5>1
        <5>2. CASE hash # NoHash
          BY <1>1, <2>4, <4>2, <5>2, Facts DEF Hash
        <5> QED
          BY <5>1, <5>2
      <4> QED
        BY <1>1, <4>1, <4>2, Facts
    <3>4. \A r \in Readers : pc'[r] = "served" => snap[r].v >= since[r]
      BY <2>1, <2>7, <2>12 DEF Fences
    <3> QED
      BY <2>2, <3>1, <3>2, <3>3, <3>4 DEF Fences
  <2> QED
    BY <2>2, <2>8, <2>9, <2>10, <2>11, <2>12 DEF IInv
<1> QED
  BY <1>2, <1>3 DEF setFence

(* The version is committed: the fence already covers it. *)
LEMMA commitPreserves ==
    ASSUME IInv, NEW p \in Admins, commit(p)
    PROVE  IInv'
<1>1. p \in Procs /\ cur[p] \in Nat /\ pc[p] = "commit" /\ holder = p /\ cur[p] = db.v
  BY DEF Procs, IInv, TypeOK, Transactions, commit
<1>2. PICK g \in Groups :
          /\ db' = [v     |-> cur[p] + 1,
                    group |-> g,
                    row   |-> CASE kind[p] = "hardDelete" -> "gone"
                                [] kind[p] = "delete"     -> "deleted"
                                [] OTHER                  -> db.row]
          /\ snap' = [snap EXCEPT ![p] = [v |-> cur[p] + 1, group |-> g]]
  BY DEF commit, Hold
<1>3. PICK l \in {"reread", "write", "tombstone"} : pc' = [pc EXCEPT ![p] = l]
  BY DEF commit, Goto
<1>4. /\ UNCHANGED <<hash, fence, committed, cur, kind, tries, published, since, pubSince, late, crashes>>
      /\ faults' = faults /\ holder' = NoOne
  BY DEF commit, redis, past, NoFault
<1>5. db'.v = db.v + 1 /\ db' \in [v : Nat, group : Groups, row : {"live", "deleted", "gone"}]
  BY <1>1, <1>2, Facts
<1>6. [v |-> cur[p] + 1, group |-> g] \in Snapshot
  BY <1>1, <1>2 DEF Snapshot
<1>7. /\ pc'[p] = l /\ snap'[p].v = db.v + 1
      /\ \A q \in Procs : q # p => pc'[q] = pc[q] /\ snap'[q] = snap[q]
      /\ Readers \subseteq Procs /\ Admins \subseteq Procs
  BY <1>1, <1>2, <1>3 DEF IInv, TypeOK, Procs
<1>8. /\ db.v \in Nat /\ committed \in Nat /\ hash.v \in Nat /\ published \in Nat
      /\ \A q \in Procs : snap[q].v \in Nat
      /\ \A r \in Readers : since[r] \in Nat /\ pubSince[r] \in Nat
      /\ \A a \in Admins : cur[a] \in Nat
  BY <1>1, Facts DEF IInv, TypeOK, Snapshot
<1>9. Floor' = Floor
  BY <1>4 DEF Floor
<1>10. TypeOK'
  BY <1>1, <1>2, <1>3, <1>4, <1>5, <1>6, Facts DEF IInv, TypeOK, Busy
<1>11. Versions'
  BY <1>4, <1>5, <1>7, <1>8 DEF IInv, Versions
<1>12. Transactions'
  <2>1. \A a \in Admins : pc'[a] # "commit"
    BY <1>1, <1>3, <1>7 DEF IInv, Transactions
  <2> QED
    BY <1>1, <1>4, <1>5, <1>7, <1>8, <2>1 DEF IInv, Transactions
<1>13. Reads'
  BY <1>3, <1>4, <1>7 DEF IInv, Reads
<1>14. ASSUME Fences PROVE Fences'
  <2>1. Floor' >= db'.v
    BY <1>1, <1>5, <1>9, <1>14 DEF Fences
  <2>2. \A a \in Admins : pc'[a] \in {"update", "commit"} => Floor' >= cur[a] + 1
    BY <1>3, <1>7, <1>9, <1>14 DEF Fences
  <2>3. \A r \in Readers : pc'[r] = "served" => snap'[r].v >= since[r]
    BY <1>3, <1>7, <1>14 DEF Fences
  <2> QED
    BY <1>4, <1>14, <2>1, <2>2, <2>3 DEF Fences
<1> QED
  BY <1>4, <1>10, <1>11, <1>12, <1>13, <1>14 DEF IInv

(* The hash expires. *)
LEMMA ExpireHashPreserves ==
    ASSUME IInv, ExpireHash
    PROVE  IInv'
<1>1. /\ UNCHANGED <<db, holder, fence, committed, pc, snap, cur, kind, tries, published, since, pubSince, late, faults, crashes>>
      /\ hash' = NoHash
  BY DEF ExpireHash, locals, past
<1>2. NoHash \in Hash /\ NoHash.v = 0
  BY GroupsAssumption DEF NoHash, Hash
<1>3. TypeOK'
  BY <1>1, <1>2 DEF IInv, TypeOK
<1>4. Versions'
  BY <1>1, <1>2 DEF IInv, TypeOK, Versions
<1>5. Transactions' /\ Reads'
  BY <1>1 DEF IInv, Transactions, Reads
<1>6. Fences => Fences'
  BY <1>1 DEF Fences, Floor
<1> QED
  BY <1>1, <1>3, <1>4, <1>5, <1>6 DEF IInv

(* A fence expires: every older hash is gone, and late records who relied on it. *)
LEMMA ExpireFencePreserves ==
    ASSUME IInv, ExpireFence
    PROVE  IInv'
<1>1. /\ UNCHANGED <<db, holder, hash, committed, pc, snap, cur, kind, tries, published, since, pubSince, faults, crashes>>
      /\ fence # 0 /\ fence' = 0 /\ ~hash.before
      /\ late' = (late \/ \E p \in Procs : Covered(p))
  BY DEF ExpireFence, DropFence, locals
<1>2. TypeOK'
  BY <1>1 DEF IInv, TypeOK
<1>3. Versions' /\ Transactions' /\ Reads'
  BY <1>1 DEF IInv, Versions, Transactions, Reads
<1>4. ASSUME ~late' PROVE Fences'
  <2>1. Fences /\ \A p \in Procs : ~Covered(p)
    BY <1>1, <1>4 DEF IInv
  <2>2. /\ fence \in Nat /\ committed \in Nat /\ db.v \in Nat /\ hash.v \in Nat
        /\ \A q \in Procs : snap[q].v \in Nat
        /\ \A a \in Admins : cur[a] \in Nat
        /\ Admins \subseteq Procs
    BY DEF IInv, TypeOK, Snapshot, Hash, Procs
  <2>3. Floor' = committed
    BY <1>1, <2>2 DEF Floor, Max2
  <2>4. \A q \in Procs : pc[q] \in Using => snap[q].v >= fence
    BY <2>1, <2>2 DEF Covered, Using
  <2>5. hash = NoHash \/ hash.v >= fence
    BY <1>1, <2>1, <2>2 DEF Fences
  <2>6. \/ committed >= db.v
        \/ /\ hash = NoHash \/ hash.v >= db.v
           /\ \A q \in Procs : pc[q] \in Using => snap[q].v >= db.v
    BY <2>1, <2>2, <2>4, <2>5 DEF Fences, Floor, Max2
  <2>7. \A a \in Admins : pc[a] \in {"update", "commit"} => committed >= cur[a] + 1
    BY <2>1, <2>2 DEF Fences, Floor, Max2, Covered
  <2> QED
    BY <1>1, <2>1, <2>3, <2>6, <2>7 DEF Fences
<1> QED
  BY <1>2, <1>3, <1>4 DEF IInv

(* The initial states satisfy the invariant. *)
LEMMA InitCorrect == Init => IInv
<1> SUFFICES ASSUME Init PROVE IInv
  OBVIOUS
<1>1. /\ NoHash \in Hash /\ NoHash.v = 0
      /\ [NoHash EXCEPT !.v = 1, !.by = "snapshot"] \in Hash
      /\ [NoHash EXCEPT !.v = 1, !.by = "snapshot"].v = 1
  BY GroupsAssumption DEF NoHash, Hash
<1>2. hash \in Hash /\ hash.v = committed /\ committed \in {0, 1} /\ db.v = 1
  BY <1>1 DEF Init
<1>3. /\ db \in [v : Nat, group : Groups, row : {"live", "deleted", "gone"}]
      /\ snap \in [Procs -> Snapshot] /\ pc \in [Procs -> {"idle"} \union Busy \union Ended]
  BY GroupsAssumption DEF Init, Snapshot
<1>4. faults \in 0..MaxFaults /\ crashes \in 0..MaxCrashes
  BY BoundsAssumption DEF Init
<1>5. /\ holder \in Admins \union {NoOne} /\ fence \in Nat /\ committed \in Nat /\ published \in Nat
      /\ cur \in [Admins -> Nat] /\ kind \in [Admins -> Kinds] /\ tries \in [Procs -> Nat]
      /\ since \in [Readers -> Nat] /\ pubSince \in [Readers -> Nat]
  BY <1>2 DEF Init
<1>6. late \in BOOLEAN
  BY DEF Init
<1>7. TypeOK
  BY <1>2, <1>3, <1>4, <1>5, <1>6 DEF TypeOK
<1>8. Versions
  <2>1. /\ \A p \in Procs : snap[p].v = 0
        /\ \A r \in Readers : since[r] = 0 /\ pubSince[r] = 0
        /\ published = 0
    BY DEF Init
  <2> QED
    BY <1>2, <2>1 DEF Versions
<1>9. Transactions /\ Reads
  BY DEF Init, Transactions, Reads, Procs
<1>10. Fences
  BY <1>1 DEF Init, Fences, Floor, Max2, Using, Procs
<1> QED
  BY <1>7, <1>8, <1>9, <1>10 DEF IInv

(* Every step keeps the invariant. *)
LEMMA NextPreserves == IInv /\ [Next]_vars => IInv'
<1> SUFFICES ASSUME IInv, [Next]_vars PROVE IInv'
  OBVIOUS
<1>1. CASE \E r \in Readers : Read(r)
  BY <1>1, GetUserCachePreserves, cacheGetUserBasePreserves, GetUserByIdPreserves,
     checkFloorPreserves, populateUserCachePreserves DEF Read
<1>2. CASE \E a \in Admins : Change(a)
  BY <1>2, lockUserPreserves, setFencePreserves, updateVersionPreserves, commitPreserves,
     rollbackPreserves, PublishUserAuthCachePreserves, updateUserCachePreserves,
     publishTombstonePreserves, invalidateUserCachePreserves DEF Change
<1>3. CASE \E p \in Profiles : Profile(p)
  BY <1>3, editProfilePreserves, saveProfilePreserves, PublishUserAuthCachePreserves,
     updateUserCachePreserves DEF Profile
<1>4. CASE \E f \in Refreshers : Refresh(f)
  BY <1>4, setGroupPreserves, RefreshUserGroupCachePreserves, writeGroupPreserves,
     verifyGroupPreserves DEF Refresh
<1>5. CASE ExpireHash \/ ExpireFence
  BY <1>5, ExpireHashPreserves, ExpireFencePreserves
<1>6. CASE \E p \in Procs : Crash(p)
  BY <1>6, CrashPreserves
<1>7. CASE UNCHANGED vars
  BY <1>7 DEF vars, redis, locals, past, IInv, TypeOK, Versions, Transactions, Reads, Fences, Floor
<1> QED
  BY <1>1, <1>2, <1>3, <1>4, <1>5, <1>6, <1>7 DEF Next

(* The inductive invariant holds always: types, versions, transactions,    *)
(* reads, and the fences as long as none expired too early.                *)
THEOREM AuthCacheCorrect == Spec => []IInv
<1>1. Init => IInv
  BY InitCorrect
<1>2. IInv /\ [Next]_vars => IInv'
  BY NextPreserves
<1> QED
  BY <1>1, <1>2, PTL DEF Spec

(* The variables of the cache, the row and the calls keep their types. *)
THEOREM TypeCorrect == Spec => []TypeOK
<1>1. IInv => TypeOK
  BY DEF IInv
<1> QED
  BY <1>1, AuthCacheCorrect, PTL

(* The permanent floor never passes the committed auth_version, so no      *)
(* rolled-back change locks a user out for good.                           *)
THEOREM FloorNeverAhead == Spec => []FloorIsCommitted
<1>1. IInv => FloorIsCommitted
  BY DEF IInv, Versions, FloorIsCommitted
<1> QED
  BY <1>1, AuthCacheCorrect, PTL

(* After a publication GetUserCache never serves an older version, for any *)
(* delays, crashes and errors.                                             *)
THEOREM PublishedNeverStale == Spec => []NoStaleAfterPublish
<1>1. IInv => NoStaleAfterPublish
  BY DEF IInv, Reads, NoStaleAfterPublish
<1> QED
  BY <1>1, AuthCacheCorrect, PTL

(* After a commit GetUserCache never serves an older version, while no     *)
(* transaction or cache fill outlived a fence.                             *)
THEOREM CommittedNeverStale == Spec => []NoStaleAfterCommit
<1>1. IInv => NoStaleAfterCommit
  BY DEF IInv, Fences, NoStaleAfterCommit
<1> QED
  BY <1>1, AuthCacheCorrect, PTL

(***************************************************************************)
(* The group in the hash.                                                  *)
(***************************************************************************)
GroupCalls == Refreshers \union Profiles

(* A refresh wrote a group at the row's version that is not the row's. *)
Divergent ==
    db.row = "live" /\ hash.v = db.v /\ hash.by = "refresh" /\ hash.group # db.group

(* A call that has failed, or that will replace the group in the hash or   *)
(* fail: a refresh that has not written yet, or that will find in its       *)
(* verification that it wrote another group than the row has; an edit that  *)
(* has not written its snapshot.                                            *)
Responsible(p) ==
    \/ pc[p] = "failed"
    \/ p \in Profiles /\ pc[p] \in {"edit", "reread", "write"}
    \/ p \in Refreshers /\ pc[p] \in {"refresh", "field"}
    \/ p \in Refreshers /\ pc[p] = "verify" /\ snap[p] # Row

Watched == Divergent => \E p \in GroupCalls : Responsible(p)

(* What the hash has from a refresh it had before the step. *)
SameGroup ==
    hash'.by = "refresh" => hash.by = "refresh" /\ hash'.v = hash.v /\ hash'.group = hash.group

(* A step that leaves the row, the group in the hash and every responsible *)
(* call alone.                                                             *)
LEMMA WatchKept ==
    ASSUME Watched, db' = db, SameGroup,
           \A q \in GroupCalls : Responsible(q) => pc'[q] = pc[q] /\ snap'[q] = snap[q]
    PROVE  Watched'
BY DEF Watched, Divergent, Responsible, SameGroup, Row

(* writeUserCache leaves the hash alone or writes a whole snapshot. *)
LEMMA WriteGroup ==
    ASSUME NEW s, NEW q, writeUserCache(s, q)
    PROVE  SameGroup /\ (~Rejects(s.v) => hash'.by # "refresh")
BY DEF writeUserCache, SameGroup, redis, NoHash

(* A reader changes the hash by its fill only. *)
LEMMA ReaderWatched ==
    ASSUME IInv, Watched, NEW r \in Readers, Read(r)
    PROVE  Watched'
<1>1. \A q \in GroupCalls : q # r /\ q \in Procs
  BY ProcsAssumption DEF GroupCalls, Procs
<1>2. db' = db
  BY DEF Read, GetUserCache, cacheGetUserBase, GetUserById, checkFloor, populateUserCache
<1>3. SameGroup
  <2>1. CASE populateUserCache(r)
    BY <2>1, WriteGroup DEF populateUserCache, SameGroup, redis
  <2>2. CASE UNCHANGED redis
    BY <2>2 DEF SameGroup, redis
  <2> QED
    BY <2>1, <2>2 DEF Read, GetUserCache, cacheGetUserBase, GetUserById, checkFloor
<1>4. /\ \E l : Goto(r, l)
      /\ UNCHANGED snap \/ (\E s : Hold(r, s))
  BY DEF Read, GetUserCache, cacheGetUserBase, GetUserById, checkFloor, populateUserCache, locals
<1>5. \A q \in GroupCalls : pc'[q] = pc[q] /\ snap'[q] = snap[q]
  BY <1>1, <1>4 DEF Goto, Hold, IInv, TypeOK
<1> QED
  BY <1>2, <1>3, <1>5, WatchKept

(* A restrictive change raises the version, or leaves the row alone. *)
LEMMA ChangeWatched ==
    ASSUME IInv, Watched, NEW a \in Admins, Change(a)
    PROVE  Watched'
<1>1. \A q \in GroupCalls : q # a /\ q \in Procs
  BY ProcsAssumption DEF GroupCalls, Procs
<1>2. CASE commit(a)
  <2>1. cur[a] = db.v /\ hash.v <= db.v /\ hash.v \in Nat /\ db.v \in Nat
    BY <1>2 DEF commit, IInv, Transactions, Versions, TypeOK, Hash
  <2>2. db'.v = cur[a] + 1 /\ hash' = hash
    BY <1>2 DEF commit, redis
  <2> QED
    BY <2>1, <2>2 DEF Watched, Divergent
<1>3. CASE ~commit(a)
  <2>1. db' = db
    BY <1>3 DEF Change, lockUser, setFence, updateVersion, rollback, PublishUserAuthCache,
                updateUserCache, publishTombstone, invalidateUserCache
  <2>2. SameGroup
    <3>1. CASE updateUserCache(a)
      BY <3>1, WriteGroup DEF updateUserCache, SameGroup, redis
    <3>2. CASE setFence(a)
      <4>1. CASE UNCHANGED redis
        BY <4>1 DEF SameGroup, redis
      <4>2. CASE SetUserAuthVersionFence(cur[a] + 1)
        <5>1. hash \in Hash
          BY DEF IInv, TypeOK
        <5>2. hash' = hash \/ hash' = [hash EXCEPT !.before = TRUE]
          BY <4>2 DEF SetUserAuthVersionFence
        <5> QED
          BY <5>1, <5>2 DEF SameGroup, Hash
      <4> QED
        BY <3>2, <4>1, <4>2 DEF setFence
    <3>3. CASE publishTombstone(a) \/ invalidateUserCache(a)
      BY <3>3 DEF publishTombstone, invalidateUserCache, publishCommittedUserAuthVersion, SameGroup,
                  redis, NoHash
    <3>4. CASE UNCHANGED redis
      BY <3>4 DEF SameGroup, redis
    <3> QED
      BY <1>3, <3>1, <3>2, <3>3, <3>4
         DEF Change, lockUser, updateVersion, rollback, PublishUserAuthCache
  <2>3. /\ \E l : Goto(a, l)
        /\ UNCHANGED snap \/ (\E s : Hold(a, s))
    BY <1>3 DEF Change, lockUser, setFence, updateVersion, rollback, PublishUserAuthCache,
                updateUserCache, publishTombstone, invalidateUserCache, locals
  <2>4. \A q \in GroupCalls : pc'[q] = pc[q] /\ snap'[q] = snap[q]
    BY <1>1, <2>3 DEF Goto, Hold, IInv, TypeOK
  <2> QED
    BY <2>1, <2>2, <2>4, WatchKept
<1> QED
  BY <1>2, <1>3

(* An edit is responsible until its snapshot has replaced the hash. *)
LEMMA ProfileWatched ==
    ASSUME IInv, Watched, NEW p \in Profiles, Profile(p)
    PROVE  Watched'
<1>1. p \in Procs /\ p \in GroupCalls
  BY DEF Procs, GroupCalls
<1>2. \/ \E l \in {"edit", "reread", "write", "failed"} : Goto(p, l)
      \/ updateUserCache(p) /\ ~Rejects(snap[p].v) /\ writeUserCache(snap[p], FALSE)
  BY DEF Profile, editProfile, saveProfile, PublishUserAuthCache, updateUserCache
<1>3. CASE \E l \in {"edit", "reread", "write", "failed"} : Goto(p, l)
  BY <1>1, <1>3 DEF Goto, IInv, TypeOK, Watched, Responsible
<1>4. CASE ~Rejects(snap[p].v) /\ writeUserCache(snap[p], FALSE)
  BY <1>4, WriteGroup DEF Watched, Divergent
<1> QED
  BY <1>2, <1>3, <1>4

(* A refresh is responsible until it has verified what it wrote. *)
LEMMA RefreshWatched ==
    ASSUME IInv, Watched, NEW f \in Refreshers, Refresh(f)
    PROVE  Watched'
<1>1. f \in Procs /\ f \in GroupCalls
  BY DEF Procs, GroupCalls
<1>2. CASE \E l \in {"refresh", "field", "failed"} : Goto(f, l)
  BY <1>1, <1>2 DEF Goto, IInv, TypeOK, Watched, Responsible
<1>3. CASE writeGroup(f) /\ Goto(f, "verify")
  <2>1. /\ pc'[f] = "verify" /\ snap' = snap /\ db' = db
        /\ updateUserCacheFieldAtVersion(snap[f]) /\ ~Rejects(snap[f].v)
    BY <1>1, <1>3 DEF writeGroup, Goto, locals, IInv, TypeOK
  <2>2. CASE snap[f] # Row
    BY <1>1, <2>1, <2>2 DEF Watched, Responsible, Row
  <2>3. CASE snap[f] = Row
    <3>1. snap[f].v = db.v /\ snap[f].group = db.group
      BY <2>3 DEF Row
    <3> QED
      BY <2>1, <3>1 DEF updateUserCacheFieldAtVersion, Watched, Divergent
  <2> QED
    BY <2>2, <2>3
<1>4. CASE verifyGroup(f) /\ Row = snap[f] /\ Goto(f, "done") /\ UNCHANGED snap
  <2>1. pc[f] = "verify" /\ db' = db /\ UNCHANGED redis
    BY <1>4 DEF verifyGroup
  <2>2. ~Responsible(f)
    BY <1>4, <2>1, ProcsAssumption DEF Responsible
  <2>3. \A q \in GroupCalls : q # f => pc'[q] = pc[q] /\ snap'[q] = snap[q]
    BY <1>4 DEF Goto, IInv, TypeOK, GroupCalls, Procs
  <2>4. SameGroup
    BY <2>1 DEF SameGroup, redis
  <2> QED
    BY <2>1, <2>2, <2>3, <2>4, WatchKept
<1> QED
  BY <1>2, <1>3, <1>4 DEF Refresh, setGroup, RefreshUserGroupCache, writeGroup, verifyGroup

(* Every step keeps a divergent group watched. *)
LEMMA NextWatched == IInv /\ Watched /\ [Next]_vars => Watched'
<1> SUFFICES ASSUME IInv, Watched, [Next]_vars PROVE Watched'
  OBVIOUS
<1>1. CASE ExpireHash \/ ExpireFence \/ UNCHANGED vars
  <2>1. db' = db /\ pc' = pc /\ snap' = snap /\ hash' \in {hash, NoHash}
    BY <1>1 DEF ExpireHash, ExpireFence, DropFence, vars, redis, locals
  <2>2. SameGroup
    BY <2>1 DEF SameGroup, NoHash
  <2> QED
    BY <2>1, <2>2, WatchKept
<1>2. ASSUME NEW p \in Procs, Crash(p) PROVE Watched'
  <2>1. db' = db /\ UNCHANGED redis /\ snap' = snap /\ Goto(p, "failed")
    BY <1>2 DEF Crash, locals
  <2>2. CASE p \in GroupCalls
    BY <2>1, <2>2 DEF Goto, IInv, TypeOK, Watched, Responsible
  <2>3. CASE p \notin GroupCalls
    <3>1. \A q \in GroupCalls : pc'[q] = pc[q]
      BY <2>1, <2>3 DEF Goto, IInv, TypeOK, GroupCalls, Procs
    <3>2. SameGroup
      BY <2>1 DEF SameGroup, redis
    <3> QED
      BY <2>1, <3>1, <3>2, WatchKept
  <2> QED
    BY <2>2, <2>3
<1> QED
  BY <1>1, <1>2, ReaderWatched, ChangeWatched, ProfileWatched, RefreshWatched DEF Next

(* However refreshes, edits and restrictive changes interleave, a group    *)
(* that a refresh wrote is the row's once every one of them has ended       *)
(* without an error: the verification finds what a delayed write left.      *)
THEOREM GroupsRepaired == Spec => []GroupRepaired
<1>1. Init => Watched
  <2>1. NoHash.by # "refresh" /\ [NoHash EXCEPT !.v = 1, !.by = "snapshot"].by # "refresh"
    BY DEF NoHash
  <2> QED
    BY <2>1 DEF Init, Watched, Divergent
<1>2. IInv /\ Watched /\ [Next]_vars => Watched'
  BY NextWatched
<1>3. Watched => GroupRepaired
  BY DEF Watched, Divergent, Responsible, GroupCalls, GroupRepaired
<1> QED
  BY <1>1, <1>2, <1>3, AuthCacheCorrect, PTL DEF Spec
=============================================================================
