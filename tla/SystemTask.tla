----------------------------- MODULE SystemTask -----------------------------
(***************************************************************************)
(* System tasks: model/system_task.go and service/system_task.go.          *)
(*                                                                         *)
(* Every master node has a runner.  Its loop fails the tasks whose lease    *)
(* has expired, creates the scheduled task when it is due and claims the    *)
(* earliest pending one; a claimed task runs in a goroutine of its own,     *)
(* whose heartbeat renews the lease.  The nodes share nothing but two       *)
(* tables, so each step below is one database operation, and the steps of   *)
(* different runners interleave.  Nodes crash, and operations fail.         *)
(*                                                                         *)
(* The module is about one task type: types share only the loop.  Payloads, *)
(* progress and results are left out.                                       *)
(*                                                                         *)
(* Time.  A lease ends at locked_until, and code compares that to a `now`   *)
(* read earlier.  A row has `expired`, whether locked_until is over, and    *)
(* `before`, the runners whose `now` is later than its locked_until: a      *)
(* lease written after a runner read its `now` has not expired for it.      *)
(***************************************************************************)
EXTENDS Integers

CONSTANTS
    Runners,       \* the runners of the master nodes, one per process start
    NoRunner,      \* the empty locked_by
    Clients,       \* API calls that enqueue a task
    MaxTasks,      \* bound: rows of system_tasks
    Legacy,        \* rows of an earlier version: pending, without an active_key
    PromptClaims,  \* TRUE: a claim takes less than the lease (systemTaskLockTTL)
    MaxCrashes,    \* bound: nodes that crash
    MaxFaults      \* bound: database errors

Tasks == 1..MaxTasks

ASSUME RunnersAssumption == NoRunner \notin Runners
ASSUME BoundsAssumption ==
    /\ MaxTasks \in Nat /\ MaxCrashes \in Nat /\ MaxFaults \in Nat
    /\ Legacy \subseteq Tasks
    /\ \A t \in Legacy, u \in Tasks \ Legacy : t < u
    /\ PromptClaims \in BOOLEAN

VARIABLES
    status,    \* system_tasks.status, "none" when there is no row
    activeKey, \* the rows whose active_key is set (unique index)
    lockedBy,  \* system_tasks.locked_by
    locks,     \* the rows of system_task_locks; type is the primary key
    pc,        \* per runner: where its loop is
    task,      \* per runner: the task it is claiming
    seen,      \* per runner: the lock row it read
    handler,   \* per runner and task: the handler it dispatched
    client,    \* per client: where EnqueueSystemTask is
    claims,    \* history: how often each task was dispatched
    crashes, faults

tables == <<status, activeKey, lockedBy, locks>>
loop   == <<pc, task, seen>>
vars   == <<status, activeKey, lockedBy, locks, pc, task, seen, handler, client,
            claims, crashes, faults>>

Active   == {"pending", "running"}
Terminal == {"succeeded", "failed"}
PCs      == {"idle", "mark", "delete", "schedule", "create", "find", "acquire", "existing",
             "cas", "markExpired", "take", "release", "crashed"}
Rows     == [task : Tasks, by : Runners, expired : BOOLEAN, before : SUBSET Runners]
NoRow    == [task |-> 0, by |-> NoRunner]

Init ==
    /\ status = [t \in Tasks |-> IF t \in Legacy THEN "pending" ELSE "none"]
    /\ activeKey = {}
    /\ lockedBy = [t \in Tasks |-> NoRunner]
    /\ locks = {}
    /\ pc = [r \in Runners |-> "idle"]
    /\ task = [r \in Runners |-> 0]
    /\ seen = [r \in Runners |-> NoRow]
    /\ handler = [r \in Runners |-> [t \in Tasks |-> "none"]]
    /\ client = [c \in Clients |-> "idle"]
    /\ claims = [t \in Tasks |-> 0]
    /\ crashes = 0 /\ faults = 0
-----------------------------------------------------------------------------
(***************************************************************************)
(* The statements on the two tables.                                       *)
(***************************************************************************)
Fault   == faults < MaxFaults /\ faults' = faults + 1
NoFault == UNCHANGED faults

Created == {t \in Tasks : status[t] # "none"}

(* The unique index on active_key accepts a row. *)
KeyFree == activeKey = {}

InsertTask ==
    /\ KeyFree
    /\ \E t \in Tasks :
         /\ t \notin Created /\ \A u \in Tasks \ Created : t <= u
         /\ status' = [status EXCEPT ![t] = "pending"]
         /\ activeKey' = activeKey \union {t}
    /\ UNCHANGED <<lockedBy, locks>>

(* The insert is refused by the index, and at the bound MaxTasks. *)
CreateSystemTask ==
    \/ NoFault /\ InsertTask
    \/ NoFault /\ (~KeyFree \/ Created = Tasks) /\ UNCHANGED tables
    \/ Fault /\ UNCHANGED tables

(* Mutant: a finished task is failed by the sweep too. *)
MutMarkAny(t) ==
    /\ status' = [status EXCEPT ![t] = "failed"]
    /\ activeKey' = activeKey \ {t}

(* Mutant: the failed task keeps its active_key. *)
MutMarkKeepsKey(t) ==
    /\ status' = IF status[t] = "running" THEN [status EXCEPT ![t] = "failed"] ELSE status
    /\ UNCHANGED activeKey

MarkSystemTaskLeaseExpired(t) ==
    IF status[t] = "running"
    THEN /\ status' = [status EXCEPT ![t] = "failed"]
         /\ activeKey' = activeKey \ {t}
    ELSE UNCHANGED <<status, activeKey>>

(* ReleaseSystemTaskLock: the rows it leaves. *)
Released(t, r) == {l \in locks : ~(l.task = t /\ l.by = r)}

(* The lease that UpdateSystemTaskState, FinishSystemTask and RenewSystemTaskLock ask for. *)
Leased(t, r) == \E l \in locks : l.task = t /\ l.by = r /\ ~l.expired

(* Runner r reads now := common.GetTimestamp(). *)
Stamp(r, L) == {IF l.expired THEN [l EXCEPT !.before = @ \union {r}] ELSE l : l \in L}

(* Mutant: the second check of locked_until is left out. *)
MutOver(l, r) == TRUE

(* l.locked_until < now, for the now of runner r. *)
Over(l, r) == r \in l.before

Goto(r, where) == pc' = [pc EXCEPT ![r] = where]

(* The loop of r goes on, with no claim or sweep in hand; its `now` is gone. *)
Leave(r, where) ==
    /\ Goto(r, where)
    /\ task' = [task EXCEPT ![r] = 0]
    /\ seen' = [seen EXCEPT ![r] = NoRow]

Forget(r, L) == {[l EXCEPT !.before = @ \ {r}] : l \in L}

others == <<handler, client, claims, crashes>>
-----------------------------------------------------------------------------
(***************************************************************************)
(* ExpireStaleSystemTaskLocks.  The sweep and the scheduler are throttled   *)
(* apart from the claims: a pass may skip them.                             *)
(***************************************************************************)
ExpireStaleSystemTaskLocks(r) ==
    /\ pc[r] = "idle"
    /\ UNCHANGED <<status, activeKey, lockedBy, task>> /\ UNCHANGED others
    /\ \/ /\ NoFault
          /\ \E l \in locks : l.expired /\ seen' = [seen EXCEPT ![r] = [task |-> l.task, by |-> l.by]]
          /\ locks' = Stamp(r, locks)
          /\ Goto(r, "mark")
       \/ /\ (NoFault /\ \A l \in locks : ~l.expired) \/ Fault
          /\ Goto(r, "schedule") /\ UNCHANGED <<locks, seen>>

skipSweep(r) ==
    /\ pc[r] = "idle"
    /\ pc' \in {[pc EXCEPT ![r] = "schedule"], [pc EXCEPT ![r] = "find"]}
    /\ NoFault /\ UNCHANGED <<tables, task, seen, others>>

(* Mutant: the row is deleted without failing its task. *)
MutDeleteOnly(r) ==
    /\ pc[r] = "mark" /\ NoFault
    /\ Goto(r, "delete") /\ UNCHANGED <<tables, task, seen, others>>

markStale(r) ==
    /\ pc[r] = "mark"
    /\ UNCHANGED <<lockedBy, others>>
    /\ \/ /\ NoFault /\ MarkSystemTaskLeaseExpired(seen[r].task)
          /\ Goto(r, "delete") /\ UNCHANGED <<locks, task, seen>>
       \/ /\ Fault /\ UNCHANGED <<status, activeKey>>
          /\ Leave(r, "schedule") /\ locks' = Forget(r, locks)

deleteStale(r) ==
    /\ pc[r] = "delete"
    /\ Leave(r, "schedule") /\ UNCHANGED <<status, activeKey, lockedBy, others>>
    /\ \/ /\ NoFault
          /\ locks' = Forget(r, {l \in locks :
                ~(l.task = seen[r].task /\ l.by = seen[r].by /\ Over(l, r))})
       \/ Fault /\ locks' = Forget(r, locks)
-----------------------------------------------------------------------------
(***************************************************************************)
(* Creating tasks: the scheduler of a runner, and the API.                 *)
(***************************************************************************)
(* GetLatestSystemTasks: no row, or a terminal one old enough. *)
runSystemTaskScheduler(r) ==
    /\ pc[r] = "schedule"
    /\ UNCHANGED <<tables, task, seen, others>>
    /\ \/ /\ \A t \in Created : (\A u \in Created : u <= t) => status[t] \in Terminal
          /\ Goto(r, "create") /\ NoFault
       \/ Goto(r, "find") /\ (NoFault \/ Fault)

createScheduled(r) ==
    /\ pc[r] = "create"
    /\ CreateSystemTask
    /\ Goto(r, "find") /\ UNCHANGED <<task, seen, others>>

(* EnqueueSystemTask and StartLogCleanupTask. *)
EnqueueSystemTask(c) ==
    /\ client[c] = "idle"
    /\ \A t \in Tasks : status[t] \notin Active
    /\ client' = [client EXCEPT ![c] = "create"]
    /\ NoFault /\ UNCHANGED <<tables, loop, handler, claims, crashes>>

createEnqueued(c) ==
    /\ client[c] = "create"
    /\ CreateSystemTask
    /\ client' = [client EXCEPT ![c] = "idle"]
    /\ UNCHANGED <<loop, handler, claims, crashes>>
-----------------------------------------------------------------------------
(***************************************************************************)
(* runSystemTaskClaimPass and ClaimSystemTask.                             *)
(***************************************************************************)
Pending == {t \in Tasks : status[t] = "pending"}

(* FindEarliestPendingSystemTasks, and the first read of ClaimSystemTask. *)
findPending(r) ==
    /\ pc[r] = "find"
    /\ UNCHANGED <<status, activeKey, lockedBy, seen, others>>
    /\ \/ /\ NoFault
          /\ \E t \in Pending : (\A u \in Pending : t <= u) /\ task' = [task EXCEPT ![r] = t]
          /\ locks' = Stamp(r, locks) /\ Goto(r, "acquire")
       \/ /\ (NoFault /\ Pending = {}) \/ Fault
          /\ Goto(r, "idle") /\ UNCHANGED <<locks, task>>

(* The primary key accepts a row. *)
LockFree == locks = {}

(* The row runner r writes for the task it is claiming. *)
NewRow(r) == [task |-> task[r], by |-> r, expired |-> FALSE, before |-> {}]

(* acquireSystemTaskLock: INSERT; any error sends it to the row there is. *)
acquireSystemTaskLock(r) ==
    /\ pc[r] = "acquire"
    /\ UNCHANGED <<status, activeKey, lockedBy, task, seen, others>>
    /\ \/ /\ NoFault /\ LockFree
          /\ locks' = locks \union {NewRow(r)}
          /\ Goto(r, "take")
       \/ /\ (NoFault /\ ~LockFree) \/ Fault
          /\ Goto(r, "existing") /\ UNCHANGED locks

readExisting(r) ==
    /\ pc[r] = "existing"
    /\ UNCHANGED <<status, activeKey, lockedBy, others>>
    /\ \/ /\ NoFault
          /\ \E l \in locks : Over(l, r) /\ seen' = [seen EXCEPT ![r] = [task |-> l.task, by |-> l.by]]
          /\ Goto(r, "cas") /\ UNCHANGED <<locks, task>>
       \/ /\ (NoFault /\ \A l \in locks : ~Over(l, r)) \/ Fault
          /\ Leave(r, "idle") /\ locks' = Forget(r, locks)

(* UPDATE ... WHERE locked_until < now, then the lease this one ended. *)
casLock(r) ==
    /\ pc[r] = "cas"
    /\ UNCHANGED <<status, activeKey, lockedBy, others>>
    /\ \/ /\ NoFault /\ \E l \in locks : Over(l, r)
          /\ locks' = {IF Over(l, r) THEN NewRow(r) ELSE l : l \in locks}
          /\ Goto(r, IF seen[r].task = task[r] THEN "take" ELSE "markExpired")
          /\ UNCHANGED <<task, seen>>
       \/ /\ (NoFault /\ \A l \in locks : ~Over(l, r)) \/ Fault
          /\ Leave(r, "idle") /\ locks' = Forget(r, locks)

markClaimed(r) ==
    /\ pc[r] = "markExpired"
    /\ UNCHANGED <<lockedBy, locks, task, seen, others>>
    /\ \/ NoFault /\ MarkSystemTaskLeaseExpired(seen[r].task) /\ Goto(r, "take")
       \/ Fault /\ UNCHANGED <<status, activeKey>> /\ Goto(r, "release")

(* Mutant: the task is taken whatever its status is by now. *)
MutTakeable(t) == TRUE

Takeable(t) == status[t] = "pending"

(* pending -> running, the last read, and the goroutine of the handler. *)
takeTask(r) ==
    LET t == task[r] IN
    /\ pc[r] = "take"
    /\ UNCHANGED <<activeKey, client, crashes>>
    /\ \/ /\ Takeable(t) /\ NoFault
          /\ status' = [status EXCEPT ![t] = "running"]
          /\ lockedBy' = [lockedBy EXCEPT ![t] = r]
          /\ handler' = [handler EXCEPT ![r][t] = "run"]
          /\ claims' = [claims EXCEPT ![t] = @ + 1]
          /\ Leave(r, "idle") /\ locks' = Forget(r, locks)
       \/ /\ Takeable(t) /\ Fault  \* the last read fails: nobody runs the task
          /\ status' = [status EXCEPT ![t] = "running"]
          /\ lockedBy' = [lockedBy EXCEPT ![t] = r]
          /\ Leave(r, "idle") /\ locks' = Forget(r, locks) /\ UNCHANGED <<handler, claims>>
       \/ /\ (~Takeable(t) /\ NoFault) \/ Fault
          /\ Goto(r, "release") /\ UNCHANGED <<status, lockedBy, locks, task, seen, handler, claims>>

releaseClaim(r) ==
    /\ pc[r] = "release"
    /\ UNCHANGED <<status, activeKey, lockedBy, others>>
    /\ Leave(r, "idle")
    /\ \/ NoFault /\ locks' = Forget(r, Released(task[r], r))
       \/ Fault /\ locks' = Forget(r, locks)
-----------------------------------------------------------------------------
(***************************************************************************)
(* The handler of task t on runner r, and its heartbeat.                   *)
(***************************************************************************)
HandlerGoto(r, t, where) == handler' = [handler EXCEPT ![r][t] = where]

(* RenewSystemTaskLock failed: the context is cancelled, the heartbeat ends. *)
(* A renewal that succeeds leaves the lease not expired, as it was.          *)
cancelHandler(r, t) ==
    /\ handler[r][t] = "run"
    /\ (NoFault /\ ~Leased(t, r)) \/ Fault
    /\ HandlerGoto(r, t, "cancelled")
    /\ UNCHANGED <<tables, loop, client, claims, crashes>>

(* UpdateSystemTaskState failed, and the handler (log cleanup) gives up. *)
abandon(r, t) ==
    /\ handler[r][t] \in {"run", "cancelled"}
    /\ (NoFault /\ ~(Leased(t, r) /\ status[t] = "running")) \/ Fault
    /\ HandlerGoto(r, t, "ended")
    /\ UNCHANGED <<tables, loop, client, claims, crashes>>

MayFinish(t, r) == status[t] = "running" /\ lockedBy[t] = r /\ Leased(t, r)

FinishSystemTask(r, t) ==
    /\ handler[r][t] \in {"run", "cancelled"}
    /\ UNCHANGED <<lockedBy, locks, loop, client, claims, crashes>>
    /\ \/ /\ NoFault /\ MayFinish(t, r)
          /\ \E s \in Terminal : status' = [status EXCEPT ![t] = s]
          /\ activeKey' = activeKey \ {t}
          /\ HandlerGoto(r, t, "release")
       \/ /\ (NoFault /\ ~MayFinish(t, r)) \/ Fault
          /\ HandlerGoto(r, t, "ended") /\ UNCHANGED <<status, activeKey>>

releaseFinished(r, t) ==
    /\ handler[r][t] = "release"
    /\ HandlerGoto(r, t, "ended")
    /\ \/ NoFault /\ locks' = Released(t, r)
       \/ Fault /\ UNCHANGED locks
    /\ UNCHANGED <<status, activeKey, lockedBy, loop, client, claims, crashes>>
-----------------------------------------------------------------------------
(***************************************************************************)
(* Time and crashes.                                                       *)
(***************************************************************************)
Claiming(l) == /\ pc[l.by] \in {"markExpired", "take", "release"} /\ task[l.by] = l.task
Beating(l)  == handler[l.by][l.task] \in {"run", "release"}

(* systemTaskLockTTL passes without a renewal. *)
lapse ==
    /\ \E l \in locks :
         /\ ~l.expired
         /\ PromptClaims => ~Claiming(l)
         /\ locks' = (locks \ {l}) \union {[l EXCEPT !.expired = TRUE]}
    /\ NoFault /\ UNCHANGED <<status, activeKey, lockedBy, loop, others>>

(* A process ends: its loop and its handlers are gone, the rows stay. *)
crash(r) ==
    /\ pc[r] # "crashed" /\ crashes < MaxCrashes
    /\ crashes' = crashes + 1
    /\ Leave(r, "crashed")
    /\ locks' = Forget(r, locks)
    /\ handler' = [handler EXCEPT ![r] = [t \in Tasks |-> IF @[t] = "none" THEN "none" ELSE "ended"]]
    /\ NoFault /\ UNCHANGED <<status, activeKey, lockedBy, client, claims>>
-----------------------------------------------------------------------------
LoopStep(r) ==
    \/ ExpireStaleSystemTaskLocks(r) \/ skipSweep(r) \/ markStale(r) \/ deleteStale(r)
    \/ runSystemTaskScheduler(r) \/ createScheduled(r)
    \/ findPending(r) \/ acquireSystemTaskLock(r) \/ readExisting(r) \/ casLock(r)
    \/ markClaimed(r) \/ takeTask(r) \/ releaseClaim(r)

HandlerStep(r, t) == FinishSystemTask(r, t) \/ releaseFinished(r, t)

Next ==
    \/ \E r \in Runners : LoopStep(r) \/ crash(r)
    \/ \E r \in Runners, t \in Tasks : HandlerStep(r, t) \/ cancelHandler(r, t) \/ abandon(r, t)
    \/ \E c \in Clients : EnqueueSystemTask(c) \/ createEnqueued(c)
    \/ lapse

(* The loop runs on a ticker and sweeps every systemTaskStaleLockInterval; *)
(* handlers return; a lease that nobody renews ends.                        *)
Fairness ==
    /\ \A r \in Runners : WF_vars(LoopStep(r)) /\ SF_vars(ExpireStaleSystemTaskLocks(r))
    /\ \A r \in Runners, t \in Tasks : WF_vars(HandlerStep(r, t))
    /\ WF_vars(lapse /\ \A l \in locks : ~Beating(l))

Spec == Init /\ [][Next]_vars /\ Fairness
-----------------------------------------------------------------------------
(***************************************************************************)
(* Properties.                                                             *)
(***************************************************************************)
(* The variables keep their types; system_task_locks has one row per type. *)
TypeOK ==
    /\ status \in [Tasks -> Active \union Terminal \union {"none"}]
    /\ activeKey \subseteq Tasks
    /\ lockedBy \in [Tasks -> Runners \union {NoRunner}]
    /\ locks \subseteq Rows /\ \A k, l \in locks : k = l
    /\ pc \in [Runners -> PCs]
    /\ task \in [Runners -> Tasks \union {0}]
    /\ seen \in [Runners -> [task : Tasks \union {0}, by : Runners \union {NoRunner}]]
    /\ handler \in [Runners -> [Tasks -> {"none", "run", "cancelled", "release", "ended"}]]
    /\ client \in [Clients -> {"idle", "create"}]
    /\ claims \in [Tasks -> Nat]
    /\ crashes \in 0..MaxCrashes /\ faults \in 0..MaxFaults

(* However creators, sweeps and handlers race, active_key is set on exactly *)
(* the rows that are pending or running, and on one at most: a finished or  *)
(* expired task never blocks the creation of the next one.                  *)
OneActive ==
    /\ \A t, u \in activeKey : t = u
    /\ activeKey = {t \in Tasks \ Legacy : status[t] \in Active}

(* The comment on runSystemTaskScheduler: only one runner executes the task. *)
(* Every task is dispatched once at most, over all runners and restarts.     *)
RunsOnce == \A t \in Tasks : claims[t] <= 1

(* Two tasks of one type are never running at the same time, even when a    *)
(* lease expires and another runner takes the lock over.                    *)
OneRunning == \A t, u \in Tasks : status[t] = "running" /\ status[u] = "running" => t = u

(* A running task can be recovered: its lock row is there for a sweep to    *)
(* find, or the runner that took the row over is about to fail the task.    *)
RunningRecoverable ==
    \A t \in Tasks : status[t] = "running" =>
        \/ \E l \in locks : l.task = t
        \/ \E r \in Runners : pc[r] = "markExpired" /\ seen[r].task = t

(* A task that succeeded or failed stays so: the sweep after a crash        *)
(* between FinishSystemTask's two statements does not overwrite it.         *)
TerminalStable ==
    [][\A t \in Tasks : status[t] \in Terminal => status'[t] = status[t]]_vars

(* A lease that has not expired is given up by its holder only: no stale    *)
(* `now` of a sweep or of a claim deletes it or takes it over.              *)
LeaseNotStolen ==
    [][\A l \in locks : ~l.expired =>
          \/ \E k \in locks' : k.task = l.task /\ k.by = l.by
          \/ pc[l.by] = "release" /\ pc'[l.by] # "release"
          \/ handler[l.by][l.task] = "release" /\ handler'[l.by][l.task] = "ended"]_vars

(* A task that was created ends, whatever crashes: it is claimed, and       *)
(* finished by its handler or failed by a sweep.                            *)
EveryTaskEnds ==
    \A t \in Tasks : status[t] \in Active ~> status[t] \in Terminal

(* runWithLeaseHeartbeat's comment: a handler stays alive as long as its    *)
(* heartbeat succeeds.  A task under a lease that has not expired is not    *)
(* failed for an expired one.  False when a sweep marks the task late.      *)
LiveLeaseNotExpired ==
    [][\A t \in Tasks, r \in Runners :
          status[t] = "running" /\ handler[r][t] = "run" /\ Leased(t, r) /\ handler' = handler
              => status'[t] = "running"]_vars
=============================================================================
