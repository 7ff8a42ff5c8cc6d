-------------------------- MODULE SystemTask_proofs --------------------------
(***************************************************************************)
(* Proofs about SystemTask, for any runners, clients, number of tasks,     *)
(* crashes and database errors, with and without PromptClaims.             *)
(*                                                                         *)
(* The inductive invariant has four parts that a step disturbs apart: the  *)
(* task table, the lock table, the loops, and the rest.                    *)
(* The last part, recovery, adds what a runner knows of the lock row and   *)
(* needs PromptClaims.                                                     *)
(***************************************************************************)
EXTENDS SystemTask, TLAPS

(* The task table: types, OneActive, and what makes RunsOnce inductive: a   *)
(* task that is not running yet was never dispatched.                      *)
TasksOK ==
    /\ status \in [Tasks -> Active \union Terminal \union {"none"}]
    /\ activeKey \subseteq Tasks
    /\ claims \in [Tasks -> Nat]
    /\ OneActive
    /\ \A t \in Legacy : status[t] # "none"
    /\ \A t \in Tasks : status[t] \in {"none", "pending"} => claims[t] = 0
    /\ RunsOnce

(* The lock table: one row, and a lease that has not expired has not        *)
(* expired for any `now` that was read earlier.                            *)
GoodRows(L) ==
    /\ L \subseteq Rows
    /\ \A k, l \in L : k = l
    /\ \A l \in L : ~l.expired => l.before = {}

LoopOK ==
    /\ lockedBy \in [Tasks -> Runners \union {NoRunner}]
    /\ pc \in [Runners -> PCs]
    /\ task \in [Runners -> Tasks \union {0}]
    /\ seen \in [Runners -> [task : Tasks \union {0}, by : Runners \union {NoRunner}]]
    /\ \A r \in Runners : pc[r] \in {"acquire", "existing", "cas"} => task[r] \in Tasks

RestOK ==
    /\ handler \in [Runners -> [Tasks -> {"none", "run", "cancelled", "release", "ended"}]]
    /\ client \in [Clients -> {"idle", "create"}]
    /\ crashes \in 0..MaxCrashes /\ faults \in 0..MaxFaults

Inv == TasksOK /\ GoodRows(locks) /\ LoopOK /\ RestOK

(* A step that leaves the task table alone. *)
LEMMA TasksUnchanged ==
    ASSUME TasksOK, UNCHANGED <<status, activeKey, claims>>
    PROVE  TasksOK'
BY DEF TasksOK, OneActive, RunsOnce

(* Failing a task whose lease expired. *)
LEMMA MarkKeepsTasks ==
    ASSUME TasksOK, NEW t, MarkSystemTaskLeaseExpired(t), UNCHANGED claims
    PROVE  TasksOK'
<1>1. CASE status[t] = "running" /\ t \in Tasks
  <2>1. status' = [status EXCEPT ![t] = "failed"] /\ activeKey' = activeKey \ {t}
    BY <1>1 DEF MarkSystemTaskLeaseExpired
  <2> QED
    BY <1>1, <2>1 DEF TasksOK, OneActive, RunsOnce, Active, Terminal
<1>2. CASE status[t] = "running" /\ t \notin Tasks
  <2>1. status' = status /\ activeKey' = activeKey
    BY <1>2 DEF MarkSystemTaskLeaseExpired, TasksOK
  <2> QED
    BY <2>1, TasksUnchanged
<1>3. CASE status[t] # "running"
  BY <1>3, TasksUnchanged DEF MarkSystemTaskLeaseExpired
<1> QED
  BY <1>1, <1>2, <1>3

(* CreateSystemTask, by the scheduler or by the API. *)
LEMMA CreateKeepsTasks ==
    ASSUME TasksOK, CreateSystemTask, UNCHANGED claims
    PROVE  TasksOK'
<1>1. CASE UNCHANGED tables
  BY <1>1, TasksUnchanged DEF tables
<1>2. CASE InsertTask
  <2>1. PICK t \in Tasks : /\ status[t] = "none" /\ status' = [status EXCEPT ![t] = "pending"]
                           /\ activeKey' = {t} /\ activeKey = {}
    BY <1>2 DEF InsertTask, KeyFree, Created
  <2>2. t \notin Legacy
    BY <2>1 DEF TasksOK
  <2> QED
    BY <2>1, <2>2 DEF TasksOK, OneActive, RunsOnce, Active, Terminal
<1> QED
  BY <1>1, <1>2 DEF CreateSystemTask

(* takeTask is the only step that dispatches, and only a pending task. *)
LEMMA TakeKeepsTasks ==
    ASSUME TasksOK, NEW r \in Runners, takeTask(r)
    PROVE  TasksOK'
<1> DEFINE t == task[r]
<1>1. CASE /\ status[t] = "pending" /\ status' = [status EXCEPT ![t] = "running"]
           /\ UNCHANGED activeKey
           /\ claims' = [claims EXCEPT ![t] = @ + 1] \/ UNCHANGED claims
  <2>1. CASE t \in Tasks
    BY <1>1, <2>1 DEF TasksOK, OneActive, RunsOnce, Active, Terminal
  <2>2. CASE t \notin Tasks
    <3>1. UNCHANGED <<status, activeKey, claims>>
      BY <1>1, <2>2 DEF TasksOK
    <3> QED
      BY <3>1, TasksUnchanged
  <2> QED
    BY <2>1, <2>2
<1>2. CASE UNCHANGED <<status, activeKey, claims>>
  BY <1>2, TasksUnchanged
<1> QED
  BY <1>1, <1>2 DEF takeTask, Takeable

(* FinishSystemTask ends a running task. *)
LEMMA FinishKeepsTasks ==
    ASSUME TasksOK, NEW r \in Runners, NEW t \in Tasks, FinishSystemTask(r, t)
    PROVE  TasksOK'
<1>1. CASE /\ status[t] = "running" /\ activeKey' = activeKey \ {t} /\ UNCHANGED claims
           /\ \E s \in Terminal : status' = [status EXCEPT ![t] = s]
  BY <1>1 DEF TasksOK, OneActive, RunsOnce, Active, Terminal
<1>2. CASE UNCHANGED <<status, activeKey, claims>>
  BY <1>2, TasksUnchanged
<1> QED
  BY <1>1, <1>2 DEF FinishSystemTask, MayFinish

(* Every step keeps the task table. *)
LEMMA NextTasks ==
    ASSUME TasksOK, [Next]_vars
    PROVE  TasksOK'
<1>1. CASE UNCHANGED vars
  BY <1>1, TasksUnchanged DEF vars
<1>2. ASSUME NEW r \in Runners, markStale(r) \/ markClaimed(r)
      PROVE  TasksOK'
  BY <1>2, MarkKeepsTasks, TasksUnchanged DEF markStale, markClaimed, others
<1>3. ASSUME NEW r \in Runners, createScheduled(r)
      PROVE  TasksOK'
  BY <1>3, CreateKeepsTasks DEF createScheduled, others
<1>4. ASSUME NEW r \in Runners, takeTask(r)
      PROVE  TasksOK'
  BY <1>4, TakeKeepsTasks
<1>5. ASSUME NEW r \in Runners,
             \/ ExpireStaleSystemTaskLocks(r) \/ skipSweep(r) \/ deleteStale(r)
             \/ runSystemTaskScheduler(r) \/ findPending(r) \/ acquireSystemTaskLock(r)
             \/ readExisting(r) \/ casLock(r) \/ releaseClaim(r) \/ crash(r)
      PROVE  TasksOK'
  BY <1>5, TasksUnchanged
     DEF ExpireStaleSystemTaskLocks, skipSweep, deleteStale, runSystemTaskScheduler, findPending,
         acquireSystemTaskLock, readExisting, casLock, releaseClaim, crash, tables, others
<1>6. ASSUME NEW r \in Runners, NEW t \in Tasks, FinishSystemTask(r, t)
      PROVE  TasksOK'
  BY <1>6, FinishKeepsTasks
<1>7. ASSUME NEW r \in Runners, NEW t \in Tasks, releaseFinished(r, t) \/ cancelHandler(r, t) \/ abandon(r, t)
      PROVE  TasksOK'
  BY <1>7, TasksUnchanged DEF releaseFinished, cancelHandler, abandon, tables
<1>8. ASSUME NEW c \in Clients, EnqueueSystemTask(c)
      PROVE  TasksOK'
  BY <1>8, TasksUnchanged DEF EnqueueSystemTask, tables
<1>9. ASSUME NEW c \in Clients, createEnqueued(c)
      PROVE  TasksOK'
  BY <1>9, CreateKeepsTasks DEF createEnqueued
<1>10. CASE lapse
  BY <1>10, TasksUnchanged DEF lapse, others
<1> QED
  BY <1>1, <1>2, <1>3, <1>4, <1>5, <1>6, <1>7, <1>8, <1>9, <1>10 DEF Next, LoopStep, HandlerStep

(* The task table is right at the start: only rows of an earlier version. *)
LEMMA InitTasks ==
    ASSUME Init
    PROVE  TasksOK
BY BoundsAssumption DEF Init, TasksOK, OneActive, RunsOnce, Active, Terminal

(* A finished task keeps its status in every step. *)
LEMMA NextTerminal ==
    ASSUME TasksOK, [Next]_vars, NEW t \in Tasks, status[t] \in Terminal
    PROVE  status'[t] = status[t]
<1> USE DEF Terminal
<1>1. CASE UNCHANGED status
  BY <1>1
<1>2. ASSUME NEW u, MarkSystemTaskLeaseExpired(u)
      PROVE  status'[t] = status[t]
  BY <1>2 DEF MarkSystemTaskLeaseExpired, TasksOK
<1>3. CASE CreateSystemTask
  BY <1>3 DEF CreateSystemTask, InsertTask, Created, tables, TasksOK
<1>4. ASSUME NEW r \in Runners, takeTask(r)
      PROVE  status'[t] = status[t]
  BY <1>4 DEF takeTask, Takeable, TasksOK
<1>5. ASSUME NEW r \in Runners, NEW u \in Tasks, FinishSystemTask(r, u)
      PROVE  status'[t] = status[t]
  BY <1>5 DEF FinishSystemTask, MayFinish, TasksOK
<1>6. ASSUME NEW r \in Runners, LoopStep(r) \/ crash(r)
      PROVE  status'[t] = status[t]
  BY <1>1, <1>2, <1>3, <1>4, <1>6
     DEF LoopStep, markStale, markClaimed, createScheduled, ExpireStaleSystemTaskLocks, skipSweep,
         deleteStale, runSystemTaskScheduler, findPending, acquireSystemTaskLock, readExisting,
         casLock, releaseClaim, crash, tables
<1>7. ASSUME NEW r \in Runners, NEW u \in Tasks,
             HandlerStep(r, u) \/ cancelHandler(r, u) \/ abandon(r, u)
      PROVE  status'[t] = status[t]
  BY <1>1, <1>5, <1>7 DEF HandlerStep, releaseFinished, cancelHandler, abandon, tables
<1>8. ASSUME NEW c \in Clients, EnqueueSystemTask(c) \/ createEnqueued(c)
      PROVE  status'[t] = status[t]
  BY <1>1, <1>3, <1>8 DEF EnqueueSystemTask, createEnqueued, tables
<1>9. CASE lapse \/ UNCHANGED vars
  BY <1>1, <1>9 DEF lapse, vars
<1> QED
  BY <1>6, <1>7, <1>8, <1>9 DEF Next

(* The invariant of the task table. *)
THEOREM TaskTableCorrect == Spec => []TasksOK
BY InitTasks, NextTasks, PTL DEF Spec

(* active_key is set on exactly the pending and running rows, and on one at *)
(* most, for any number of nodes, crashes and database errors.              *)
THEOREM OneTaskActive == Spec => []OneActive
BY TaskTableCorrect, PTL DEF TasksOK

(* No task is dispatched twice: the UPDATE that takes it asks for a pending *)
(* row, and no step makes a row pending again.                              *)
THEOREM TasksRunOnce == Spec => []RunsOnce
BY TaskTableCorrect, PTL DEF TasksOK

(* A finished task is never overwritten, by a sweep or by a late handler. *)
THEOREM FinishedTasksStay == Spec => TerminalStable
<1>1. TasksOK /\ [Next]_vars
        => [\A t \in Tasks : status[t] \in Terminal => status'[t] = status[t]]_vars
  BY NextTerminal
<1> QED
  BY TaskTableCorrect, <1>1, PTL DEF Spec, TerminalStable

-----------------------------------------------------------------------------
(* The row of a lease that ends. *)
LEMMA RowExpires ==
    ASSUME NEW l \in Rows
    PROVE  /\ [l EXCEPT !.expired = TRUE] \in Rows /\ [l EXCEPT !.expired = TRUE].expired
           /\ [l EXCEPT !.expired = TRUE].task = l.task /\ [l EXCEPT !.expired = TRUE].by = l.by
BY DEF Rows

(* Reading `now` and dropping it keep every row, its task and its holder. *)
LEMMA StampGood ==
    ASSUME NEW r \in Runners, NEW L, GoodRows(L)
    PROVE  /\ GoodRows(Stamp(r, L))
           /\ \A l \in L : \E k \in Stamp(r, L) : k.task = l.task /\ k.by = l.by
<1> DEFINE F(l) == IF l.expired THEN [l EXCEPT !.before = @ \union {r}] ELSE l
<1>1. ASSUME NEW l \in L
      PROVE  /\ F(l) \in Rows /\ F(l).task = l.task /\ F(l).by = l.by
             /\ ~F(l).expired => F(l).before = {}
  <2>1. l \in Rows /\ l.before \union {r} \in SUBSET Runners
    BY DEF GoodRows, Rows
  <2> QED
    BY <2>1 DEF GoodRows, Rows
<1>2. Stamp(r, L) = {F(l) : l \in L}
  BY DEF Stamp
<1> HIDE DEF F
<1>3. \A k, l \in Stamp(r, L) : k = l
  BY <1>2 DEF GoodRows
<1> QED
  BY <1>1, <1>2, <1>3 DEF GoodRows

(* The time that a runner read is no longer used: the rows stay good. *)
LEMMA ForgetGood ==
    ASSUME NEW r \in Runners, NEW L, GoodRows(L)
    PROVE  /\ GoodRows(Forget(r, L))
           /\ \A l \in L : \E k \in Forget(r, L) : k.task = l.task /\ k.by = l.by
<1> DEFINE F(l) == [l EXCEPT !.before = @ \ {r}]
<1>1. ASSUME NEW l \in L
      PROVE  /\ F(l) \in Rows /\ F(l).task = l.task /\ F(l).by = l.by
             /\ ~F(l).expired => F(l).before = {}
  <2>1. l \in Rows /\ l.before \ {r} \in SUBSET Runners /\ (~l.expired => l.before \ {r} = {})
    BY DEF GoodRows, Rows
  <2> QED
    BY <2>1 DEF Rows
<1>2. Forget(r, L) = {F(l) : l \in L}
  BY DEF Forget
<1> HIDE DEF F
<1>3. \A k, l \in Forget(r, L) : k = l
  BY <1>2 DEF GoodRows
<1> QED
  BY <1>1, <1>2, <1>3 DEF GoodRows

(* Deleting rows keeps the table right. *)
LEMMA SubsetGood ==
    ASSUME NEW L, GoodRows(L), NEW K \in SUBSET L
    PROVE  GoodRows(K)
BY DEF GoodRows

(* The row that a claim writes: the table is empty, or its row is replaced. *)
LEMMA NewRowGood ==
    ASSUME NEW r \in Runners, task[r] \in Tasks
    PROVE  GoodRows({NewRow(r)})
<1>1. NewRow(r) \in Rows /\ NewRow(r).before = {}
  BY DEF NewRow, Rows
<1> QED
  BY <1>1 DEF GoodRows

(* A lease that has not expired is not over for any runner. *)
LEMMA LeaseNotOver ==
    ASSUME GoodRows(locks), NEW l \in locks, ~l.expired, NEW r
    PROVE  ~Over(l, r)
BY DEF GoodRows, Over

(* Every step keeps the lock table. *)
LEMMA NextRows ==
    ASSUME GoodRows(locks), LoopOK, [Next]_vars
    PROVE  GoodRows(locks')
<1>1. CASE UNCHANGED locks
  BY <1>1
<1>2. ASSUME NEW r \in Runners, locks' = Stamp(r, locks)
      PROVE  GoodRows(locks')
  BY <1>2, StampGood
<1>3. ASSUME NEW r \in Runners, NEW K \in SUBSET locks, locks' = Forget(r, K) \/ locks' = K
      PROVE  GoodRows(locks')
  BY <1>3, ForgetGood, SubsetGood
<1>4. ASSUME NEW r \in Runners, acquireSystemTaskLock(r)
      PROVE  GoodRows(locks')
  <2>1. CASE locks' = locks \union {NewRow(r)} /\ locks = {}
    <3>1. locks' = {NewRow(r)} /\ task[r] \in Tasks
      BY <1>4, <2>1 DEF acquireSystemTaskLock, LoopOK
    <3> QED
      BY <3>1, NewRowGood
  <2> QED
    BY <1>1, <1>4, <2>1 DEF acquireSystemTaskLock, LockFree
<1>5. ASSUME NEW r \in Runners, casLock(r)
      PROVE  GoodRows(locks')
  <2>1. CASE /\ \E l \in locks : Over(l, r)
             /\ locks' = {IF Over(l, r) THEN NewRow(r) ELSE l : l \in locks}
    <3>1. locks' = {NewRow(r)} /\ task[r] \in Tasks
      BY <1>5, <2>1 DEF casLock, LoopOK, GoodRows
    <3> QED
      BY <3>1, NewRowGood
  <2> QED
    BY <1>3, <1>5, <2>1 DEF casLock
<1>6. ASSUME NEW r \in Runners, takeTask(r)
      PROVE  GoodRows(locks')
  BY <1>1, <1>3, <1>6 DEF takeTask
<1>7. ASSUME NEW r \in Runners, releaseClaim(r)
      PROVE  GoodRows(locks')
  <2>1. Released(task[r], r) \in SUBSET locks
    BY DEF Released
  <2> QED
    BY <1>3, <1>7, <2>1 DEF releaseClaim
<1>8. ASSUME NEW r \in Runners, deleteStale(r)
      PROVE  GoodRows(locks')
  <2>1. {l \in locks : ~(l.task = seen[r].task /\ l.by = seen[r].by /\ Over(l, r))} \in SUBSET locks
    OBVIOUS
  <2> QED
    BY <1>3, <1>8, <2>1 DEF deleteStale
<1>9. ASSUME NEW r \in Runners, LoopStep(r) \/ crash(r)
      PROVE  GoodRows(locks')
  BY <1>1, <1>2, <1>3, <1>4, <1>5, <1>6, <1>7, <1>8, <1>9
     DEF LoopStep, markStale, markClaimed, createScheduled, CreateSystemTask, InsertTask,
         ExpireStaleSystemTaskLocks, skipSweep, runSystemTaskScheduler, findPending,
         readExisting, crash, tables
<1>10. ASSUME NEW r \in Runners, NEW t \in Tasks,
              HandlerStep(r, t) \/ cancelHandler(r, t) \/ abandon(r, t)
       PROVE  GoodRows(locks')
  <2>1. Released(t, r) \in SUBSET locks
    BY DEF Released
  <2> QED
    BY <1>1, <1>3, <1>10, <2>1 DEF HandlerStep, FinishSystemTask, releaseFinished, cancelHandler, abandon, tables
<1>11. ASSUME NEW c \in Clients, EnqueueSystemTask(c) \/ createEnqueued(c)
       PROVE  GoodRows(locks')
  BY <1>1, <1>11 DEF EnqueueSystemTask, createEnqueued, CreateSystemTask, InsertTask, tables
<1>12. CASE lapse
  <2>1. PICK l \in locks : locks' = (locks \ {l}) \union {[l EXCEPT !.expired = TRUE]}
    BY <1>12 DEF lapse
  <2>2. locks' = {[l EXCEPT !.expired = TRUE]}
    BY <2>1 DEF GoodRows
  <2> QED
    BY <2>2, RowExpires DEF GoodRows
<1>13. CASE UNCHANGED vars
  BY <1>1, <1>13 DEF vars
<1> QED
  BY <1>9, <1>10, <1>11, <1>12, <1>13 DEF Next

(* The variables of a loop that goes on without a claim. *)
LEMMA LeaveKeepsLoop ==
    ASSUME LoopOK, NEW r \in Runners, NEW w \in {"idle", "schedule", "crashed"}, Leave(r, w),
           lockedBy' \in [Tasks -> Runners \union {NoRunner}]
    PROVE  LoopOK'
BY DEF LoopOK, Leave, Goto, NoRow, PCs

(* The variables of a loop that goes on with its claim. *)
LEMMA GotoKeepsLoop ==
    ASSUME LoopOK, NEW r \in Runners, NEW w \in PCs, Goto(r, w), UNCHANGED <<lockedBy, task, seen>>,
           \/ w \notin {"acquire", "existing", "cas"}
           \/ pc[r] \in {"acquire", "existing", "cas"}
    PROVE  LoopOK'
BY DEF LoopOK, Goto

(* Every step keeps the loops. *)
LEMMA NextLoop ==
    ASSUME GoodRows(locks), LoopOK, [Next]_vars
    PROVE  LoopOK'
<1>1. CASE UNCHANGED <<lockedBy, loop>>
  BY <1>1 DEF LoopOK, loop
<1>2. ASSUME NEW r \in Runners, NEW l \in locks, NEW w \in {"mark", "cas"},
             seen' = [seen EXCEPT ![r] = [task |-> l.task, by |-> l.by]],
             Goto(r, w), UNCHANGED <<lockedBy, task>>, w = "cas" => pc[r] = "existing"
      PROVE  LoopOK'
  <2>1. l.task \in Tasks /\ l.by \in Runners
    BY DEF GoodRows, Rows
  <2> QED
    BY <1>2, <2>1 DEF LoopOK, Goto, PCs
<1>3. ASSUME NEW r \in Runners, findPending(r)
      PROVE  LoopOK'
  <2>1. CASE /\ UNCHANGED <<lockedBy, seen>> /\ Goto(r, "acquire")
             /\ \E t \in Tasks : task' = [task EXCEPT ![r] = t]
    BY <2>1 DEF LoopOK, Goto, PCs
  <2> QED
    BY <1>3, <2>1, GotoKeepsLoop DEF findPending, Pending, PCs
<1>4. ASSUME NEW r \in Runners, takeTask(r)
      PROVE  LoopOK'
  <2>1. lockedBy' \in [Tasks -> Runners \union {NoRunner}]
    BY <1>4 DEF takeTask, LoopOK
  <2>2. CASE Leave(r, "idle")
    BY <2>1, <2>2, LeaveKeepsLoop
  <2>3. CASE Goto(r, "release") /\ UNCHANGED <<lockedBy, task, seen>>
    BY <2>3, GotoKeepsLoop DEF PCs
  <2> QED
    BY <1>4, <2>2, <2>3 DEF takeTask
<1>5. ASSUME NEW r \in Runners, deleteStale(r) \/ markStale(r) \/ releaseClaim(r) \/ crash(r)
      PROVE  LoopOK'
  BY <1>5, LeaveKeepsLoop, GotoKeepsLoop
     DEF deleteStale, markStale, releaseClaim, crash, others, PCs, LoopOK
<1>6. ASSUME NEW r \in Runners, skipSweep(r) \/ runSystemTaskScheduler(r) \/ createScheduled(r)
                                 \/ acquireSystemTaskLock(r) \/ markClaimed(r)
      PROVE  LoopOK'
  BY <1>6, GotoKeepsLoop
     DEF skipSweep, runSystemTaskScheduler, createScheduled, CreateSystemTask, InsertTask,
         acquireSystemTaskLock, markClaimed, others, tables, PCs, Goto
<1>7. ASSUME NEW r \in Runners, ExpireStaleSystemTaskLocks(r)
      PROVE  LoopOK'
  BY <1>2, <1>7, GotoKeepsLoop DEF ExpireStaleSystemTaskLocks, PCs
<1>8. ASSUME NEW r \in Runners, readExisting(r)
      PROVE  LoopOK'
  BY <1>2, <1>8, LeaveKeepsLoop DEF readExisting, LoopOK
<1>9. ASSUME NEW r \in Runners, casLock(r)
      PROVE  LoopOK'
  BY <1>9, LeaveKeepsLoop, GotoKeepsLoop DEF casLock, LoopOK, PCs
<1>10. ASSUME NEW r \in Runners, NEW t \in Tasks,
              HandlerStep(r, t) \/ cancelHandler(r, t) \/ abandon(r, t)
       PROVE  LoopOK'
  BY <1>1, <1>10 DEF HandlerStep, FinishSystemTask, releaseFinished, cancelHandler, abandon, tables
<1>11. ASSUME NEW c \in Clients, EnqueueSystemTask(c) \/ createEnqueued(c)
       PROVE  LoopOK'
  BY <1>1, <1>11 DEF EnqueueSystemTask, createEnqueued, CreateSystemTask, InsertTask, tables
<1>12. CASE lapse \/ UNCHANGED vars
  BY <1>1, <1>12 DEF lapse, vars, loop
<1> QED
  BY <1>3, <1>4, <1>5, <1>6, <1>7, <1>8, <1>9, <1>10, <1>11, <1>12 DEF Next, LoopStep

(* Every step keeps handlers, clients and the bounds. *)
LEMMA NextRest ==
    ASSUME RestOK, LoopOK, [Next]_vars
    PROVE  RestOK'
<1> DEFINE H == {"none", "run", "cancelled", "release", "ended"}
<1>1. ASSUME Fault \/ NoFault
      PROVE  faults' \in 0..MaxFaults
  BY <1>1, BoundsAssumption DEF Fault, NoFault, RestOK
<1>2. ASSUME NEW r \in Runners, LoopStep(r)
      PROVE  RestOK'
  <2>1. Fault \/ NoFault
    BY <1>2 DEF LoopStep, ExpireStaleSystemTaskLocks, skipSweep, markStale, deleteStale,
                runSystemTaskScheduler, createScheduled, CreateSystemTask, findPending,
                acquireSystemTaskLock, readExisting, casLock, markClaimed, takeTask, releaseClaim
  <2>2. CASE UNCHANGED others
    BY <1>1, <2>1, <2>2 DEF RestOK, others
  <2>3. CASE takeTask(r)
    <3>1. handler' \in [Runners -> [Tasks -> H]]
      BY <2>3 DEF takeTask, RestOK
    <3> QED
      BY <1>1, <2>1, <2>3, <3>1 DEF takeTask, RestOK
  <2> QED
    BY <1>2, <2>2, <2>3
       DEF LoopStep, ExpireStaleSystemTaskLocks, skipSweep, markStale, deleteStale,
           runSystemTaskScheduler, createScheduled, findPending, acquireSystemTaskLock,
           readExisting, casLock, markClaimed, releaseClaim, others
<1>3. ASSUME NEW r \in Runners, NEW t \in Tasks,
             HandlerStep(r, t) \/ cancelHandler(r, t) \/ abandon(r, t)
      PROVE  RestOK'
  <2>1. Fault \/ NoFault
    BY <1>3 DEF HandlerStep, FinishSystemTask, releaseFinished, cancelHandler, abandon
  <2>2. \E w \in H : HandlerGoto(r, t, w)
    BY <1>3 DEF HandlerStep, FinishSystemTask, releaseFinished, cancelHandler, abandon
  <2>3. handler' \in [Runners -> [Tasks -> H]]
    BY <2>2 DEF HandlerGoto, RestOK
  <2> QED
    BY <1>1, <1>3, <2>1, <2>3
       DEF HandlerStep, FinishSystemTask, releaseFinished, cancelHandler, abandon, RestOK
<1>4. ASSUME NEW r \in Runners, crash(r)
      PROVE  RestOK'
  <2>1. handler' \in [Runners -> [Tasks -> H]]
    BY <1>4 DEF crash, RestOK
  <2>2. crashes' \in 0..MaxCrashes /\ NoFault /\ client' = client
    BY <1>4, BoundsAssumption DEF crash, RestOK
  <2> QED
    BY <1>1, <2>1, <2>2 DEF RestOK
<1>5. ASSUME NEW c \in Clients, EnqueueSystemTask(c) \/ createEnqueued(c)
      PROVE  RestOK'
  BY <1>1, <1>5 DEF EnqueueSystemTask, createEnqueued, CreateSystemTask, RestOK
<1>6. CASE lapse \/ UNCHANGED vars
  BY <1>1, <1>6 DEF lapse, vars, others, NoFault, RestOK
<1> QED
  BY <1>2, <1>3, <1>4, <1>5, <1>6 DEF Next

(* The four parts together. *)
THEOREM RunnersKeepInv == Spec => []Inv
<1>1. Init => Inv
  <2>1. Init => GoodRows(locks) /\ LoopOK
    BY DEF Init, GoodRows, LoopOK, NoRow, PCs
  <2>2. Init => RestOK
    BY BoundsAssumption DEF Init, RestOK
  <2> QED
    BY <2>1, <2>2, InitTasks DEF Inv
<1>2. Inv /\ [Next]_vars => Inv'
  BY NextTasks, NextRows, NextLoop, NextRest DEF Inv
<1> QED
  BY <1>1, <1>2, PTL DEF Spec

(* The variables keep their types, and the lock table has one row per type. *)
THEOREM TypeCorrect == Spec => []TypeOK
<1>1. Inv => TypeOK
  BY DEF Inv, TasksOK, GoodRows, LoopOK, RestOK, TypeOK
<1> QED
  BY <1>1, RunnersKeepInv, PTL

(* A lease that has not expired stays in the table, except in the two steps *)
(* in which its holder gives it back.                                       *)
LEMMA NextLease ==
    ASSUME GoodRows(locks), LoopOK, RestOK, [Next]_vars, NEW l \in locks, ~l.expired
    PROVE  \/ \E k \in locks' : k.task = l.task /\ k.by = l.by
           \/ pc[l.by] = "release" /\ pc'[l.by] # "release"
           \/ handler[l.by][l.task] = "release" /\ handler'[l.by][l.task] = "ended"
<1> DEFINE Kept == \E k \in locks' : k.task = l.task /\ k.by = l.by
<1>1. CASE UNCHANGED locks
  BY <1>1
<1>2. ASSUME NEW r \in Runners, locks' = Stamp(r, locks) \/ locks' = Forget(r, locks)
      PROVE  Kept
  BY <1>2, StampGood, ForgetGood
<1>3. ASSUME NEW r \in Runners, NEW K \in SUBSET locks, locks' = Forget(r, K), l \in K
      PROVE  Kept
  BY <1>3, SubsetGood, ForgetGood
<1>4. ASSUME NEW r \in Runners, acquireSystemTaskLock(r) \/ casLock(r)
      PROVE  Kept
  BY <1>2, <1>4, LeaseNotOver DEF acquireSystemTaskLock, casLock
<1>5. ASSUME NEW r \in Runners, deleteStale(r)
      PROVE  Kept
  <2> DEFINE K == {k \in locks : ~(k.task = seen[r].task /\ k.by = seen[r].by /\ Over(k, r))}
  <2>1. K \in SUBSET locks /\ l \in K
    BY LeaseNotOver
  <2> QED
    BY <1>2, <1>3, <1>5, <2>1 DEF deleteStale
<1>6. ASSUME NEW r \in Runners, releaseClaim(r)
      PROVE  Kept \/ (pc[l.by] = "release" /\ pc'[l.by] # "release")
  <2>1. CASE l.by = r
    BY <1>6, <2>1 DEF releaseClaim, Leave, Goto, LoopOK
  <2>2. CASE l.by # r
    <3>1. Released(task[r], r) \in SUBSET locks /\ l \in Released(task[r], r)
      BY <2>2 DEF Released
    <3> QED
      BY <1>2, <1>3, <1>6, <3>1 DEF releaseClaim
  <2> QED
    BY <2>1, <2>2
<1>7. ASSUME NEW r \in Runners, NEW t \in Tasks, releaseFinished(r, t)
      PROVE  Kept \/ (handler[l.by][l.task] = "release" /\ handler'[l.by][l.task] = "ended")
  <2>1. CASE l.by = r /\ l.task = t
    BY <1>7, <2>1 DEF releaseFinished, HandlerGoto, RestOK
  <2>2. CASE ~(l.by = r /\ l.task = t)
    BY <1>7, <2>2 DEF releaseFinished, Released
  <2> QED
    BY <2>1, <2>2
<1>8. ASSUME NEW r \in Runners,
             \/ ExpireStaleSystemTaskLocks(r) \/ skipSweep(r) \/ markStale(r)
             \/ runSystemTaskScheduler(r) \/ createScheduled(r) \/ findPending(r)
             \/ readExisting(r) \/ markClaimed(r) \/ takeTask(r) \/ crash(r)
      PROVE  Kept
  BY <1>1, <1>2, <1>8
     DEF ExpireStaleSystemTaskLocks, skipSweep, markStale, runSystemTaskScheduler, createScheduled,
         CreateSystemTask, InsertTask, findPending, readExisting, markClaimed, takeTask, crash, tables
<1>9. ASSUME NEW r \in Runners, NEW t \in Tasks,
             FinishSystemTask(r, t) \/ cancelHandler(r, t) \/ abandon(r, t)
      PROVE  Kept
  BY <1>1, <1>9 DEF FinishSystemTask, cancelHandler, abandon, tables
<1>10. ASSUME NEW c \in Clients, EnqueueSystemTask(c) \/ createEnqueued(c)
       PROVE  Kept
  BY <1>1, <1>10 DEF EnqueueSystemTask, createEnqueued, CreateSystemTask, InsertTask, tables
<1>11. CASE lapse
  <2>1. PICK m \in locks : locks' = (locks \ {m}) \union {[m EXCEPT !.expired = TRUE]}
    BY <1>11 DEF lapse
  <2>2. m = l /\ l \in Rows
    BY DEF GoodRows
  <2> QED
    BY <2>1, <2>2, RowExpires
<1>12. CASE UNCHANGED vars
  BY <1>1, <1>12 DEF vars
<1> QED
  BY <1>4, <1>5, <1>6, <1>7, <1>8, <1>9, <1>10, <1>11, <1>12 DEF Next, LoopStep, HandlerStep

(* No sweep and no claim takes a lease away before it has expired, however  *)
(* old the `now` is that it compares with.                                  *)
THEOREM LeasesNotStolen == Spec => LeaseNotStolen
<1>1. Inv /\ [Next]_vars =>
        [\A l \in locks : ~l.expired =>
            \/ \E k \in locks' : k.task = l.task /\ k.by = l.by
            \/ pc[l.by] = "release" /\ pc'[l.by] # "release"
            \/ handler[l.by][l.task] = "release" /\ handler'[l.by][l.task] = "ended"]_vars
  BY NextLease DEF Inv
<1> QED
  BY RunnersKeepInv, <1>1, PTL DEF Spec, LeaseNotStolen
-----------------------------------------------------------------------------
(***************************************************************************)
(* Recovery.  A running task always has the lock row that a sweep finds.   *)
(* This needs claims that take less than the lease, and either no rows of  *)
(* an earlier version or no crash and no error in the takeover of a lease. *)
(***************************************************************************)
Recovers == PromptClaims /\ (Legacy = {} \/ (MaxCrashes = 0 /\ MaxFaults = 0))

(* A runner that writes its claim has the lock row, under a lease that has *)
(* not expired; the task it claims is not running, and still pending while *)
(* the runner fails the task of the lease that it took over.               *)
ClaimOf(r) ==
    pc[r] \in {"markExpired", "take", "release"} =>
        /\ task[r] \in Tasks /\ NewRow(r) \in locks
        /\ status[task[r]] # "running"
        /\ pc[r] = "markExpired" => status[task[r]] = "pending"

(* A row that is over for runner r is the one that r met when it read its  *)
(* `now`: nobody has claimed the task of r since, the row is the one that r *)
(* read, and after the mark of a sweep its task is not running.             *)
ClockOf(r) ==
    \A l \in locks : r \in l.before =>
        /\ pc[r] \in {"mark", "delete", "acquire", "existing", "cas"}
        /\ pc[r] \in {"acquire", "existing", "cas"} => status[task[r]] = "pending"
        /\ pc[r] = "cas" => seen[r].task = l.task
        /\ pc[r] = "delete" /\ seen[r].task = l.task => status[l.task] # "running"

(* A runner claims no task that it has dispatched, and gives a lease back  *)
(* after the end of its task.                                              *)
DispatchOf(r) ==
    \A t \in Tasks : handler[r][t] # "none" =>
        /\ status[t] \in {"running"} \union Terminal
        /\ task[r] # t
        /\ handler[r][t] = "release" => status[t] \in Terminal

Runner(r) == ClaimOf(r) /\ ClockOf(r) /\ DispatchOf(r)
Safe == (\A r \in Runners : Runner(r)) /\ RunningRecoverable

(* No task begins to run, and no pending task is touched. *)
NoTake ==
    \A t \in Tasks :
        /\ status'[t] = "running" => status[t] = "running"
        /\ status[t] = "pending" => status'[t] = "pending"
        /\ status[t] \in {"running"} \union Terminal => status'[t] \in {"running"} \union Terminal
        /\ status[t] \in Terminal => status'[t] \in Terminal

(* The statements on the task table other than the one of takeTask. *)
LEMMA StatusMoves ==
    ASSUME TasksOK,
           \/ UNCHANGED status
           \/ \E t : MarkSystemTaskLeaseExpired(t)
           \/ CreateSystemTask
           \/ \E t \in Tasks, s \in Terminal : status[t] = "running" /\ status' = [status EXCEPT ![t] = s]
    PROVE  NoTake
<1>1. CASE UNCHANGED status
  BY <1>1 DEF NoTake
<1>2. CASE \E t : MarkSystemTaskLeaseExpired(t)
  BY <1>2 DEF MarkSystemTaskLeaseExpired, NoTake, TasksOK, Terminal
<1>3. CASE CreateSystemTask
  BY <1>3 DEF CreateSystemTask, InsertTask, Created, tables, NoTake, TasksOK, Terminal
<1>4. CASE \E t \in Tasks, s \in Terminal : status[t] = "running" /\ status' = [status EXCEPT ![t] = s]
  BY <1>4 DEF NoTake, TasksOK, Terminal
<1> QED
  BY <1>1, <1>2, <1>3, <1>4

(* A failed lease is over: its task is not running after the mark. *)
LEMMA MarkEnds ==
    ASSUME TasksOK, NEW t \in Tasks, MarkSystemTaskLeaseExpired(t)
    PROVE  status'[t] # "running"
BY DEF MarkSystemTaskLeaseExpired, TasksOK

(* Reading `now` touches expired rows only, and adds the reader to them. *)
LEMMA StampRows ==
    ASSUME NEW r \in Runners, NEW L, GoodRows(L)
    PROVE  /\ \A l \in L : \E k \in Stamp(r, L) : k.task = l.task
           /\ \A l \in L : ~l.expired => l \in Stamp(r, L)
           /\ \A k \in Stamp(r, L) : \E l \in L : k.task = l.task /\ k.before \subseteq l.before \union {r}
<1> DEFINE F(l) == IF l.expired THEN [l EXCEPT !.before = @ \union {r}] ELSE l
<1>1. ASSUME NEW l \in L
      PROVE  /\ F(l).task = l.task
             /\ ~l.expired => F(l) = l
             /\ F(l).before \subseteq l.before \union {r}
  BY DEF GoodRows, Rows
<1>2. Stamp(r, L) = {F(l) : l \in L}
  BY DEF Stamp
<1> HIDE DEF F
<1> QED
  BY <1>1, <1>2

(* Dropping `now` takes the reader off, and leaves a lease that holds alone. *)
LEMMA ForgetRows ==
    ASSUME NEW r \in Runners, NEW L, GoodRows(L)
    PROVE  /\ \A l \in L : \E k \in Forget(r, L) : k.task = l.task
           /\ \A l \in L : ~l.expired => l \in Forget(r, L)
           /\ \A k \in Forget(r, L) : \E l \in L : k.task = l.task /\ k.before = l.before \ {r}
<1> DEFINE F(l) == [l EXCEPT !.before = @ \ {r}]
<1>1. ASSUME NEW l \in L
      PROVE  /\ F(l).task = l.task
             /\ ~l.expired => F(l) = l
             /\ F(l).before = l.before \ {r}
  <2>1. l \in Rows /\ (~l.expired => l.before = {})
    BY DEF GoodRows
  <2>2. F(l).task = l.task /\ F(l).before = l.before \ {r}
    BY <2>1 DEF Rows
  <2>3. ASSUME ~l.expired PROVE F(l) = l
    <3>1. l.before \ {r} = l.before
      BY <2>1, <2>3
    <3> QED
      BY <2>1, <3>1 DEF Rows
  <2> QED
    BY <2>2, <2>3
<1>2. Forget(r, L) = {F(l) : l \in L}
  BY DEF Forget
<1> HIDE DEF F
<1> QED
  BY <1>1, <1>2

(* Two runners never write their claims at the same time. *)
LEMMA OneClaim ==
    ASSUME Inv, Safe, NEW q \in Runners, NEW r \in Runners,
           pc[q] \in {"markExpired", "take", "release"}, pc[r] \in {"markExpired", "take", "release"}
    PROVE  q = r
<1>1. NewRow(q) \in locks /\ NewRow(r) \in locks
  BY DEF Safe, Runner, ClaimOf
<1>2. NewRow(q) = NewRow(r)
  BY <1>1 DEF Inv, GoodRows
<1> QED
  BY <1>2 DEF NewRow

(* While a runner writes its claim the lock table is its row, whose lease  *)
(* is over for nobody.                                                     *)
LEMMA ClaimRow ==
    ASSUME Inv, Safe, NEW r \in Runners, pc[r] \in {"markExpired", "take", "release"}
    PROVE  /\ locks = {NewRow(r)} /\ NewRow(r).before = {} /\ ~NewRow(r).expired
           /\ NewRow(r).task = task[r] /\ task[r] \in Tasks
           /\ status[task[r]] # "running"
<1>1. NewRow(r) \in locks /\ task[r] \in Tasks /\ status[task[r]] # "running"
  BY DEF Safe, Runner, ClaimOf
<1> QED
  BY <1>1 DEF Inv, GoodRows, NewRow

(* A runner that a step leaves alone keeps its part of the invariant. *)
LEMMA RunnerKept ==
    ASSUME Inv, Safe, NEW q \in Runners, NoTake,
           pc'[q] = pc[q], task'[q] = task[q], seen'[q] = seen[q], handler'[q] = handler[q],
           \A l \in locks : l = NewRow(q) /\ pc[q] \in {"markExpired", "take", "release"} => l \in locks',
           locks' \subseteq Rows,
           \A k \in locks' : q \in k.before => \E l \in locks : k.task = l.task /\ q \in l.before
    PROVE  Runner(q)'
<1>1. ClaimOf(q) /\ ClockOf(q) /\ DispatchOf(q)
  BY DEF Safe, Runner
<1>2. (NewRow(q))' = NewRow(q)
  BY DEF NewRow
<1>3. ClaimOf(q)'
  BY <1>1, <1>2 DEF ClaimOf, NoTake
<1>4. ClockOf(q)'
  <2>1. pc[q] \in {"acquire", "existing", "cas"} => task[q] \in Tasks
    BY DEF Inv, LoopOK
  <2>2. \A l \in locks' : l.task \in Tasks
    BY DEF Rows
  <2> QED
    BY <1>1, <2>1, <2>2 DEF ClockOf, NoTake
<1>5. DispatchOf(q)'
  BY <1>1 DEF DispatchOf, NoTake
<1> QED
  BY <1>3, <1>4, <1>5 DEF Runner

(* What the locks of a step of r look like to the other runners. *)
LocksOf(r) ==
    /\ locks' \subseteq Rows
    /\ \A l \in locks : ~l.expired /\ l.by # r => l \in locks'
    /\ \A k \in locks', q \in Runners : q # r /\ q \in k.before => \E l \in locks : k.task = l.task /\ q \in l.before

(* Stamping, forgetting, and deleting rows of r or expired ones. *)
LEMMA LocksMove ==
    ASSUME Inv, NEW r \in Runners, GoodRows(locks'),
           \/ UNCHANGED locks
           \/ locks' = Stamp(r, locks)
           \/ \E K \in SUBSET locks : /\ locks' = Forget(r, K)
                                      /\ \A l \in locks : ~l.expired /\ l.by # r => l \in K
    PROVE  LocksOf(r)
<1>1. GoodRows(locks) /\ locks' \subseteq Rows
  BY DEF Inv, GoodRows
<1>2. CASE UNCHANGED locks
  BY <1>1, <1>2 DEF LocksOf
<1>3. CASE locks' = Stamp(r, locks)
  <2>1. \A l \in locks : ~l.expired => l \in locks'
    BY <1>1, <1>3, StampRows
  <2>2. \A k \in locks' : \E l \in locks : k.task = l.task /\ k.before \subseteq l.before \union {r}
    BY <1>1, <1>3, StampRows
  <2> QED
    BY <1>1, <2>1, <2>2 DEF LocksOf
<1>4. ASSUME NEW K \in SUBSET locks, locks' = Forget(r, K), \A l \in locks : ~l.expired /\ l.by # r => l \in K
      PROVE  LocksOf(r)
  <2>1. GoodRows(K)
    BY <1>1, SubsetGood
  <2>2. \A l \in K : ~l.expired => l \in locks'
    BY <1>4, <2>1, ForgetRows
  <2>3. \A k \in locks' : \E l \in K : k.task = l.task /\ k.before = l.before \ {r}
    BY <1>4, <2>1, ForgetRows
  <2> QED
    BY <1>1, <1>4, <2>2, <2>3 DEF LocksOf
<1> QED
  BY <1>2, <1>3, <1>4

(* A step of the loop of r leaves the other runners alone. *)
LEMMA OthersKept ==
    ASSUME Inv, Safe, NEW r \in Runners, NoTake, LocksOf(r), UNCHANGED handler,
           NEW w, Goto(r, w),
           UNCHANGED task \/ (\E x : task' = [task EXCEPT ![r] = x]),
           UNCHANGED seen \/ (\E x : seen' = [seen EXCEPT ![r] = x])
    PROVE  \A q \in Runners \ {r} : Runner(q)'
<1> SUFFICES ASSUME NEW q \in Runners, q # r
             PROVE  Runner(q)'
  OBVIOUS
<1>1. pc'[q] = pc[q] /\ task'[q] = task[q] /\ seen'[q] = seen[q] /\ handler'[q] = handler[q]
  BY DEF Inv, LoopOK, Goto
<1>2. NewRow(q).by = q /\ ~NewRow(q).expired
  BY DEF NewRow
<1>3. \A l \in locks : l = NewRow(q) => l \in locks'
  BY <1>2 DEF LocksOf
<1>4. /\ locks' \subseteq Rows
      /\ \A k \in locks' : q \in k.before => \E l \in locks : k.task = l.task /\ q \in l.before
  BY DEF LocksOf
<1> QED
  BY <1>1, <1>3, <1>4, RunnerKept

(* Where r goes on without a `now` and without a claim, it is safe. *)
LEMMA IdleRunner ==
    ASSUME Inv, Safe, NEW r \in Runners, NoTake, UNCHANGED handler,
           NEW w \in {"idle", "schedule", "create", "find", "crashed"}, Goto(r, w),
           UNCHANGED task \/ task' = [task EXCEPT ![r] = 0],
           \A k \in locks' : r \notin k.before
    PROVE  Runner(r)'
<1>1. pc'[r] = w /\ task'[r] \in {task[r], 0}
  BY DEF Inv, LoopOK, Goto
<1>2. ClaimOf(r)'
  BY <1>1 DEF ClaimOf
<1>3. ClockOf(r)'
  BY DEF ClockOf
<1>4. DispatchOf(r)'
  <2>1. DispatchOf(r)
    BY DEF Safe, Runner
  <2>2. 0 \notin Tasks
    BY BoundsAssumption DEF Tasks
  <2> QED
    BY <1>1, <2>1, <2>2 DEF DispatchOf, NoTake
<1> QED
  BY <1>2, <1>3, <1>4 DEF Runner

(* Running tasks stay recoverable when their rows stay, and the runner that *)
(* is about to fail a task goes on to do so.                                *)
LEMMA RowsRecover ==
    ASSUME Inv, Safe, NEW r \in Runners, NoTake, NEW w, Goto(r, w), pc[r] # "markExpired",
           UNCHANGED seen \/ (\E x : seen' = [seen EXCEPT ![r] = x]),
           \A l \in locks : status'[l.task] = "running" => \E k \in locks' : k.task = l.task
    PROVE  RunningRecoverable'
<1> SUFFICES ASSUME NEW t \in Tasks, status'[t] = "running"
             PROVE  \/ \E l \in locks' : l.task = t
                    \/ \E q \in Runners : pc'[q] = "markExpired" /\ seen'[q].task = t
  BY DEF RunningRecoverable
<1>1. status[t] = "running"
  BY DEF NoTake
<1>2. CASE \E l \in locks : l.task = t
  BY <1>2
<1>3. ASSUME NEW q \in Runners, pc[q] = "markExpired", seen[q].task = t
      PROVE  pc'[q] = "markExpired" /\ seen'[q].task = t
  BY <1>3 DEF Inv, LoopOK, Goto
<1> QED
  BY <1>1, <1>2, <1>3 DEF Safe, RunningRecoverable

(* A loop that reads no `now`: the throttled sweep, the scheduler, creation. *)
LEMMA PlainSafe ==
    ASSUME Inv, Safe, NEW r \in Runners, Inv',
           \/ skipSweep(r) \/ runSystemTaskScheduler(r) \/ createScheduled(r)
           \/ ExpireStaleSystemTaskLocks(r) /\ Goto(r, "schedule") /\ UNCHANGED <<locks, seen>>
           \/ findPending(r) /\ Goto(r, "idle") /\ UNCHANGED <<locks, task>>
    PROVE  Safe'
<1>1. NoTake
  <2>1. UNCHANGED status \/ CreateSystemTask
    BY DEF skipSweep, runSystemTaskScheduler, createScheduled, ExpireStaleSystemTaskLocks, findPending, tables
  <2> QED
    BY <2>1, StatusMoves DEF Inv
<1>2. PICK w \in {"idle", "schedule", "create", "find"} : Goto(r, w)
  BY DEF skipSweep, runSystemTaskScheduler, createScheduled, Goto
<1>3. UNCHANGED <<handler, locks, task, seen>> /\ pc[r] \in {"idle", "schedule", "create", "find"}
  BY DEF skipSweep, runSystemTaskScheduler, createScheduled, ExpireStaleSystemTaskLocks, findPending,
         CreateSystemTask, InsertTask, tables, others
<1>4. LocksOf(r)
  BY <1>3, LocksMove DEF Inv
<1>5. \A k \in locks' : r \notin k.before
  BY <1>3 DEF Safe, Runner, ClockOf
<1>6. \A q \in Runners \ {r} : Runner(q)'
  BY <1>1, <1>2, <1>3, <1>4, OthersKept
<1>7. Runner(r)'
  BY <1>1, <1>2, <1>3, <1>5, IdleRunner
<1>8. RunningRecoverable'
  BY <1>1, <1>2, <1>3, RowsRecover
<1> QED
  BY <1>6, <1>7, <1>8 DEF Safe

(* A runner reads `now` and holds a row, or a pending task. *)
LEMMA StampSafe ==
    ASSUME Inv, Safe, NEW r \in Runners, Inv',
           \/ ExpireStaleSystemTaskLocks(r) /\ Goto(r, "mark")
           \/ findPending(r) /\ Goto(r, "acquire")
    PROVE  Safe'
<1>1. UNCHANGED <<status, handler>> /\ pc[r] \in {"idle", "find"} /\ pc'[r] \in {"mark", "acquire"}
  BY DEF ExpireStaleSystemTaskLocks, findPending, others, Goto, Inv, LoopOK
<1>2. NoTake
  BY <1>1, StatusMoves DEF Inv
<1>3. locks' = Stamp(r, locks)
  BY <1>1 DEF ExpireStaleSystemTaskLocks, findPending, Goto, Inv, LoopOK
<1>4. /\ UNCHANGED task \/ (\E x : task' = [task EXCEPT ![r] = x])
      /\ UNCHANGED seen \/ (\E x : seen' = [seen EXCEPT ![r] = x])
  BY DEF ExpireStaleSystemTaskLocks, findPending
<1>5. PICK w : Goto(r, w)
  OBVIOUS
<1>6. \A q \in Runners \ {r} : Runner(q)'
  BY <1>1, <1>2, <1>3, <1>4, <1>5, LocksMove, OthersKept DEF Inv
<1>7. Runner(r)'
  <2>1. ClaimOf(r)'
    BY <1>1 DEF ClaimOf
  <2>2. pc'[r] = "acquire" => status[task'[r]] = "pending" /\ task'[r] \in Tasks
    BY <1>1 DEF ExpireStaleSystemTaskLocks, findPending, Pending, Goto, Inv, LoopOK
  <2>3. ClockOf(r)'
    BY <1>1, <2>2 DEF ClockOf
  <2>4. pc'[r] # "acquire" => task'[r] = task[r]
    BY <1>1 DEF ExpireStaleSystemTaskLocks, findPending, Goto, Inv, LoopOK
  <2>5. DispatchOf(r)'
    BY <1>1, <2>2, <2>4 DEF Safe, Runner, DispatchOf, Terminal
  <2> QED
    BY <2>1, <2>3, <2>5 DEF Runner
<1>8. RunningRecoverable'
  <2>1. \A l \in locks : \E k \in locks' : k.task = l.task
    BY <1>3, StampRows DEF Inv
  <2> QED
    BY <1>1, <1>2, <1>4, <1>5, <2>1, RowsRecover
<1> QED
  BY <1>6, <1>7, <1>8 DEF Safe

(* A runner gives its `now` up, with every row or without rows that are    *)
(* expired or its own and whose task is not running.                       *)
LEMMA LeaveSafe ==
    ASSUME Inv, Safe, NEW r \in Runners, Inv', NEW w \in {"idle", "schedule", "crashed"}, Leave(r, w),
           NoTake, UNCHANGED handler, pc[r] # "markExpired",
           NEW K \in SUBSET locks, locks' = Forget(r, K),
           \A l \in locks : l \in K \/ ((l.expired \/ l.by = r) /\ status[l.task] # "running")
    PROVE  Safe'
<1>1. LocksOf(r)
  BY LocksMove DEF Inv
<1>2. GoodRows(K)
  BY SubsetGood DEF Inv
<1>3. /\ \A l \in K : \E k \in locks' : k.task = l.task
      /\ \A k \in locks' : r \notin k.before
  BY <1>2, ForgetRows
<1>4. \A q \in Runners \ {r} : Runner(q)'
  BY <1>1, OthersKept DEF Leave
<1>5. Runner(r)'
  BY <1>3, IdleRunner DEF Leave
<1>6. \A l \in locks : status'[l.task] = "running" => \E k \in locks' : k.task = l.task
  <2>1. \A l \in locks : l.task \in Tasks
    BY DEF Inv, GoodRows, Rows
  <2> QED
    BY <1>3, <2>1 DEF NoTake
<1>7. RunningRecoverable'
  BY <1>6, RowsRecover DEF Leave
<1> QED
  BY <1>4, <1>5, <1>7 DEF Safe

(* The sweep fails the task of the row that it read. *)
LEMMA markStaleSafe ==
    ASSUME Inv, Safe, NEW r \in Runners, Inv', markStale(r)
    PROVE  Safe'
<1>1. NoTake
  <2>1. UNCHANGED status \/ MarkSystemTaskLeaseExpired(seen[r].task)
    BY DEF markStale
  <2> QED
    BY <2>1, StatusMoves DEF Inv
<1>2. UNCHANGED handler /\ pc[r] = "mark"
  BY DEF markStale, others
<1>3. CASE Leave(r, "schedule") /\ locks' = Forget(r, locks)
  BY <1>1, <1>2, <1>3, LeaveSafe
<1>4. CASE /\ MarkSystemTaskLeaseExpired(seen[r].task) /\ Goto(r, "delete")
           /\ UNCHANGED <<locks, task, seen>>
  <2>1. \A q \in Runners \ {r} : Runner(q)'
    BY <1>1, <1>2, <1>4, LocksMove, OthersKept DEF Inv
  <2>2. pc'[r] = "delete"
    BY <1>4 DEF Goto, Inv, LoopOK
  <2>3. \A l \in locks : seen[r].task = l.task => status'[l.task] # "running"
    <3>1. \A l \in locks : l.task \in Tasks
      BY DEF Inv, GoodRows, Rows
    <3> QED
      BY <1>4, <3>1, MarkEnds DEF Inv
  <2>4. ClaimOf(r)' /\ ClockOf(r)'
    BY <1>4, <2>2, <2>3 DEF ClaimOf, ClockOf
  <2>5. DispatchOf(r)'
    BY <1>1, <1>2, <1>4 DEF Safe, Runner, DispatchOf, NoTake
  <2>6. RunningRecoverable'
    BY <1>1, <1>2, <1>4, RowsRecover
  <2> QED
    BY <2>1, <2>4, <2>5, <2>6 DEF Safe, Runner
<1> QED
  BY <1>3, <1>4 DEF markStale

(* The sweep deletes the row it read, if it is still over for the sweep. *)
LEMMA deleteStaleSafe ==
    ASSUME Inv, Safe, NEW r \in Runners, Inv', deleteStale(r)
    PROVE  Safe'
<1>1. NoTake /\ UNCHANGED handler /\ pc[r] = "delete" /\ Leave(r, "schedule")
  BY StatusMoves DEF deleteStale, others, Inv
<1> DEFINE K == {l \in locks : ~(l.task = seen[r].task /\ l.by = seen[r].by /\ Over(l, r))}
<1>2. \A l \in locks : l \in K \/ (l.expired /\ status[l.task] # "running")
  BY <1>1 DEF Safe, Runner, ClockOf, Over, Inv, GoodRows
<1>3. K \in SUBSET locks
  OBVIOUS
<1>4. locks' = Forget(r, K) \/ locks' = Forget(r, locks)
  BY DEF deleteStale
<1> QED
  BY <1>1, <1>2, <1>3, <1>4, LeaveSafe

(* The row is read and not over, or the takeover fails, or the claim is    *)
(* given back: the loop goes on.                                           *)
LEMMA GiveUpSafe ==
    ASSUME Inv, Safe, NEW r \in Runners, Inv',
           \/ (readExisting(r) \/ casLock(r)) /\ Leave(r, "idle") /\ locks' = Forget(r, locks)
           \/ releaseClaim(r)
    PROVE  Safe'
<1>1. NoTake /\ UNCHANGED handler /\ pc[r] \in {"existing", "cas", "release"} /\ Leave(r, "idle")
  BY StatusMoves DEF readExisting, casLock, releaseClaim, others, Inv
<1>2. CASE locks' = Forget(r, locks)
  BY <1>1, <1>2, LeaveSafe
<1>3. CASE releaseClaim(r) /\ locks' = Forget(r, Released(task[r], r))
  <2>1. pc[r] = "release"
    BY <1>3 DEF releaseClaim
  <2>2. status[task[r]] # "running"
    BY <2>1, ClaimRow
  <2>3. /\ Released(task[r], r) \in SUBSET locks
        /\ \A l \in locks : l \in Released(task[r], r) \/ (l.by = r /\ status[l.task] # "running")
    BY <2>2 DEF Released
  <2> QED
    BY <1>1, <1>3, <2>3, LeaveSafe
<1> QED
  BY <1>2, <1>3 DEF readExisting, casLock, releaseClaim

(* Nothing runs while the lock table is empty. *)
LEMMA EmptyTable ==
    ASSUME Inv, Safe, locks = {}, NEW t \in Tasks
    PROVE  status[t] # "running"
<1>1. \A q \in Runners : pc[q] # "markExpired"
  BY DEF Safe, Runner, ClaimOf
<1> QED
  BY <1>1 DEF Safe, RunningRecoverable

(* The claim inserts its row, or goes on to the row there is. *)
LEMMA acquireSafe ==
    ASSUME Inv, Safe, NEW r \in Runners, Inv', acquireSystemTaskLock(r)
    PROVE  Safe'
<1>1. NoTake /\ UNCHANGED <<handler, status, task, seen>> /\ pc[r] = "acquire" /\ task[r] \in Tasks
  BY StatusMoves DEF acquireSystemTaskLock, others, Inv, LoopOK
<1>2. DispatchOf(r)'
  BY <1>1 DEF Safe, Runner, DispatchOf
<1>3. CASE locks = {} /\ locks' = {NewRow(r)} /\ Goto(r, "take")
  <2>1. LocksOf(r)
    BY <1>3 DEF LocksOf, NewRow, Inv, GoodRows
  <2>2. \A q \in Runners \ {r} : Runner(q)'
    BY <1>1, <1>3, <2>1, OthersKept
  <2>3. pc'[r] = "take" /\ (NewRow(r))' = NewRow(r) /\ NewRow(r).before = {}
    BY <1>1, <1>3 DEF Goto, Inv, LoopOK, NewRow
  <2>4. ClaimOf(r)' /\ ClockOf(r)'
    BY <1>1, <1>3, <2>3, EmptyTable DEF ClaimOf, ClockOf
  <2>5. RunningRecoverable'
    BY <1>1, <1>3, RowsRecover
  <2> QED
    BY <1>2, <2>2, <2>4, <2>5 DEF Safe, Runner
<1>4. CASE Goto(r, "existing") /\ UNCHANGED locks
  <2>1. \A q \in Runners \ {r} : Runner(q)'
    BY <1>1, <1>4, LocksMove, OthersKept DEF Inv
  <2>2. pc'[r] = "existing"
    BY <1>4 DEF Goto, Inv, LoopOK
  <2>3. ClaimOf(r)' /\ ClockOf(r)'
    BY <1>1, <1>4, <2>2 DEF Safe, Runner, ClaimOf, ClockOf
  <2>4. RunningRecoverable'
    BY <1>1, <1>4, RowsRecover
  <2> QED
    BY <1>2, <2>1, <2>3, <2>4 DEF Safe, Runner
<1> QED
  BY <1>3, <1>4 DEF acquireSystemTaskLock, LockFree

(* The claim reads a row that is over for it. *)
LEMMA readExistingSafe ==
    ASSUME Inv, Safe, NEW r \in Runners, Inv', readExisting(r)
    PROVE  Safe'
<1>1. NoTake /\ UNCHANGED <<handler, status>> /\ pc[r] = "existing"
  BY StatusMoves DEF readExisting, others, Inv
<1>2. CASE /\ \E l \in locks : seen' = [seen EXCEPT ![r] = [task |-> l.task, by |-> l.by]]
           /\ Goto(r, "cas") /\ UNCHANGED <<locks, task>>
  <2>1. \A q \in Runners \ {r} : Runner(q)'
    BY <1>1, <1>2, LocksMove, OthersKept DEF Inv
  <2>2. pc'[r] = "cas" /\ \A l \in locks : seen'[r].task = l.task
    BY <1>2 DEF Goto, Inv, LoopOK, GoodRows
  <2>3. ClaimOf(r)' /\ ClockOf(r)' /\ DispatchOf(r)'
    BY <1>1, <1>2, <2>2 DEF Safe, Runner, ClaimOf, ClockOf, DispatchOf
  <2>4. RunningRecoverable'
    BY <1>1, <1>2, RowsRecover
  <2> QED
    BY <2>1, <2>3, <2>4 DEF Safe, Runner
<1> QED
  BY <1>2, GiveUpSafe DEF readExisting

(* The claim takes an expired lease over: the task it claims is pending,   *)
(* and the task of that lease is the one it fails next.                    *)
LEMMA casLockSafe ==
    ASSUME Inv, Safe, NEW r \in Runners, Inv', casLock(r)
    PROVE  Safe'
<1>1. /\ NoTake /\ UNCHANGED <<handler, status>> /\ pc[r] = "cas" /\ task[r] \in Tasks
  BY StatusMoves DEF casLock, others, Inv, LoopOK
<1>2. ASSUME NEW l \in locks, Over(l, r),
             locks' = {IF Over(k, r) THEN NewRow(r) ELSE k : k \in locks},
             Goto(r, IF seen[r].task = task[r] THEN "take" ELSE "markExpired"), UNCHANGED <<task, seen>>
      PROVE  Safe'
  <2>1. locks = {l} /\ locks' = {NewRow(r)} /\ l.expired /\ l.task \in Tasks
    BY <1>2 DEF Inv, GoodRows, Over, Rows
  <2>2. status[task[r]] = "pending" /\ seen[r].task = l.task
    BY <1>1, <1>2 DEF Safe, Runner, ClockOf, Over
  <2>3. /\ (NewRow(r))' = NewRow(r) /\ NewRow(r).before = {} /\ NewRow(r).task = task[r]
        /\ pc'[r] = (IF seen[r].task = task[r] THEN "take" ELSE "markExpired")
    BY <1>2 DEF Goto, Inv, LoopOK, NewRow
  <2>4. LocksOf(r)
    BY <2>1, <2>3 DEF LocksOf, Inv, GoodRows
  <2>5. \A q \in Runners \ {r} : Runner(q)'
    BY <1>1, <1>2, <2>4, OthersKept
  <2>6. ClaimOf(r)' /\ ClockOf(r)' /\ DispatchOf(r)'
    BY <1>1, <1>2, <2>1, <2>2, <2>3 DEF Safe, Runner, ClaimOf, ClockOf, DispatchOf
  <2>7. RunningRecoverable'
    <3> SUFFICES ASSUME NEW t \in Tasks, status[t] = "running"
                 PROVE  pc'[r] = "markExpired" /\ seen'[r].task = t
      BY <1>1 DEF RunningRecoverable
    <3>1. \A q \in Runners : pc[q] # "markExpired"
      BY <1>2, <2>1, ClaimRow DEF Over
    <3>2. l.task = t
      BY <2>1, <3>1 DEF Safe, RunningRecoverable
    <3> QED
      BY <1>2, <2>2, <2>3, <3>2
  <2> QED
    BY <2>5, <2>6, <2>7 DEF Safe, Runner
<1> QED
  BY <1>2, GiveUpSafe DEF casLock

(* The task of a lease that was taken over needs its mark only when rows of *)
(* an earlier version are about: otherwise one task is active at a time.    *)
LEMMA OneIsActive ==
    ASSUME Inv, Safe, Legacy = {}, NEW r \in Runners, pc[r] = "markExpired", NEW t \in Tasks
    PROVE  status[t] # "running"
<1>1. status[task[r]] = "pending" /\ task[r] \in Tasks
  BY DEF Safe, Runner, ClaimOf
<1> QED
  BY <1>1 DEF Inv, TasksOK, OneActive, Active

(* The claim fails the task of the lease it took over. *)
LEMMA markClaimedSafe ==
    ASSUME Recovers, Inv, Safe, NEW r \in Runners, Inv', markClaimed(r)
    PROVE  Safe'
<1>1. /\ UNCHANGED <<handler, locks, task, seen>> /\ pc[r] = "markExpired"
      /\ UNCHANGED status \/ MarkSystemTaskLeaseExpired(seen[r].task)
  BY DEF markClaimed, others
<1>2. NoTake
  BY <1>1, StatusMoves DEF Inv
<1>3. PICK w \in {"take", "release"} : Goto(r, w)
  BY DEF markClaimed
<1>4. \A q \in Runners \ {r} : Runner(q)'
  BY <1>1, <1>2, <1>3, LocksMove, OthersKept DEF Inv
<1>5. pc'[r] = w /\ (NewRow(r))' = NewRow(r)
  BY <1>1, <1>3 DEF Goto, Inv, LoopOK, NewRow
<1>6. ClaimOf(r)'
  BY <1>1, <1>2, <1>5 DEF Safe, Runner, ClaimOf, NoTake
<1>7. ClockOf(r)'
  BY <1>1, ClaimRow DEF ClockOf
<1>8. DispatchOf(r)'
  BY <1>1, <1>2 DEF Safe, Runner, DispatchOf, NoTake
<1>9. RunningRecoverable'
  <2> SUFFICES ASSUME NEW t \in Tasks, status'[t] = "running"
               PROVE  \E l \in locks : l.task = t
    BY <1>1 DEF RunningRecoverable
  <2>1. status[t] = "running"
    BY <1>2 DEF NoTake
  <2>2. seen[r].task # t
    <3>1. CASE MarkSystemTaskLeaseExpired(seen[r].task)
      BY <3>1, MarkEnds DEF Inv
    <3>2. CASE Fault
      <4>1. MaxFaults # 0
        BY <3>2, BoundsAssumption DEF Fault, Inv, RestOK
      <4> QED
        BY <1>1, <2>1, <4>1, OneIsActive DEF Recovers
    <3> QED
      BY <3>1, <3>2 DEF markClaimed
  <2>3. \A q \in Runners : pc[q] = "markExpired" => q = r
    BY <1>1, OneClaim
  <2> QED
    BY <2>1, <2>2, <2>3 DEF Safe, RunningRecoverable
<1> QED
  BY <1>4, <1>6, <1>7, <1>8, <1>9 DEF Safe, Runner

(* The claim is written: the task runs under the row of its runner. *)
LEMMA takeTaskSafe ==
    ASSUME Inv, Safe, NEW r \in Runners, Inv', takeTask(r)
    PROVE  Safe'
<1>1. /\ pc[r] = "take" /\ locks = {NewRow(r)} /\ NewRow(r).before = {} /\ ~NewRow(r).expired
      /\ NewRow(r).task = task[r] /\ task[r] \in Tasks /\ status[task[r]] # "running"
  BY ClaimRow DEF takeTask
<1>2. \A q \in Runners \ {r} : pc[q] \notin {"markExpired", "take", "release"}
  BY <1>1, OneClaim
<1>3. CASE /\ Goto(r, "release") /\ UNCHANGED <<status, locks, task, seen, handler>>
  <2>1. NoTake
    BY <1>3, StatusMoves DEF Inv
  <2>2. \A q \in Runners \ {r} : Runner(q)'
    BY <1>3, <2>1, LocksMove, OthersKept DEF Inv
  <2>3. pc'[r] = "release" /\ (NewRow(r))' = NewRow(r)
    BY <1>3 DEF Goto, Inv, LoopOK, NewRow
  <2>4. ClaimOf(r)' /\ ClockOf(r)' /\ DispatchOf(r)'
    BY <1>1, <1>3, <2>3 DEF Safe, Runner, ClaimOf, ClockOf, DispatchOf
  <2>5. RunningRecoverable'
    BY <1>1, <1>3, <2>1, RowsRecover
  <2> QED
    BY <2>2, <2>4, <2>5 DEF Safe, Runner
<1>4. CASE /\ status[task[r]] = "pending" /\ status' = [status EXCEPT ![task[r]] = "running"]
           /\ Leave(r, "idle") /\ locks' = Forget(r, locks)
           /\ UNCHANGED handler \/ handler' = [handler EXCEPT ![r][task[r]] = "run"]
  <2>1. NewRow(r) \in locks' /\ \A k \in locks' : k.before = {} /\ k.task = task[r]
    <3>1. /\ \A l \in locks : ~l.expired => l \in locks'
          /\ \A k \in locks' : \E l \in locks : k.task = l.task /\ k.before = l.before \ {r}
      BY <1>4, ForgetRows DEF Inv
    <3>2. NewRow(r) \in locks'
      BY <1>1, <3>1
    <3>3. ASSUME NEW k \in locks' PROVE k.before = {} /\ k.task = task[r]
      <4>1. PICK l \in locks : k.task = l.task /\ k.before = l.before \ {r}
        BY <3>1
      <4>2. l.task = task[r] /\ l.before = {}
        BY <1>1
      <4> QED
        BY <4>1, <4>2
    <3> QED
      BY <3>2, <3>3
  <2>2. /\ pc'[r] = "idle" /\ task'[r] = 0
        /\ \A q \in Runners \ {r} : pc'[q] = pc[q] /\ task'[q] = task[q] /\ handler'[q] = handler[q]
    BY <1>4 DEF Leave, Goto, Inv, LoopOK, RestOK
  <2>3. ASSUME NEW q \in Runners PROVE ClaimOf(q)' /\ ClockOf(q)'
    BY <1>2, <2>1, <2>2 DEF ClaimOf, ClockOf
  <2>4. \A t \in Tasks : status[t] \in {"running"} \union Terminal => status'[t] = status[t]
    BY <1>4 DEF Inv, TasksOK, Terminal
  <2>5. status'[task[r]] = "running"
    BY <1>1, <1>4 DEF Inv, TasksOK
  <2>6. ASSUME NEW q \in Runners PROVE DispatchOf(q)'
    <3>1. DispatchOf(q)
      BY DEF Safe, Runner
    <3>2. CASE q # r
      BY <2>2, <2>4, <3>1, <3>2 DEF DispatchOf
    <3>3. CASE q = r
      <4>1. \A t \in Tasks : task'[q] # t
        BY <2>2, <3>3, BoundsAssumption DEF Tasks
      <4>2. \A t \in Tasks : handler'[q][t] = handler[q][t] \/ (t = task[r] /\ handler'[q][t] = "run")
        BY <1>1, <1>4, <3>3 DEF Inv, RestOK
      <4> QED
        BY <2>4, <2>5, <3>1, <4>1, <4>2 DEF DispatchOf
    <3> QED
      BY <3>2, <3>3
  <2>7. RunningRecoverable'
    <3> SUFFICES ASSUME NEW t \in Tasks, status'[t] = "running"
                 PROVE  t = task[r]
      BY <2>1 DEF RunningRecoverable
    <3>1. ASSUME t # task[r] PROVE status[t] = "running"
      BY <1>4, <3>1 DEF Inv, TasksOK
    <3> QED
      BY <1>1, <1>2, <3>1 DEF Safe, RunningRecoverable
  <2> QED
    BY <2>3, <2>6, <2>7 DEF Safe, Runner
<1> QED
  BY <1>3, <1>4 DEF takeTask, Takeable

(* A node crashes: its rows stay. *)
LEMMA crashSafe ==
    ASSUME Recovers, Inv, Safe, NEW r \in Runners, Inv', crash(r)
    PROVE  Safe'
<1>1. UNCHANGED status /\ Leave(r, "crashed") /\ locks' = Forget(r, locks)
  BY DEF crash
<1>2. NoTake
  BY <1>1, StatusMoves DEF Inv
<1>3. /\ \A q \in Runners \ {r} : /\ pc'[q] = pc[q] /\ task'[q] = task[q] /\ seen'[q] = seen[q]
                                  /\ handler'[q] = handler[q]
      /\ pc'[r] = "crashed" /\ task'[r] = 0
      /\ \A t \in Tasks : handler'[r][t] = (IF handler[r][t] = "none" THEN "none" ELSE "ended")
  BY <1>1 DEF Leave, Goto, Inv, LoopOK, RestOK, crash
<1>4. /\ \A l \in locks : \E k \in locks' : k.task = l.task
      /\ \A l \in locks : ~l.expired => l \in locks'
      /\ \A k \in locks' : \E l \in locks : k.task = l.task /\ k.before = l.before \ {r}
  BY <1>1, ForgetRows DEF Inv
<1>5. ASSUME NEW q \in Runners, q # r PROVE Runner(q)'
  <2>1. ~NewRow(q).expired
    BY DEF NewRow
  <2>2. locks' \subseteq Rows
    BY DEF Inv, GoodRows
  <2> QED
    BY <1>2, <1>3, <1>4, <1>5, <2>1, <2>2, RunnerKept
<1>6. Runner(r)'
  <2>1. ClaimOf(r)' /\ ClockOf(r)'
    BY <1>3, <1>4 DEF ClaimOf, ClockOf
  <2>2. 0 \notin Tasks
    BY BoundsAssumption DEF Tasks
  <2>3. DispatchOf(r)'
    BY <1>1, <1>3, <2>2 DEF Safe, Runner, DispatchOf
  <2> QED
    BY <2>1, <2>3 DEF Runner
<1>7. RunningRecoverable'
  <2>1. MaxCrashes # 0
    BY BoundsAssumption DEF crash, Inv, RestOK
  <2>2. ASSUME NEW t \in Tasks, status[t] = "running"
        PROVE  \E l \in locks : l.task = t
    <3>1. \A q \in Runners : pc[q] # "markExpired"
      BY <2>1, <2>2, OneIsActive DEF Recovers
    <3> QED
      BY <2>2, <3>1 DEF Safe, RunningRecoverable
  <2> QED
    BY <1>1, <1>4, <2>2 DEF RunningRecoverable
<1> QED
  BY <1>5, <1>6, <1>7 DEF Safe

(* A step outside of the loops that keeps the rows of claims and of running *)
(* tasks.                                                                   *)
LEMMA OutsideSafe ==
    ASSUME Inv, Safe, Inv', NoTake, UNCHANGED loop,
           \A l \in locks : (\E q \in Runners : l = NewRow(q) /\ pc[q] \in {"markExpired", "take", "release"})
                                => l \in locks',
           \A l \in locks : status'[l.task] = "running" => \E k \in locks' : k.task = l.task,
           \A k \in locks' : \E l \in locks : k.task = l.task /\ k.before = l.before,
           \A q \in Runners, t \in Tasks :
               \/ handler'[q][t] = handler[q][t]
               \/ handler[q][t] # "none" /\ (handler'[q][t] = "release" => status'[t] \in Terminal)
    PROVE  Safe'
<1>1. pc' = pc /\ task' = task /\ seen' = seen /\ locks' \subseteq Rows
  BY DEF loop, Inv, GoodRows
<1>2. ASSUME NEW q \in Runners PROVE Runner(q)'
  <2>1. ClaimOf(q) /\ ClockOf(q) /\ DispatchOf(q)
    BY DEF Safe, Runner
  <2>2. (NewRow(q))' = NewRow(q)
    BY <1>1 DEF NewRow
  <2>3. ClaimOf(q)'
    BY <1>1, <2>1, <2>2 DEF ClaimOf, NoTake
  <2>4. ClockOf(q)'
    <3>1. pc[q] \in {"acquire", "existing", "cas"} => task[q] \in Tasks
      BY DEF Inv, LoopOK
    <3>2. \A l \in locks' : l.task \in Tasks
      BY <1>1 DEF Rows
    <3> QED
      BY <1>1, <2>1, <3>1, <3>2 DEF ClockOf, NoTake
  <2>5. DispatchOf(q)'
    BY <1>1, <2>1 DEF DispatchOf, NoTake
  <2> QED
    BY <2>3, <2>4, <2>5 DEF Runner
<1>3. RunningRecoverable'
  BY <1>1 DEF Safe, RunningRecoverable, NoTake
<1> QED
  BY <1>2, <1>3 DEF Safe

(* The handlers: the end of a task, the lease given back, a lost lease. *)
LEMMA HandlersSafe ==
    ASSUME Inv, Safe, Inv', NEW r \in Runners, NEW t \in Tasks,
           HandlerStep(r, t) \/ cancelHandler(r, t) \/ abandon(r, t)
    PROVE  Safe'
<1>1. UNCHANGED loop
  BY DEF HandlerStep, FinishSystemTask, releaseFinished, cancelHandler, abandon
<1>2. NoTake
  <2>1. CASE FinishSystemTask(r, t)
    <3>1. \/ UNCHANGED status
          \/ \E s \in Terminal : status[t] = "running" /\ status' = [status EXCEPT ![t] = s]
      BY <2>1 DEF FinishSystemTask, MayFinish
    <3> QED
      BY <3>1, StatusMoves DEF Inv
  <2>2. CASE ~FinishSystemTask(r, t)
    BY <2>2, StatusMoves DEF HandlerStep, releaseFinished, cancelHandler, abandon, tables, Inv
  <2> QED
    BY <2>1, <2>2
<1>3. PICK w \in {"release", "ended", "cancelled"} :
          /\ HandlerGoto(r, t, w) /\ handler[r][t] # "none"
          /\ w = "release" => \E s \in Terminal : status' = [status EXCEPT ![t] = s]
  BY DEF HandlerStep, FinishSystemTask, releaseFinished, cancelHandler, abandon
<1>4. \A q \in Runners, u \in Tasks :
          \/ handler'[q][u] = handler[q][u]
          \/ handler[q][u] # "none" /\ (handler'[q][u] = "release" => status'[u] \in Terminal)
  BY <1>3 DEF HandlerGoto, Inv, RestOK, TasksOK, Terminal
<1>5. CASE UNCHANGED locks
  BY <1>1, <1>2, <1>4, <1>5, OutsideSafe
<1>6. CASE handler[r][t] = "release" /\ locks' = Released(t, r)
  <2>1. status[t] \in Terminal /\ task[r] # t
    BY <1>6 DEF Safe, Runner, DispatchOf
  <2>2. status'[t] # "running"
    BY <1>2, <2>1 DEF NoTake, Terminal
  <2>3. \A l \in locks : l \in locks' \/ (l.task = t /\ l.by = r)
    BY <1>6 DEF Released
  <2>4. \A l \in locks : (\E q \in Runners : l = NewRow(q)) => l \in locks'
    BY <2>1, <2>3 DEF NewRow
  <2>5. \A l \in locks : status'[l.task] = "running" => \E k \in locks' : k.task = l.task
    BY <2>2, <2>3
  <2>6. \A k \in locks' : \E l \in locks : k.task = l.task /\ k.before = l.before
    BY <1>6 DEF Released
  <2> QED
    BY <1>1, <1>2, <1>4, <2>4, <2>5, <2>6, OutsideSafe
<1> QED
  BY <1>5, <1>6 DEF HandlerStep, FinishSystemTask, releaseFinished, cancelHandler, abandon, tables

(* A lease ends, but never under a claim. *)
LEMMA lapseSafe ==
    ASSUME Recovers, Inv, Safe, Inv', lapse
    PROVE  Safe'
<1>1. UNCHANGED <<status, loop, handler>>
  BY DEF lapse, others
<1>2. NoTake
  BY <1>1, StatusMoves DEF Inv
<1>3. PICK l \in locks : /\ ~Claiming(l)
                         /\ locks' = (locks \ {l}) \union {[l EXCEPT !.expired = TRUE]}
  BY DEF lapse, Recovers
<1>4. l \in Rows /\ [l EXCEPT !.expired = TRUE].before = l.before
  BY DEF Inv, GoodRows, Rows
<1>5. \A q \in Runners : pc[q] \in {"markExpired", "take", "release"} => l # NewRow(q)
  BY <1>3 DEF Claiming, NewRow
<1>6. [l EXCEPT !.expired = TRUE].task = l.task
  BY <1>4, RowExpires
<1>7. \A m \in locks : (\E q \in Runners : m = NewRow(q) /\ pc[q] \in {"markExpired", "take", "release"})
                           => m \in locks'
  BY <1>3, <1>5
<1>8. /\ \A m \in locks : \E k \in locks' : k.task = m.task
      /\ \A k \in locks' : \E m \in locks : k.task = m.task /\ k.before = m.before
  BY <1>3, <1>4, <1>6
<1> QED
  BY <1>1, <1>2, <1>7, <1>8, OutsideSafe

(* Every step keeps running tasks recoverable. *)
LEMMA NextSafe ==
    ASSUME Recovers, Inv, Safe, Inv', [Next]_vars
    PROVE  Safe'
<1>1. ASSUME NEW r \in Runners, ExpireStaleSystemTaskLocks(r) \/ findPending(r)
      PROVE  Safe'
  BY <1>1, PlainSafe, StampSafe DEF ExpireStaleSystemTaskLocks, findPending
<1>2. ASSUME NEW r \in Runners, LoopStep(r) \/ crash(r)
      PROVE  Safe'
  BY <1>1, <1>2, PlainSafe, markStaleSafe, deleteStaleSafe, acquireSafe, readExistingSafe,
     casLockSafe, markClaimedSafe, takeTaskSafe, GiveUpSafe, crashSafe DEF LoopStep
<1>3. ASSUME NEW c \in Clients, EnqueueSystemTask(c) \/ createEnqueued(c)
      PROVE  Safe'
  <2>1. UNCHANGED <<locks, loop, handler>>
    BY <1>3 DEF EnqueueSystemTask, createEnqueued, CreateSystemTask, InsertTask, tables
  <2>2. NoTake
    BY <1>3, StatusMoves DEF EnqueueSystemTask, createEnqueued, tables, Inv
  <2> QED
    BY <2>1, <2>2, OutsideSafe
<1>4. CASE UNCHANGED vars
  <2>1. NoTake /\ UNCHANGED <<locks, loop, handler>>
    BY <1>4, StatusMoves DEF vars, loop, Inv
  <2> QED
    BY <2>1, OutsideSafe
<1> QED
  BY <1>2, <1>3, <1>4, HandlersSafe, lapseSafe DEF Next

(* The invariant of the runners with their rows and clocks. *)
LEMMA SafeAlways ==
    ASSUME Recovers
    PROVE  Spec => [](Inv /\ Safe)
<1>1. Init => Safe
  BY DEF Init, Safe, Runner, ClaimOf, ClockOf, DispatchOf, RunningRecoverable
<1>2. Inv /\ Inv' /\ Safe /\ [Next]_vars => Safe'
  BY NextSafe
<1> QED
  BY <1>1, <1>2, RunnersKeepInv, PTL DEF Spec

(* A running task can be recovered, whatever crashes and fails: its lock   *)
(* row is there for the next sweep.  With rows of an earlier version, which *)
(* the unique index does not hold apart, only without crashes and errors.   *)
THEOREM TasksRecoverable ==
    ASSUME Recovers
    PROVE  Spec => []RunningRecoverable
<1>1. Inv /\ Safe => RunningRecoverable
  BY DEF Safe
<1> QED
  BY <1>1, SafeAlways, PTL

(* Two tasks never run at the same time: a runner that takes a lease over  *)
(* fails its task before its own is taken.                                 *)
THEOREM OneTaskRunning ==
    ASSUME Recovers
    PROVE  Spec => []OneRunning
<1>1. ASSUME Inv, Safe PROVE OneRunning
  <2> SUFFICES ASSUME NEW t \in Tasks, NEW u \in Tasks, status[t] = "running", status[u] = "running"
               PROVE  t = u
    BY DEF OneRunning
  <2>1. CASE \E r \in Runners : pc[r] = "markExpired"
    <3>1. PICK r \in Runners : pc[r] = "markExpired"
      BY <2>1
    <3>2. \A l \in locks : l.task = task[r]
      BY <1>1, <3>1, ClaimRow
    <3>3. status[task[r]] # "running" /\ \A q \in Runners : pc[q] = "markExpired" => q = r
      BY <1>1, <3>1, ClaimRow, OneClaim
    <3> QED
      BY <1>1, <3>2, <3>3 DEF Safe, RunningRecoverable
  <2>2. CASE \A r \in Runners : pc[r] # "markExpired"
    BY <1>1, <2>2 DEF Safe, RunningRecoverable, Inv, GoodRows
  <2> QED
    BY <2>1, <2>2
<1>2. Inv /\ Safe => OneRunning
  BY <1>1
<1> QED
  BY <1>2, SafeAlways, PTL
=============================================================================
