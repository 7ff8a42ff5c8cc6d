----------------------------- MODULE TaskPolling -----------------------------
(***************************************************************************)
(* Asynchronous tasks (music, video): service/task_polling.go,             *)
(* service/task_billing.go, model/task.go, and the two other writers of    *)
(* the table, RelayTask (controller/relay.go) and tryRealtimeFetch         *)
(* (relay/relay_task.go).                                                  *)
(*                                                                         *)
(* A task is paid for when it is submitted, from any of the four sources   *)
(* of a billing session.  Polling passes ask the provider about the        *)
(* unfinished tasks, fail the ones that are too old, and correct the       *)
(* payment of the tasks they finish; the correction knows a subscription   *)
(* and the wallet only, and books on the wallet what a pool of requests or *)
(* tokens has paid.                                                        *)
(*                                                                         *)
(* Passes overlap: a runner that has lost its lease goes on until it looks *)
(* at its context.  They are kept apart by UpdateWithStatus alone, which   *)
(* writes ALL columns of the copy, quota included, if the row still has    *)
(* the copy's status.                                                      *)
(*                                                                         *)
(* A pass handles one task after another here; the goroutines of a video   *)
(* pass work on different rows, so their order does not matter.  The       *)
(* statuses before the end are NOT_START and IN_PROGRESS; progress is      *)
(* 100% exactly in the two final statuses, as every adaptor reports it.    *)
(***************************************************************************)
EXTENDS Integers, FiniteSets

CONSTANTS
    Tasks,        \* tasks, each on a channel of its own
    Passes,       \* runs of RunTaskPollingOnce that may overlap
    Fetchers,     \* calls of videoFetchByIDRespBodyBuilder
    NoTask,
    Sources,      \* where a task may be paid from: task.PrivateData.BillingSource
    Kinds,        \* what the channels are: "suno", "video", "realtime" (Gemini and Vertex)
    Price,        \* result.Quota: what a submission costs
    Actuals,      \* what the adaptor or the tokens may say a finished task costs
    MaxFetches,   \* bound: fetches by the user
    MaxFaults,    \* bound: failed statements
    MaxCrashes    \* bound: crashes

ASSUME TaskPollingAssumption ==
    /\ NoTask \notin Tasks
    /\ Sources \subseteq {"wallet", "subscription", "requests", "tokens"} /\ Sources # {}
    /\ Kinds \subseteq {"suno", "video", "realtime"} /\ Kinds # {}
    /\ Price \in Nat \ {0} /\ Actuals \subseteq Nat \ {0}
    /\ MaxFetches \in Nat /\ MaxFaults \in Nat /\ MaxCrashes \in Nat

VARIABLES
    row,      \* the tasks table: status and quota
    kind,     \* the channel's type
    source,   \* what has paid for the task
    legacy,   \* submitted before TaskRefundLegacyCutoff
    old,      \* submit_time is before the timeout's cutoff
    lost,     \* the channel cannot be found any more, or the row has no upstream id
    up,       \* the provider's task
    paid,     \* what its source has paid for the task, net, in the unit of the source
    wallet,   \* what the wallet was charged, net, for a task that a pool has paid
    key,      \* what the API key was charged, net
    used,     \* what the statistics of user and channel count for it
    pass,     \* per pass: its phase, its copies of the rows still to do, its current task
    fetch,    \* per fetcher: its task and its copy
    fetches, faults, crashes

ledger == <<paid, wallet, key, used>>
world  == <<kind, source, legacy, old, lost, up>>
bounds == <<fetches, faults, crashes>>
vars   == <<row, kind, source, legacy, old, lost, up, paid, wallet, key, used, pass, fetch, fetches, faults, crashes>>

Active == {"NOT_START", "IN_PROGRESS"}
Ended  == {"SUCCESS", "FAILURE"}

Row(s, q) == [status |-> s, quota |-> q]
NoRow     == Row("none", 0)
NoCopy    == [t \in Tasks |-> NoRow]

\* What a pass does with its current task: it has an answer to write, or it
\* moves the payment from one amount to another.
NoJob                == [task |-> NoTask, step |-> "none", answer |-> "none", from |-> 0, to |-> 0]
Writing(t, a)        == [task |-> t, step |-> "write", answer |-> a, from |-> 0, to |-> 0]
Billing(t, from, to) == [task |-> t, step |-> "fund", answer |-> "none", from |-> from, to |-> to]
Idle                 == [at |-> "idle", copy |-> NoCopy, job |-> NoJob]
NoFetch              == [task |-> NoTask, copy |-> NoRow]

\* A request costs one of its pool, and the pool of tokens gives what it has if that is less than the price.
\* The price is the one that was reserved: no adaptor overrides AdjustBillingOnSubmit.
Charges(t) ==
    CASE source[t] = "requests" -> {1}
      [] source[t] = "tokens"   -> 1..Price
      [] OTHER                  -> {Price}

Init ==
    /\ legacy \in [Tasks -> BOOLEAN]
    /\ row = [t \in Tasks |-> IF legacy[t] THEN Row("IN_PROGRESS", Price) ELSE NoRow]
    /\ kind \in [Tasks -> Kinds] /\ source \in [Tasks -> Sources]
    /\ old = [t \in Tasks |-> FALSE] /\ lost = [t \in Tasks |-> FALSE]
    /\ up = [t \in Tasks |-> IF legacy[t] THEN "IN_PROGRESS" ELSE "none"]
    /\ paid \in [Tasks -> 0..Price]
    /\ \A t \in Tasks : IF legacy[t] THEN paid[t] \in Charges(t) ELSE paid[t] = 0
    /\ wallet = [t \in Tasks |-> 0]
    /\ key = [t \in Tasks |-> IF legacy[t] THEN Price ELSE 0] /\ used = key
    /\ pass = [p \in Passes |-> Idle]
    /\ fetch = [f \in Fetchers |-> NoFetch]
    /\ fetches = 0 /\ faults = 0 /\ crashes = 0

(***************************************************************************)
(* Submission and the outside world.                                       *)
(***************************************************************************)
Fault == faults < MaxFaults /\ faults' = faults + 1

\* RelayTask: the provider took the task, the payment is settled, the usage counted.  A pool of requests is
\* not settled, and the key and the statistics are charged the price whatever paid.
Submit(t) ==
    /\ up[t] = "none"
    /\ up' = [up EXCEPT ![t] = "IN_PROGRESS"]
    /\ \E c \in Charges(t) : paid' = [paid EXCEPT ![t] = c]
    /\ key' = [key EXCEPT ![t] = Price] /\ used' = [used EXCEPT ![t] = Price]
    /\ UNCHANGED <<row, kind, source, legacy, old, lost, wallet, pass, fetch, bounds>>

\* ... and the row is inserted; an error is logged and nothing else.
Insert(t) ==
    /\ up[t] # "none" /\ up[t] # "dropped" /\ row[t] = NoRow
    /\ \/ row' = [row EXCEPT ![t] = Row("NOT_START", Price)] /\ UNCHANGED <<up, faults>>
       \/ Fault /\ up' = [up EXCEPT ![t] = "dropped"] /\ UNCHANGED row
    /\ UNCHANGED <<kind, source, legacy, old, lost, ledger, pass, fetch, fetches, crashes>>

ProviderEnds(t) ==
    /\ up[t] = "IN_PROGRESS"
    /\ \E s \in Ended : up' = [up EXCEPT ![t] = s]
    /\ UNCHANGED <<row, kind, source, legacy, old, lost, ledger, pass, fetch, bounds>>

\* The timeout passes.
Age(t) ==
    /\ row[t] # NoRow /\ ~old[t]
    /\ old' = [old EXCEPT ![t] = TRUE]
    /\ UNCHANGED <<row, kind, source, legacy, lost, up, ledger, pass, fetch, bounds>>

\* An administrator deletes the channel.
LoseChannel(t) ==
    /\ row[t] # NoRow /\ ~lost[t]
    /\ lost' = [lost EXCEPT ![t] = TRUE]
    /\ UNCHANGED <<row, kind, source, legacy, old, up, ledger, pass, fetch, bounds>>

(***************************************************************************)
(* The compare-and-set on the status, and the two queries.                 *)
(***************************************************************************)
(* Mutant: the row is written whatever its status is by now. *)
MutWon(t, copy) == row[t] # NoRow

\* UpdateWithStatus(fromStatus): does the row still have the status of the copy?
Won(t, copy) == row[t].status = copy.status

(* Mutant: finished tasks are polled too. *)
MutUnfinished(t) == row[t] # NoRow

Unfinished(t) == row[t].status \in Active

(* Mutant: only tasks in progress time out. *)
MutTimedOut(t) == row[t].status = "IN_PROGRESS" /\ old[t]

\* GetTimedOutUnfinishedTasks
TimedOut(t) == Unfinished(t) /\ old[t]

CopyOf(S) == [t \in Tasks |-> IF t \in S THEN row[t] ELSE NoRow]

Todo(p) == {t \in Tasks : pass[p].copy[t] # NoRow}

\* The pass leaves task t and keeps job j to do, if any.
Leave(p, t, j) ==
    pass' = [pass EXCEPT ![p] = [at |-> @.at, copy |-> [@.copy EXCEPT ![t] = NoRow], job |-> j]]

(***************************************************************************)
(* RunTaskPollingOnce: sweep the old ones, then list and poll the rest.    *)
(***************************************************************************)
\* The handler is Enabled() while a task is unfinished; the pass begins with
\* sweepTimedOutTasks, which reads the rows that are too old.
Start(p) ==
    /\ pass[p] = Idle /\ \E t \in Tasks : Unfinished(t)
    /\ pass' = [pass EXCEPT ![p] = [at |-> "sweep", copy |-> CopyOf({t \in Tasks : TimedOut(t)}), job |-> NoJob]]
    /\ UNCHANGED <<row, world, ledger, fetch, bounds>>

(* Mutant: the quota is cleared with the status, before the refund. *)
MutSweptQuota(t, copy) == 0

\* What the sweep writes: a task of the old system is not refunded, and keeps
\* no quota that could be.
SweptQuota(t, copy) == IF legacy[t] THEN 0 ELSE copy.quota

SweepTask(p, t) ==
    LET copy == pass[p].copy[t]
        q    == SweptQuota(t, copy)
    IN  /\ pass[p].at = "sweep" /\ pass[p].job = NoJob /\ t \in Todo(p)
        /\ \/ /\ Won(t, copy)
              /\ row' = [row EXCEPT ![t] = Row("FAILURE", q)]
              /\ Leave(p, t, IF ~legacy[t] /\ q # 0 THEN Billing(t, q, 0) ELSE NoJob)
              /\ UNCHANGED faults
           \/ ~Won(t, copy) /\ Leave(p, t, NoJob) /\ UNCHANGED <<row, faults>>
           \/ Fault /\ Leave(p, t, NoJob) /\ UNCHANGED row
        /\ UNCHANGED <<world, ledger, fetch, fetches, crashes>>

\* GetAllUnFinishSyncTasks
List(p) ==
    /\ pass[p].at = "sweep" /\ pass[p].job = NoJob /\ Todo(p) = {}
    /\ pass' = [pass EXCEPT ![p] = [at |-> "poll", copy |-> CopyOf({t \in Tasks : Unfinished(t)}), job |-> NoJob]]
    /\ UNCHANGED <<row, world, ledger, fetch, bounds>>

Polling(p, t) == pass[p].at = "poll" /\ pass[p].job = NoJob /\ t \in Todo(p)

\* TaskBulkUpdateByID: no upstream id, or CacheGetChannel failed, because the channel is gone or, without the
\* memory cache, by an error of the database.  There is no comparison, and no billing.
BulkFail(p, t) ==
    /\ Polling(p, t) /\ Leave(p, t, NoJob)
    /\ \/ row' = [row EXCEPT ![t].status = "FAILURE"] /\ IF lost[t] THEN UNCHANGED faults ELSE Fault
       \/ lost[t] /\ Fault /\ UNCHANGED row
    /\ UNCHANGED <<world, ledger, fetch, fetches, crashes>>

\* What the provider may say.  An error that a video adaptor cannot read as
\* a status is taken for a failure of the task.
Answers(t) == {up[t]} \union IF kind[t] = "suno" THEN {} ELSE {"FAILURE"}

FetchTask(p, t) ==
    /\ Polling(p, t) /\ ~lost[t]
    /\ \E a \in Answers(t) : pass' = [pass EXCEPT ![p].job = Writing(t, a)]
    /\ UNCHANGED <<row, world, ledger, fetch, bounds>>

\* No answer, a 429, an answer that cannot be parsed: the next pass asks again.
FetchFails(p, t) ==
    /\ Polling(p, t) /\ ~lost[t]
    /\ Leave(p, t, NoJob)
    /\ UNCHANGED <<row, world, ledger, fetch, bounds>>

\* settleTaskBillingOnComplete: what a finished task costs.  Suno, a price per
\* call and an adaptor without an opinion keep what was paid.
Costs(t, q) == {q} \union IF kind[t] = "suno" THEN {} ELSE Actuals

\* The correction of the payment that the winner of the update owes.
Corrections(t, answer, q) ==
    CASE answer = "FAILURE" -> {IF q # 0 THEN Billing(t, q, 0) ELSE NoJob}
      [] answer = "SUCCESS" -> {IF c # q THEN Billing(t, q, c) ELSE NoJob : c \in Costs(t, q)}
      [] OTHER -> {NoJob}

\* updateVideoSingleTask and the loop of updateSunoTasks, from the answer on.
Write(p) ==
    LET job  == pass[p].job
        t    == job.task
        copy == pass[p].copy[t]
    IN  /\ job.step = "write"
        /\ \/ /\ Won(t, copy)
              /\ row' = [row EXCEPT ![t] = Row(job.answer, copy.quota)]
              /\ \E j \in Corrections(t, job.answer, copy.quota) : Leave(p, t, j)
              /\ UNCHANGED faults
           \/ ~Won(t, copy) /\ Leave(p, t, NoJob) /\ UNCHANGED <<row, faults>>
           \/ job.answer = copy.status /\ Leave(p, t, NoJob) /\ UNCHANGED <<row, faults>>
           \/ Fault /\ Leave(p, t, NoJob) /\ UNCHANGED row
        /\ UNCHANGED <<world, ledger, fetch, fetches, crashes>>

\* ctx is cancelled when the lease is lost; it is looked at between two tasks.
Cancel(p) ==
    /\ pass[p].at = "poll" /\ pass[p].job = NoJob
    /\ pass' = [pass EXCEPT ![p] = Idle]
    /\ UNCHANGED <<row, world, ledger, fetch, bounds>>

End(p) == Cancel(p) /\ Todo(p) = {}

Crash(p) ==
    /\ pass[p] # Idle /\ crashes < MaxCrashes /\ crashes' = crashes + 1
    /\ pass' = [pass EXCEPT ![p] = Idle]
    /\ UNCHANGED <<row, world, ledger, fetch, fetches, faults>>

(***************************************************************************)
(* RefundTaskQuota and RecalculateTaskQuota: the funding source, the key,  *)
(* and then the statistics and the quota of the row, which says what could *)
(* still be refunded.  A refund clears the quota last; a recalculation     *)
(* writes it before the statistics.  A crash may come between any two.     *)
(***************************************************************************)
Step(p, s)   == pass[p].job.step = s
Delta(p)     == pass[p].job.to - pass[p].job.from
Refunding(p) == pass[p].job.to = 0
GoTo(p, s)   == pass' = [pass EXCEPT ![p].job.step = s]
Finished(p)  == pass' = [pass EXCEPT ![p].job = NoJob]

\* taskIsSubscription, or a task that the wallet has paid: the correction reaches what paid.
Known(t) == source[t] \in {"wallet", "subscription"}

\* taskAdjustFunding: if it fails, nothing more is done and the quota stays.
AdjustFunding(p) ==
    LET t == pass[p].job.task
    IN  /\ Step(p, "fund")
        /\ \/ /\ IF Known(t) THEN paid' = [paid EXCEPT ![t] = @ + Delta(p)] /\ UNCHANGED wallet
                ELSE wallet' = [wallet EXCEPT ![t] = @ + Delta(p)] /\ UNCHANGED paid
              /\ GoTo(p, "key") /\ UNCHANGED faults
           \/ Fault /\ Finished(p) /\ UNCHANGED <<paid, wallet>>
        /\ UNCHANGED <<row, world, key, used, fetch, fetches, crashes>>

(* Mutant: the key is forgotten. *)
MutAdjustToken(p) ==
    /\ Step(p, "key") /\ GoTo(p, IF Refunding(p) THEN "used" ELSE "quota")
    /\ UNCHANGED <<row, world, ledger, fetch, bounds>>

\* taskAdjustTokenQuota: a failure is logged.
AdjustToken(p) ==
    /\ Step(p, "key") /\ GoTo(p, IF Refunding(p) THEN "used" ELSE "quota")
    /\ \/ key' = [key EXCEPT ![pass[p].job.task] = @ + Delta(p)] /\ UNCHANGED faults
       \/ Fault /\ UNCHANGED key
    /\ UNCHANGED <<row, world, paid, wallet, used, fetch, fetches, crashes>>

\* The statistics of the user and of the channel, as one account.
AdjustUsed(p) ==
    /\ Step(p, "used") /\ IF Refunding(p) THEN GoTo(p, "quota") ELSE Finished(p)
    /\ used' = [used EXCEPT ![pass[p].job.task] = @ + Delta(p)]
    /\ UNCHANGED <<row, world, paid, wallet, key, fetch, bounds>>

\* UpdateQuota, whose failure is logged as well.
UpdateQuota(p) ==
    /\ Step(p, "quota") /\ IF Refunding(p) THEN Finished(p) ELSE GoTo(p, "used")
    /\ \/ row' = [row EXCEPT ![pass[p].job.task].quota = pass[p].job.to] /\ UNCHANGED faults
       \/ Fault /\ UNCHANGED row
    /\ UNCHANGED <<world, ledger, fetch, fetches, crashes>>

(***************************************************************************)
(* tryRealtimeFetch: the user asks for a task of a Gemini or Vertex        *)
(* channel, finished or not.  The provider's status goes into the row, and *)
(* nobody corrects the payment.                                            *)
(***************************************************************************)
FetchRead(f, t) ==
    /\ fetch[f] = NoFetch /\ row[t] # NoRow /\ kind[t] = "realtime" /\ ~lost[t]
    /\ fetches < MaxFetches /\ fetches' = fetches + 1
    /\ fetch' = [fetch EXCEPT ![f] = [task |-> t, copy |-> row[t]]]
    /\ UNCHANGED <<row, world, ledger, pass, faults, crashes>>

FetchWrite(f) ==
    LET t    == fetch[f].task
        copy == fetch[f].copy
    IN  /\ fetch[f] # NoFetch
        /\ fetch' = [fetch EXCEPT ![f] = NoFetch]
        /\ \/ /\ Won(t, copy)
              /\ \E a \in Answers(t) : row' = [row EXCEPT ![t] = Row(a, copy.quota)]
           \/ UNCHANGED row    \* lost the update, no answer, or nothing new in it
        /\ UNCHANGED <<world, ledger, pass, bounds>>

-----------------------------------------------------------------------------
PassStep(p) ==
    \/ Start(p) \/ List(p) \/ Write(p) \/ End(p)
    \/ AdjustFunding(p) \/ AdjustToken(p) \/ AdjustUsed(p) \/ UpdateQuota(p)
    \/ \E t \in Tasks : SweepTask(p, t) \/ BulkFail(p, t) \/ FetchTask(p, t) \/ FetchFails(p, t)

Next ==
    \/ \E p \in Passes : PassStep(p) \/ Cancel(p) \/ Crash(p)
    \/ \E f \in Fetchers : FetchWrite(f) \/ \E t \in Tasks : FetchRead(f, t)
    \/ \E t \in Tasks : Submit(t) \/ Insert(t) \/ ProviderEnds(t) \/ Age(t) \/ LoseChannel(t)

\* The scheduler starts a pass every 15 seconds while a task is unfinished, a
\* pass does not stop by itself, and time passes.
Fairness ==
    /\ \A p \in Passes : WF_vars(PassStep(p))
    /\ \A t \in Tasks : WF_vars(Age(t))

Spec == Init /\ [][Next]_vars /\ Fairness

(***************************************************************************)
(* Properties.                                                             *)
(***************************************************************************)
Statuses == Active \union Ended
Amounts  == {0, Price} \union Actuals
Rows     == [status : Statuses, quota : Amounts] \union {NoRow}
Copies   == [status : Active, quota : Amounts] \union {NoRow}
Jobs     == [task : Tasks \union {NoTask}, step : {"none", "write", "fund", "key", "used", "quota"},
             answer : {"none", "IN_PROGRESS"} \union Ended, from : Amounts, to : Amounts]

\* Types; a pass holds copies of unfinished tasks only (the two queries of
\* model/task.go), which is what makes its updates leave finished rows alone.
TypeOK ==
    /\ row \in [Tasks -> Rows] /\ kind \in [Tasks -> Kinds] /\ source \in [Tasks -> Sources]
    /\ legacy \in [Tasks -> BOOLEAN]
    /\ old \in [Tasks -> BOOLEAN] /\ lost \in [Tasks -> BOOLEAN]
    /\ up \in [Tasks -> {"none", "dropped", "IN_PROGRESS"} \union Ended]
    /\ paid \in [Tasks -> Int] /\ wallet \in [Tasks -> Int] /\ key \in [Tasks -> Int] /\ used \in [Tasks -> Int]
    /\ pass \in [Passes -> [at : {"idle", "sweep", "poll"}, copy : [Tasks -> Copies], job : Jobs]]
    /\ fetch \in [Fetchers -> [task : Tasks \union {NoTask}, copy : Rows]]
    /\ fetches \in 0..MaxFetches /\ faults \in 0..MaxFaults /\ crashes \in 0..MaxCrashes

\* Is a pass correcting the payment of t?
Correcting(t) == \E p \in Passes : pass[p].job.task = t /\ pass[p].job.step \in {"fund", "key", "used", "quota"}

\* What a task costs in the account that taskAdjustFunding corrects: of a task that a pool has paid, the price
\* and what the wallet was charged or given since.
Booked(t) == IF Known(t) THEN paid[t] ELSE Price + wallet[t]

\* However passes, sweeps and bulk updates overlap, fail and crash, nothing is
\* given back twice: neither to the funding source, nor to the wallet in its
\* place, nor to the key, nor in the statistics (RefundTaskQuota is reached by
\* the winner of one update only).
NeverRefundedTwice ==
    \A t \in Tasks : kind[t] # "realtime" => paid[t] >= 0 /\ Booked(t) >= 0 /\ key[t] >= 0 /\ used[t] >= 0

\* Money that a failed task still holds can be found: when a refund failed, was
\* never begun or was cut off by a crash before the source was adjusted, the
\* quota of the row is still there to say so (the comments of RefundTaskQuota).
\* For a task that a pool has paid, this is the credit to the wallet.
OwedIsMarked ==
    \A t \in Tasks :
        row[t].status = "FAILURE" /\ ~legacy[t] /\ kind[t] # "realtime" /\ ~Correcting(t) /\ Booked(t) > 0
        => row[t].quota # 0

\* Without faults the accounts of a task agree whenever nobody is correcting
\* them: key and statistics with the quota of the row, and with them the wallet
\* or the subscription that has paid, to which a failed task has then cost
\* nothing.  A pool of requests or tokens is out of it: what it has paid it
\* never gets back, and the wallet bears the difference to the price instead, so
\* a failed task is a gain of its price there.
AccountsAgree ==
    \A t \in Tasks :
        /\ faults = 0 /\ crashes = 0 /\ row[t] # NoRow /\ kind[t] # "realtime" /\ ~lost[t] /\ ~Correcting(t)
        /\ ~(legacy[t] /\ row[t].status = "FAILURE")
        => /\ key[t] = row[t].quota /\ used[t] = row[t].quota
           /\ row[t].status = "FAILURE" => row[t].quota = 0
           /\ IF Known(t) THEN paid[t] = row[t].quota /\ wallet[t] = 0
              ELSE paid[t] > 0 /\ wallet[t] = row[t].quota - Price

\* No late pass overwrites the end of a task (the comments on UpdateWithStatus).
\* The bulk update does, which compares nothing: of a lost channel, or after an
\* error in reading the channel, which counts as a fault.
EndIsFinal ==
    [][\A t \in Tasks : row[t].status \in Ended /\ kind[t] # "realtime" /\ ~lost[t] /\ faults' = faults
                         => row'[t].status = row[t].status]_vars

\* Every task that was inserted ends, whatever the provider answers: the
\* timeout fails it at last.
EveryTaskEnds == \A t \in Tasks : row[t] # NoRow ~> row[t].status \in Ended

\* service/task_billing.go:168: when an asynchronous task fails, its quota is
\* returned.
FailedIsRefunded ==
    \A t \in Tasks :
        row[t].status = "FAILURE" /\ ~legacy[t] /\ faults = 0 /\ crashes = 0 /\ ~lost[t] /\ ~Correcting(t)
        => Booked(t) = 0

\* service/task_billing.go:176: the refund goes to the funding source of the
\* task, and model/task.go:108 knows a wallet and a subscription only.
RefundReachesSource ==
    \A t \in Tasks :
        /\ row[t].status = "FAILURE" /\ ~legacy[t] /\ kind[t] # "realtime" /\ ~lost[t] /\ ~Correcting(t)
        /\ faults = 0 /\ crashes = 0
        => paid[t] = 0
=============================================================================
