------------------------- MODULE TaskPolling_proofs -------------------------
(***************************************************************************)
(* Proofs about TaskPolling, for any tasks, passes, fetches, sources,      *)
(* prices, errors and crashes.                                             *)
(*                                                                         *)
(* The inductive invariant: types; Copied, what the locals of a pass or of *)
(* a fetch say about the table; and Books, which relates for each task the *)
(* row, the accounts and the one pass that may be correcting them.  What   *)
(* the source of a task has paid counts as Booked when the correction can  *)
(* reach it; the wallet stands in for a pool of requests or tokens.        *)
(***************************************************************************)
EXTENDS TaskPolling, TLAPS

BillingSteps == {"fund", "key", "used", "quota"}
At(p, t)     == pass[p].job.task = t /\ pass[p].job.step \in BillingSteps

(* A job is of a task with a row; an answer that is to be written is a     *)
(* status, and belongs to a copy the pass holds.  A row exists for         *)
(* submitted tasks only, and copies are of rows.  A fetch is of a realtime *)
(* channel.                                                                *)
Copied ==
    /\ \A p \in Passes :
          /\ pass[p].job.step # "none" => pass[p].job.task \in Tasks /\ row[pass[p].job.task] # NoRow
          /\ pass[p].job.step = "none" => pass[p].job = NoJob
          /\ pass[p].job.step = "write" =>
                /\ pass[p].job.answer \in {"IN_PROGRESS"} \union Ended
                /\ pass[p].copy[pass[p].job.task] # NoRow
    /\ \A t \in Tasks :
          /\ row[t] # NoRow => up[t] \in {"IN_PROGRESS"} \union Ended
          /\ row[t] = NoRow => \A p \in Passes : pass[p].copy[t] = NoRow
    /\ \A f \in Fetchers :
          fetch[f] # NoFetch =>
             fetch[f].task \in Tasks /\ kind[fetch[f].task] = "realtime" /\ row[fetch[f].task] # NoRow

Charged(t, q) == Booked(t) = q /\ key[t] = q /\ used[t] = q

(* Where the pass p that corrects t has got to.  A refund clears the quota *)
(* last, a recalculation has written it when it comes to the statistics.   *)
Corrected(p, t) ==
    LET j == pass[p].job
    IN  /\ j.from = Price
        /\ Booked(t) = IF j.step = "fund" THEN Price ELSE j.to
        /\ key[t] \in {Price, j.to} /\ (j.step \in {"fund", "key"} => key[t] = Price)
        /\ used[t] = IF j.step = "quota" /\ j.to = 0 THEN 0 ELSE Price
        /\ ~legacy[t] => row[t].quota = Price \/ (j.step = "used" /\ j.to # 0 /\ row[t].quota = j.to)

(* The accounts of a task that nothing has gone wrong with. *)
Smooth(t) ==
    /\ faults = 0 /\ crashes = 0 /\ ~lost[t]
    /\ row[t].status \in Ended /\ ~(legacy[t] /\ row[t].status = "FAILURE")

(* So far every account that p has come to is corrected. *)
Onward(p, t) ==
    LET j == pass[p].job
    IN  /\ row[t].status = "FAILURE" => j.to = 0
        /\ j.step \in {"used", "quota"} => key[t] = j.to
        /\ j.step = "used" /\ j.to # 0 => row[t].quota = j.to

(* The wallet is touched for a pool's task only, and the pool itself never again. *)
Apart(t) ==
    /\ up[t] = "none" \/ Known(t) => wallet[t] = 0
    /\ paid[t] \in Nat /\ (up[t] # "none" /\ ~Known(t) => paid[t] > 0)

(* Before its end a task is charged its price, and nobody corrects it; at  *)
(* its end one pass at most does; and until that pass is through, the      *)
(* quota of the row is the price or what was charged.                      *)
BookOf(t) ==
    /\ Booked(t) \in Nat /\ key[t] \in Nat /\ used[t] \in Nat
    /\ Apart(t)
    /\ row[t].status \notin Ended => \A p \in Passes : ~At(p, t)
    /\ row[t] = NoRow /\ up[t] # "none" => Charged(t, Price)
    /\ row[t].status \in Active => row[t].quota = Price /\ Charged(t, Price)
    /\ \A p \in Passes : pass[p].copy[t] # NoRow => pass[p].copy[t].quota = Price
    /\ \A p \in Passes : At(p, t) => Corrected(p, t)
    /\ \A p, q \in Passes : At(p, t) /\ At(q, t) => p = q
    /\ row[t].status \in Ended /\ ~legacy[t] => row[t].quota = Price \/ row[t].quota = Booked(t)
    /\ Smooth(t) =>
          \/ Charged(t, row[t].quota) /\ (row[t].status = "FAILURE" => row[t].quota = 0) /\ \A p \in Passes : ~At(p, t)
          \/ \E p \in Passes : At(p, t) /\ Onward(p, t)

Books == \A t \in Tasks : kind[t] # "realtime" => BookOf(t)

IInv == TypeOK /\ Copied /\ Books

PassRecords == [at : {"idle", "sweep", "poll"}, copy : [Tasks -> Copies], job : Jobs]

-----------------------------------------------------------------------------
(* Rows, copies and jobs. *)
LEMMA RowTypes ==
    /\ \A s \in Statuses, q \in Amounts : Row(s, q) \in Rows
    /\ \A s \in Active, q \in Amounts : Row(s, q) \in Copies
    /\ NoRow \in Rows /\ NoRow \in Copies /\ NoRow.status = "none" /\ NoRow.quota = 0
    /\ \A r \in Rows : r.quota \in Amounts /\ (r # NoRow <=> r.status \in Statuses) /\ r = Row(r.status, r.quota)
    /\ \A c \in Copies : c \in Rows /\ (c # NoRow <=> c.status \in Active)
    /\ \A r \in Rows : r.status \in Active => r \in Copies
BY TaskPollingAssumption DEF Row, NoRow, Rows, Copies, Statuses, Amounts, Active, Ended

(* What a submission takes from its source. *)
LEMMA ChargeFacts ==
    ASSUME NEW t \in Tasks, NEW c \in Charges(t)
    PROVE  c \in Int /\ c > 0 /\ (Known(t) => c = Price) /\ Price \in Nat
BY TaskPollingAssumption DEF Charges, Known

(* The jobs of a pass have their type, and the fields they were given. *)
LEMMA JobTypes ==
    /\ NoJob \in Jobs /\ NoJob.step = "none" /\ NoJob.task = NoTask
    /\ \A t \in Tasks, a \in {"IN_PROGRESS"} \union Ended :
          /\ Writing(t, a) \in Jobs /\ Writing(t, a).step = "write"
          /\ Writing(t, a).task = t /\ Writing(t, a).answer = a
    /\ \A t \in Tasks, x, y \in Amounts :
          /\ Billing(t, x, y) \in Jobs /\ Billing(t, x, y).step = "fund"
          /\ Billing(t, x, y).task = t /\ Billing(t, x, y).from = x /\ Billing(t, x, y).to = y
BY TaskPollingAssumption DEF NoJob, Writing, Billing, Jobs, Amounts, Ended

(* The winner's corrections. *)
LEMMA CorrectionTypes ==
    ASSUME NEW t \in Tasks, NEW a \in {"IN_PROGRESS"} \union Ended, NEW q \in Amounts,
           NEW j \in Corrections(t, a, q)
    PROVE  \/ j = NoJob /\ (a = "FAILURE" => q = 0)
           \/ \E c \in Amounts : j = Billing(t, q, c) /\ a \in Ended /\ (a = "FAILURE" => c = 0)
BY TaskPollingAssumption DEF Corrections, Costs, Amounts, Ended

(* Leaving a task takes its copy out of the pass, sets the job and touches no other pass. *)
LEMMA LeaveFacts ==
    ASSUME TypeOK, NEW p \in Passes, NEW t \in Tasks, NEW j \in Jobs, Leave(p, t, j)
    PROVE  /\ pass' \in [Passes -> PassRecords]
           /\ \A q \in Passes : q # p => pass'[q] = pass[q]
           /\ pass'[p].job = j
           /\ \A u \in Tasks : pass'[p].copy[u] = IF u = t THEN NoRow ELSE pass[p].copy[u]
<1> DEFINE r == pass[p]
<1>1. pass \in [Passes -> PassRecords]
  BY DEF TypeOK, PassRecords
<1>2. r = [at |-> r.at, copy |-> r.copy, job |-> r.job] /\ r.copy \in [Tasks -> Copies]
  BY <1>1 DEF PassRecords
<1>3. pass' = [pass EXCEPT ![p] = [at |-> r.at, copy |-> [r.copy EXCEPT ![t] = NoRow], job |-> j]]
  BY <1>1 DEF Leave
<1>4. [at |-> r.at, copy |-> [r.copy EXCEPT ![t] = NoRow], job |-> j] \in PassRecords
  BY <1>1, <1>2, RowTypes DEF PassRecords
<1> QED
  BY <1>1, <1>2, <1>3, <1>4

(* The rows a pass lists are copies of unfinished rows. *)
LEMMA CopyOfType ==
    ASSUME TypeOK, NEW S \in SUBSET {t \in Tasks : Unfinished(t)}
    PROVE  /\ CopyOf(S) \in [Tasks -> Copies]
           /\ \A t \in Tasks : CopyOf(S)[t] = NoRow \/ (CopyOf(S)[t] = row[t] /\ row[t].status \in Active)
BY RowTypes DEF TypeOK, CopyOf, Unfinished

-----------------------------------------------------------------------------
(* Types and copies. *)
LEMMA InitTypes == Init => TypeOK /\ Copied
<1> SUFFICES ASSUME Init PROVE TypeOK /\ Copied
  OBVIOUS
<1>1. row \in [Tasks -> Rows]
  BY RowTypes DEF Init, Statuses, Active, Amounts
<1>2. Idle \in PassRecords /\ Idle.job = NoJob /\ \A t \in Tasks : Idle.copy[t] = NoRow
  BY RowTypes, JobTypes DEF Idle, NoCopy, PassRecords
<1>3. NoFetch \in [task : Tasks \union {NoTask}, copy : Rows]
  BY RowTypes DEF NoFetch
<1>4. TypeOK
  BY <1>1, <1>2, <1>3, TaskPollingAssumption DEF Init, TypeOK, PassRecords, Ended
<1>5. Copied
  BY <1>2, RowTypes, JobTypes DEF Init, Copied
<1> QED
  BY <1>4, <1>5

(* The part of Copied about a pass alone. *)
JobOK(r) ==
    /\ r.job.step # "none" => r.job.task \in Tasks /\ row[r.job.task] # NoRow
    /\ r.job.step = "none" => r.job = NoJob
    /\ r.job.step = "write" => r.job.answer \in {"IN_PROGRESS"} \union Ended /\ r.copy[r.job.task] # NoRow

(* A step of a pass that drops copies or takes them from the rows. *)
LEMMA PassKeepsCopied ==
    ASSUME Copied, NEW p \in Passes,
           \A q \in Passes : q # p => pass'[q] = pass[q],
           JobOK(pass'[p]),
           \A t \in Tasks : pass'[p].copy[t] \in {pass[p].copy[t], row[t], NoRow},
           \A t \in Tasks : row'[t] = NoRow <=> row[t] = NoRow,
           UNCHANGED <<up, kind, fetch>>
    PROVE  Copied'
<1>1. ASSUME NEW q \in Passes PROVE JobOK(pass'[q])
  BY DEF Copied, JobOK
<1>2. ASSUME NEW t \in Tasks
      PROVE  /\ row'[t] # NoRow => up'[t] \in {"IN_PROGRESS"} \union Ended
             /\ row'[t] = NoRow => \A q \in Passes : pass'[q].copy[t] = NoRow
  BY DEF Copied
<1>3. ASSUME NEW f \in Fetchers, fetch'[f] # NoFetch
      PROVE  fetch'[f].task \in Tasks /\ kind'[fetch'[f].task] = "realtime" /\ row'[fetch'[f].task] # NoRow
  BY <1>3 DEF Copied
<1> QED
  BY <1>1, <1>2, <1>3 DEF Copied, JobOK

(* A pass changes its job only. *)
LEMMA JobFacts ==
    ASSUME TypeOK, NEW p \in Passes, NEW j \in Jobs, pass' = [pass EXCEPT ![p].job = j]
    PROVE  /\ pass' \in [Passes -> PassRecords]
           /\ \A q \in Passes : q # p => pass'[q] = pass[q]
           /\ pass'[p].job = j
           /\ \A u \in Tasks : pass'[p].copy[u] = pass[p].copy[u]
BY DEF TypeOK, PassRecords

(* A billing step moves the job of one pass on and keeps what it is about. *)
LEMMA StepFacts ==
    ASSUME TypeOK, NEW p \in Passes, NEW s \in BillingSteps, GoTo(p, s)
    PROVE  /\ pass' \in [Passes -> PassRecords]
           /\ \A q \in Passes : q # p => pass'[q] = pass[q]
           /\ \A u \in Tasks : pass'[p].copy[u] = pass[p].copy[u]
           /\ pass'[p].job.step = s /\ pass'[p].job.task = pass[p].job.task
           /\ pass'[p].job.from = pass[p].job.from /\ pass'[p].job.to = pass[p].job.to
<1>1. pass \in [Passes -> PassRecords] /\ pass[p].job \in Jobs
  BY DEF TypeOK, PassRecords
<1>2. [pass[p].job EXCEPT !.step = s] \in Jobs
  BY <1>1 DEF Jobs, BillingSteps
<1>3. pass' = [pass EXCEPT ![p].job = [pass[p].job EXCEPT !.step = s]]
  BY <1>1 DEF GoTo, PassRecords
<1>4. pass'[p].job = [pass[p].job EXCEPT !.step = s]
  BY <1>2, <1>3, JobFacts
<1>5. /\ pass'[p].job.step = s /\ pass'[p].job.task = pass[p].job.task
      /\ pass'[p].job.from = pass[p].job.from /\ pass'[p].job.to = pass[p].job.to
  BY <1>1, <1>4 DEF Jobs
<1> QED
  BY <1>2, <1>3, <1>5, JobFacts

(* A pass that becomes idle has no job and no copies. *)
LEMMA IdleFacts ==
    ASSUME TypeOK, NEW p \in Passes, pass' = [pass EXCEPT ![p] = Idle]
    PROVE  /\ pass' \in [Passes -> PassRecords]
           /\ \A q \in Passes : q # p => pass'[q] = pass[q]
           /\ pass'[p].job = NoJob
           /\ \A u \in Tasks : pass'[p].copy[u] = NoRow
<1>1. Idle \in PassRecords /\ Idle.job = NoJob /\ \A t \in Tasks : Idle.copy[t] = NoRow
  BY RowTypes, JobTypes DEF Idle, NoCopy, PassRecords
<1> QED
  BY <1>1 DEF TypeOK, PassRecords

(* A pass that lists rows has no job, and copies equal to the rows. *)
LEMMA ListFacts ==
    ASSUME TypeOK, NEW p \in Passes, NEW S \in SUBSET {t \in Tasks : Unfinished(t)}, NEW a \in {"sweep", "poll"},
           pass' = [pass EXCEPT ![p] = [at |-> a, copy |-> CopyOf(S), job |-> NoJob]]
    PROVE  /\ pass' \in [Passes -> PassRecords]
           /\ \A q \in Passes : q # p => pass'[q] = pass[q]
           /\ pass'[p].job = NoJob
           /\ \A u \in Tasks : pass'[p].copy[u] = NoRow \/ (pass'[p].copy[u] = row[u] /\ row[u].status \in Active)
<1>1. [at |-> a, copy |-> CopyOf(S), job |-> NoJob] \in PassRecords
  BY CopyOfType, JobTypes DEF PassRecords
<1> QED
  BY <1>1, CopyOfType DEF TypeOK, PassRecords

-----------------------------------------------------------------------------
(* The accounts. *)

(* Accounts that do not change are booked the same. *)
LEMMA SameBooked ==
    ASSUME NEW u \in Tasks, source' = source, paid'[u] = paid[u], wallet'[u] = wallet[u]
    PROVE  Booked(u)' = Booked(u) /\ (Known(u)' <=> Known(u))
BY DEF Booked, Known

(* A step that neither changes the row or an account of u nor begins or    *)
(* ends a correction of u.                                                 *)
LEMMA BookFrame ==
    ASSUME NEW u \in Tasks, BookOf(u),
           row'[u] = row[u], paid'[u] = paid[u], wallet'[u] = wallet[u], key'[u] = key[u], used'[u] = used[u],
           source' = source, legacy' = legacy, up[u] = "none" <=> up'[u] = "none", lost[u] => lost'[u],
           faults' = 0 => faults = 0, crashes' = 0 => crashes = 0,
           \A p \in Passes :
              \/ pass'[p].copy[u] \in {pass[p].copy[u], NoRow}
              \/ pass'[p].copy[u] = row[u] /\ row[u].status \in Active,
           \A p \in Passes : At(p, u)' <=> At(p, u),
           \A p \in Passes : At(p, u) => pass'[p].job = pass[p].job
    PROVE  BookOf(u)'
<1>1. Booked(u)' = Booked(u) /\ (Known(u)' <=> Known(u))
  BY SameBooked
<1>2. \A q : Charged(u, q)' <=> Charged(u, q)
  BY <1>1 DEF Charged
<1>3. \A p \in Passes : At(p, u)' => Corrected(p, u)'
  BY <1>1 DEF BookOf, Corrected
<1>4. Smooth(u)' => Smooth(u)
  BY DEF Smooth
<1>5. \A p \in Passes : pass'[p].copy[u] # NoRow => pass'[p].copy[u].quota = Price
  BY DEF BookOf
<1>6. \A p \in Passes : At(p, u) => (Onward(p, u)' <=> Onward(p, u))
  BY DEF Onward
<1>7. ASSUME Smooth(u)'
      PROVE  \/ Charged(u, row[u].quota)' /\ (row'[u].status = "FAILURE" => row'[u].quota = 0) /\ \A p \in Passes : ~At(p, u)'
             \/ \E p \in Passes : At(p, u)' /\ Onward(p, u)'
  BY <1>1, <1>4, <1>6, <1>7 DEF BookOf, Charged
<1>8. Apart(u)'
  BY <1>1 DEF BookOf, Apart
<1> QED
  BY <1>1, <1>2, <1>3, <1>5, <1>7, <1>8 DEF BookOf

(* A step of pass p whose job is, before and after it, no correction. *)
LEMMA BooksFrame ==
    ASSUME Books, NEW p \in Passes,
           \A q \in Passes : q # p => pass'[q] = pass[q],
           pass[p].job.step \notin BillingSteps, pass'[p].job.step \notin BillingSteps,
           \A u \in Tasks :
              \/ pass'[p].copy[u] \in {pass[p].copy[u], NoRow}
              \/ pass'[p].copy[u] = row[u] /\ row[u].status \in Active,
           UNCHANGED <<row, ledger, world, crashes>>, faults' = 0 => faults = 0
    PROVE  Books'
<1> SUFFICES ASSUME NEW u \in Tasks, kind'[u] # "realtime" PROVE BookOf(u)'
  BY DEF Books
<1>1. BookOf(u)
  BY DEF Books, world
<1>2. \A q \in Passes : (At(q, u)' <=> At(q, u)) /\ (At(q, u) => pass'[q].job = pass[q].job)
  BY DEF At
<1> QED
  BY <1>1, <1>2, BookFrame DEF ledger, world

(* Its types follow from those of what it changes. *)
LEMMA PassTypes ==
    ASSUME TypeOK, pass' \in [Passes -> PassRecords], row' \in [Tasks -> Rows],
           paid' \in [Tasks -> Int], wallet' \in [Tasks -> Int], key' \in [Tasks -> Int], used' \in [Tasks -> Int],
           UNCHANGED <<world, fetch, fetches>>, faults' \in 0..MaxFaults, crashes' \in 0..MaxCrashes
    PROVE  TypeOK'
BY DEF TypeOK, PassRecords, world

(* A fault is counted, and the count is not 0 afterwards. *)
LEMMA FaultType ==
    ASSUME TypeOK, Fault
    PROVE  faults' \in 0..MaxFaults /\ faults' # 0
BY TaskPollingAssumption DEF Fault, TypeOK

-----------------------------------------------------------------------------
(* The sweep lists the rows that timed out: it touches no account. *)
LEMMA StartKeeps ==
    ASSUME IInv, NEW p \in Passes, Start(p)
    PROVE  IInv'
<1> DEFINE S == {t \in Tasks : TimedOut(t)}
<1>1. S \in SUBSET {t \in Tasks : Unfinished(t)}
  BY DEF TimedOut
<1>2. pass' = [pass EXCEPT ![p] = [at |-> "sweep", copy |-> CopyOf(S), job |-> NoJob]]
  BY DEF Start
<1> HIDE DEF S
<1>3. /\ pass' \in [Passes -> PassRecords] /\ \A q \in Passes : q # p => pass'[q] = pass[q]
      /\ pass'[p].job = NoJob
      /\ \A u \in Tasks : pass'[p].copy[u] = NoRow \/ (pass'[p].copy[u] = row[u] /\ row[u].status \in Active)
  BY <1>1, <1>2, ListFacts DEF IInv
<1>4. pass[p].job = NoJob
  BY DEF Start, Idle
<1>5. TypeOK'
  BY <1>3, PassTypes DEF IInv, Start, TypeOK, ledger, bounds
<1>6. Copied'
  BY <1>3, JobTypes, PassKeepsCopied DEF IInv, Start, JobOK, world
<1>7. Books'
  BY <1>3, <1>4, JobTypes, BooksFrame DEF IInv, Start, BillingSteps, bounds
<1> QED
  BY <1>5, <1>6, <1>7 DEF IInv

(* The poll lists the unfinished rows: it touches no account. *)
LEMMA ListKeeps ==
    ASSUME IInv, NEW p \in Passes, List(p)
    PROVE  IInv'
<1> DEFINE S == {t \in Tasks : Unfinished(t)}
<1>1. pass' = [pass EXCEPT ![p] = [at |-> "poll", copy |-> CopyOf(S), job |-> NoJob]]
  BY DEF List
<1>2. S \in SUBSET {t \in Tasks : Unfinished(t)}
  OBVIOUS
<1> HIDE DEF S
<1>3. /\ pass' \in [Passes -> PassRecords] /\ \A q \in Passes : q # p => pass'[q] = pass[q]
      /\ pass'[p].job = NoJob
      /\ \A u \in Tasks : pass'[p].copy[u] = NoRow \/ (pass'[p].copy[u] = row[u] /\ row[u].status \in Active)
  BY <1>1, <1>2, ListFacts DEF IInv
<1>4. TypeOK'
  BY <1>3, PassTypes DEF IInv, List, TypeOK, ledger, bounds
<1>5. Copied'
  BY <1>3, JobTypes, PassKeepsCopied DEF IInv, List, JobOK, world
<1>6. Books'
  BY <1>3, JobTypes, BooksFrame DEF IInv, List, BillingSteps, bounds
<1> QED
  BY <1>4, <1>5, <1>6 DEF IInv

(* A pass that is cancelled between two tasks owes nothing. *)
LEMMA CancelKeeps ==
    ASSUME IInv, NEW p \in Passes, Cancel(p)
    PROVE  IInv'
<1>1. /\ pass' \in [Passes -> PassRecords] /\ \A q \in Passes : q # p => pass'[q] = pass[q]
      /\ pass'[p].job = NoJob
      /\ \A u \in Tasks : pass'[p].copy[u] = NoRow
  BY IdleFacts DEF IInv, Cancel
<1>2. TypeOK'
  BY <1>1, PassTypes DEF IInv, Cancel, TypeOK, ledger, bounds
<1>3. Copied'
  BY <1>1, JobTypes, PassKeepsCopied DEF IInv, Cancel, JobOK, world
<1>4. Books'
  BY <1>1, JobTypes, BooksFrame DEF IInv, Cancel, BillingSteps, bounds
<1> QED
  BY <1>2, <1>3, <1>4 DEF IInv

(* The answer of the provider is held in the pass until it is written. *)
LEMMA FetchTaskKeeps ==
    ASSUME IInv, NEW p \in Passes, NEW t \in Tasks, FetchTask(p, t)
    PROVE  IInv'
<1>1. pass[p].job = NoJob /\ pass[p].copy[t] # NoRow /\ row[t] # NoRow
  BY DEF FetchTask, Polling, Todo, IInv, Copied
<1>2. PICK a \in Answers(t) : pass' = [pass EXCEPT ![p].job = Writing(t, a)]
  BY DEF FetchTask
<1> DEFINE j == Writing(t, a)
<1>3. /\ j \in Jobs /\ j.step = "write" /\ j.task = t /\ j.answer \in {"IN_PROGRESS"} \union Ended
      /\ pass' = [pass EXCEPT ![p].job = j]
  BY <1>1, <1>2, JobTypes DEF Answers, IInv, Copied, Ended
<1> HIDE DEF j
<1>4. /\ pass' \in [Passes -> PassRecords] /\ \A q \in Passes : q # p => pass'[q] = pass[q]
      /\ pass'[p].job = j
      /\ \A u \in Tasks : pass'[p].copy[u] = pass[p].copy[u]
  BY <1>3, JobFacts DEF IInv
<1>5. TypeOK'
  BY <1>4, PassTypes DEF IInv, FetchTask, TypeOK, ledger, bounds
<1>6. Copied'
  BY <1>1, <1>3, <1>4, PassKeepsCopied DEF IInv, FetchTask, JobOK, world
<1>7. Books'
  BY <1>1, <1>3, <1>4, JobTypes, BooksFrame DEF IInv, FetchTask, BillingSteps, bounds
<1> QED
  BY <1>5, <1>6, <1>7 DEF IInv

(* A pass leaves a task without having written anything. *)
LEMMA LeaveKeeps ==
    ASSUME IInv, NEW p \in Passes, NEW t \in Tasks, Leave(p, t, NoJob), pass[p].job.step \notin BillingSteps,
           UNCHANGED <<row, world, ledger, fetch, fetches, crashes>>,
           faults' \in 0..MaxFaults, faults' = 0 => faults = 0
    PROVE  IInv'
<1>1. /\ pass' \in [Passes -> PassRecords] /\ \A q \in Passes : q # p => pass'[q] = pass[q]
      /\ pass'[p].job = NoJob
      /\ \A u \in Tasks : pass'[p].copy[u] = IF u = t THEN NoRow ELSE pass[p].copy[u]
  BY JobTypes, LeaveFacts DEF IInv
<1>2. TypeOK'
  BY <1>1, PassTypes DEF IInv, TypeOK, ledger
<1>3. Copied'
  BY <1>1, JobTypes, PassKeepsCopied DEF IInv, JobOK, world
<1>4. Books'
  BY <1>1, JobTypes, BooksFrame DEF IInv, BillingSteps
<1> QED
  BY <1>2, <1>3, <1>4 DEF IInv

(* A task whose provider cannot be asked is left for the next pass. *)
LEMMA FetchFailsKeeps ==
    ASSUME IInv, NEW p \in Passes, NEW t \in Tasks, FetchFails(p, t)
    PROVE  IInv'
BY JobTypes, LeaveKeeps DEF FetchFails, Polling, BillingSteps, bounds, IInv, TypeOK

(* What the winner of an update that writes status a and quota q does next. *)
Correction(p, t, a, q, j) ==
    /\ q = pass[p].copy[t].quota \/ (legacy[t] /\ a = "FAILURE")
    /\ \/ j = NoJob /\ (a = "FAILURE" => q = 0 \/ legacy[t])
       \/ \E c \in Amounts : j = Billing(t, q, c) /\ a \in Ended /\ (a = "FAILURE" => c = 0) /\ q = pass[p].copy[t].quota

(* The winner of an update of an unfinished row: it has the copy of the    *)
(* row, writes a final status and begins its correction, or none.          *)
LEMMA WonKeeps ==
    ASSUME IInv, NEW p \in Passes, NEW t \in Tasks, NEW j \in Jobs, Leave(p, t, j),
           NEW a \in {"IN_PROGRESS"} \union Ended, NEW q \in Amounts,
           pass[p].copy[t] # NoRow, Won(t, pass[p].copy[t]), pass[p].job.step \notin BillingSteps,
           row' = [row EXCEPT ![t] = Row(a, q)],
           Correction(p, t, a, q, j),
           UNCHANGED <<world, ledger, fetch, fetches, faults, crashes>>
    PROVE  IInv'
<1> USE DEF IInv
<1>1. /\ pass' \in [Passes -> PassRecords] /\ \A r \in Passes : r # p => pass'[r] = pass[r]
      /\ pass'[p].job = j
      /\ \A u \in Tasks : pass'[p].copy[u] = IF u = t THEN NoRow ELSE pass[p].copy[u]
  BY LeaveFacts
<1>2. pass[p].copy[t] \in Copies /\ row[t] \in Rows /\ row[t].status \in Active /\ row[t] # NoRow
  BY RowTypes DEF Won, TypeOK
<1>3. row' \in [Tasks -> Rows] /\ row'[t] = Row(a, q) /\ row'[t] # NoRow
      /\ row'[t].status = a /\ row'[t].quota = q
  BY RowTypes DEF TypeOK, Row, NoRow, Statuses, Active, Ended
<1>4. TypeOK'
  BY <1>1, <1>3, PassTypes DEF TypeOK, ledger
<1>5. \/ j.step = "none" /\ j = NoJob
      \/ j.step = "fund" /\ j.task = t /\ a \in Ended /\ j.from = q /\ q = pass[p].copy[t].quota
         /\ (a = "FAILURE" => j.to = 0)
  BY JobTypes DEF Correction
<1>6. Copied'
  BY <1>1, <1>2, <1>3, <1>5, PassKeepsCopied DEF JobOK, world
<1>7. ASSUME NEW u \in Tasks, u # t, kind[u] # "realtime" PROVE BookOf(u)'
  <2>1. BookOf(u) /\ row'[u] = row[u]
    BY <1>7 DEF Books, TypeOK
  <2>2. \A r \in Passes : (At(r, u)' <=> At(r, u)) /\ (At(r, u) => pass'[r].job = pass[r].job)
    BY <1>1, <1>5, <1>7 DEF At, BillingSteps
  <2>3. \A r \in Passes : pass'[r].copy[u] \in {pass[r].copy[u], NoRow}
    BY <1>1
  <2> QED
    BY <2>1, <2>2, <2>3, BookFrame DEF ledger, world
<1>8. ASSUME kind[t] # "realtime" PROVE BookOf(t)'
  <2>1. BookOf(t)
    BY <1>8 DEF Books
  <2>2. Booked(t)' = Booked(t) /\ (Known(t)' <=> Known(t)) /\ Apart(t)'
    <3>1. Booked(t)' = Booked(t) /\ (Known(t)' <=> Known(t))
      BY SameBooked DEF ledger, world
    <3> QED
      BY <2>1, <3>1 DEF BookOf, Apart, ledger, world
  <2>3. /\ row[t].quota = Price /\ pass[p].copy[t].quota = Price /\ Charged(t, Price)'
        /\ Booked(t)' \in Nat /\ key'[t] \in Nat /\ used'[t] \in Nat
    BY <1>2, <2>1, <2>2 DEF BookOf, Charged, ledger
  <2>4. \A r \in Passes : ~At(r, t) /\ (At(r, t)' <=> r = p /\ j.step = "fund")
    <3>1. \A r \in Passes : ~At(r, t)
      BY <1>2, <2>1 DEF BookOf, Active, Ended
    <3> QED
      BY <1>1, <1>5, <3>1 DEF At, BillingSteps
  <2>5. \A r \in Passes : pass'[r].copy[t] # NoRow => pass'[r].copy[t].quota = Price
    BY <1>1, <2>1 DEF BookOf
  <2>6. ~legacy'[t] => q = Price
    BY <2>3 DEF Correction, world
  <2>7. \A r \in Passes : At(r, t)' => Corrected(r, t)'
    BY <1>1, <1>3, <1>5, <2>3, <2>4, <2>6 DEF Corrected, Charged
  <2>8. Price # 0
    BY TaskPollingAssumption
  <2>9. Smooth(t)' => a \in Ended /\ q = Price
    BY <1>3, <2>3 DEF Correction, Smooth, world
  <2>10. Smooth(t)' =>
          \/ Charged(t, row[t].quota)' /\ (row'[t].status = "FAILURE" => row'[t].quota = 0) /\ \A r \in Passes : ~At(r, t)'
          \/ \E r \in Passes : At(r, t)' /\ Onward(r, t)'
    <3>1. CASE j.step = "fund"
      BY <1>1, <1>3, <1>5, <2>4, <3>1 DEF Onward
    <3>2. CASE j = NoJob
      <4>1. Smooth(t)' => a # "FAILURE"
        BY <1>3, <2>8, <2>9, <3>2, JobTypes DEF Correction, Smooth, world
      <4> QED
        BY <1>3, <2>3, <2>4, <2>9, <3>2, <4>1, JobTypes DEF Charged
    <3> QED
      BY <1>5, <3>1, <3>2
  <2>11. a \notin Ended => q = Price /\ \A r \in Passes : ~At(r, t)'
    BY <1>5, <2>3, <2>4 DEF Correction, Ended
  <2>12. a \in Active => q = Price
    BY <2>11 DEF Active, Ended
  <2> QED
    BY <1>3, <2>3, <2>4, <2>5, <2>7, <2>10, <2>11, <2>12, <2>2, <2>6 DEF BookOf
<1> QED
  BY <1>4, <1>6, <1>7, <1>8 DEF Books, world

(* The sweep ends a task with a compare-and-swap; its winner alone has the refund to make. *)
LEMMA SweepTaskKeeps ==
    ASSUME IInv, NEW p \in Passes, NEW t \in Tasks, SweepTask(p, t)
    PROVE  IInv'
<1> DEFINE copy == pass[p].copy[t]
           q    == SweptQuota(t, copy)
           j    == IF ~legacy[t] /\ q # 0 THEN Billing(t, q, 0) ELSE NoJob
<1>1. /\ pass[p].job = NoJob /\ copy # NoRow /\ copy \in Copies
      /\ UNCHANGED <<world, ledger, fetch, fetches, crashes>>
  BY DEF SweepTask, Todo, IInv, TypeOK
<1>2. CASE Fault /\ Leave(p, t, NoJob) /\ UNCHANGED row
  BY <1>1, <1>2, JobTypes, FaultType, LeaveKeeps DEF BillingSteps, IInv
<1>3. CASE ~Won(t, copy) /\ Leave(p, t, NoJob) /\ UNCHANGED <<row, faults>>
  BY <1>1, <1>3, JobTypes, LeaveKeeps DEF BillingSteps, IInv, TypeOK
<1>4. CASE Won(t, copy) /\ row' = [row EXCEPT ![t] = Row("FAILURE", q)] /\ Leave(p, t, j) /\ UNCHANGED faults
  <2>1. q \in Amounts /\ 0 \in Amounts /\ (q = copy.quota \/ legacy[t])
    BY <1>1, RowTypes DEF SweptQuota, Amounts
  <2>2. j \in Jobs
    BY <2>1, JobTypes
  <2>3. "FAILURE" \in {"IN_PROGRESS"} \union Ended /\ "FAILURE" \in Ended
    BY DEF Ended
  <2>4. Correction(p, t, "FAILURE", q, j)
    BY <2>1, <2>3 DEF Correction
  <2>5. pass[p].job.step \notin BillingSteps
    BY <1>1, JobTypes DEF BillingSteps
  <2>6. Won(t, copy) /\ row' = [row EXCEPT ![t] = Row("FAILURE", q)] /\ Leave(p, t, j)
    BY <1>4
  <2>7. UNCHANGED <<world, ledger, fetch, fetches, faults, crashes>>
    BY <1>1, <1>4
  <2> HIDE DEF q, j
  <2> QED
    BY <1>1, <2>1, <2>2, <2>3, <2>4, <2>5, <2>6, <2>7, WonKeeps
<1> QED
  BY <1>2, <1>3, <1>4 DEF SweepTask

(* The poller writes the answer with a compare-and-swap; its winner alone has the correction to make. *)
LEMMA WriteKeeps ==
    ASSUME IInv, NEW p \in Passes, Write(p)
    PROVE  IInv'
<1> DEFINE job  == pass[p].job
           t    == job.task
           copy == pass[p].copy[t]
<1>1. /\ job.step = "write" /\ t \in Tasks /\ copy # NoRow /\ copy \in Copies
      /\ job.answer \in {"IN_PROGRESS"} \union Ended
      /\ UNCHANGED <<world, ledger, fetch, fetches, crashes>>
  BY DEF Write, IInv, Copied, TypeOK
<1>2. job.step \notin BillingSteps
  BY <1>1 DEF BillingSteps
<1>3. CASE Fault /\ Leave(p, t, NoJob) /\ UNCHANGED row
  BY <1>1, <1>2, <1>3, FaultType, LeaveKeeps DEF IInv
<1>4. CASE Leave(p, t, NoJob) /\ UNCHANGED <<row, faults>>
  BY <1>1, <1>2, <1>4, LeaveKeeps DEF IInv, TypeOK
<1>5. ASSUME Won(t, copy), row' = [row EXCEPT ![t] = Row(job.answer, copy.quota)],
             NEW j \in Corrections(t, job.answer, copy.quota), Leave(p, t, j), UNCHANGED faults
      PROVE  IInv'
  <2>1. copy.quota \in Amounts
    BY <1>1, RowTypes
  <2>2. \/ j = NoJob /\ (job.answer = "FAILURE" => copy.quota = 0)
        \/ \E c \in Amounts : j = Billing(t, copy.quota, c) /\ job.answer \in Ended /\ (job.answer = "FAILURE" => c = 0)
    BY <1>1, <1>5, <2>1, CorrectionTypes
  <2>3. j \in Jobs
    BY <1>1, <2>1, <2>2, JobTypes
  <2>4. Correction(p, t, job.answer, copy.quota, j)
    BY <2>2 DEF Correction
  <2>5. UNCHANGED <<world, ledger, fetch, fetches, faults, crashes>>
    BY <1>1, <1>5
  <2> QED
    BY <1>1, <1>2, <1>5, <2>1, <2>3, <2>4, <2>5, WonKeeps
<1> QED
  BY <1>3, <1>4, <1>5 DEF Write

(* TaskBulkUpdateByID ends a task of a channel that is lost or cannot be   *)
(* read, finished or not, and leaves the quota.                            *)
LEMMA BulkFailKeeps ==
    ASSUME IInv, NEW p \in Passes, NEW t \in Tasks, BulkFail(p, t)
    PROVE  IInv'
<1> USE DEF IInv
<1>1. /\ pass[p].job = NoJob /\ pass[p].copy[t] # NoRow /\ Leave(p, t, NoJob) /\ row[t] # NoRow
      /\ UNCHANGED <<world, ledger, fetch, fetches, crashes>>
  BY DEF BulkFail, Polling, Todo, Copied
<1>2. CASE Fault /\ UNCHANGED row
  BY <1>1, <1>2, JobTypes, FaultType, LeaveKeeps DEF BillingSteps
<1>3. CASE row' = [row EXCEPT ![t].status = "FAILURE"] /\ IF lost[t] THEN UNCHANGED faults ELSE Fault
  <2>1. faults' \in 0..MaxFaults /\ (faults' = 0 => faults = 0) /\ (faults' # 0 \/ lost[t])
    BY <1>3, FaultType DEF TypeOK
  <2>2. /\ pass' \in [Passes -> PassRecords] /\ \A r \in Passes : r # p => pass'[r] = pass[r]
        /\ pass'[p].job = NoJob
        /\ \A u \in Tasks : pass'[p].copy[u] = IF u = t THEN NoRow ELSE pass[p].copy[u]
    BY <1>1, JobTypes, LeaveFacts
  <2>3. row[t] \in Rows /\ row[t].status \in Statuses /\ row[t].quota \in Amounts /\ row[t] = Row(row[t].status, row[t].quota)
    BY <1>1, RowTypes DEF TypeOK
  <2>4. row' = [row EXCEPT ![t] = Row("FAILURE", row[t].quota)]
    <3>1. [row[t] EXCEPT !.status = "FAILURE"] = Row("FAILURE", row[t].quota)
      BY <2>3 DEF Row
    <3> QED
      BY <1>3, <3>1
  <2>5. /\ row' \in [Tasks -> Rows] /\ row'[t] # NoRow
        /\ row'[t].status = "FAILURE" /\ row'[t].quota = row[t].quota
        /\ \A u \in Tasks : u # t => row'[u] = row[u]
    BY <2>3, <2>4, RowTypes DEF TypeOK, Row, NoRow, Statuses, Ended
  <2>6. TypeOK'
    BY <1>1, <2>1, <2>2, <2>5, PassTypes DEF TypeOK, ledger
  <2>7. Copied'
    BY <1>1, <2>2, <2>5, JobTypes, PassKeepsCopied DEF JobOK, world
  <2>8. \A u \in Tasks, r \in Passes :
           /\ (At(r, u)' <=> At(r, u)) /\ (At(r, u) => pass'[r].job = pass[r].job)
           /\ pass'[r].copy[u] \in {pass[r].copy[u], NoRow}
    BY <1>1, <2>2, JobTypes DEF At, BillingSteps
  <2>9. ASSUME NEW u \in Tasks, u # t, kind[u] # "realtime" PROVE BookOf(u)'
    BY <1>1, <2>1, <2>5, <2>8, <2>9, BookFrame DEF Books, ledger, world
  <2>10. ASSUME kind[t] # "realtime" PROVE BookOf(t)'
    <3>1. BookOf(t)
      BY <2>10 DEF Books
    <3>2. ~Smooth(t)'
      BY <1>1, <2>1 DEF Smooth, world
    <3>3. Booked(t)' = Booked(t) /\ (Known(t)' <=> Known(t)) /\ Apart(t)'
      <4>1. Booked(t)' = Booked(t) /\ (Known(t)' <=> Known(t))
        BY <1>1, SameBooked DEF ledger, world
      <4> QED
        BY <1>1, <3>1, <4>1 DEF BookOf, Apart, ledger, world
    <3>4. ~legacy[t] => row[t].quota = Price \/ row[t].quota = Booked(t)
      BY <2>3, <3>1 DEF BookOf, Statuses
    <3>5. \A r \in Passes : At(r, t)' => Corrected(r, t)'
      BY <1>1, <2>5, <2>8, <3>1, <3>3 DEF BookOf, Corrected, ledger, world
    <3>6. "FAILURE" \in Ended /\ "FAILURE" \notin Active
      BY DEF Ended, Active
    <3> QED
      BY <1>1, <2>5, <2>8, <3>1, <3>2, <3>3, <3>5, <3>6, <3>4 DEF BookOf, ledger, world
  <2> QED
    BY <1>1, <2>6, <2>7, <2>9, <2>10 DEF Books, world
<1> QED
  BY <1>2, <1>3 DEF BulkFail

-----------------------------------------------------------------------------
(* What holds while pass p corrects the payment of a task. *)
LEMMA CorrectorFacts ==
    ASSUME IInv, NEW p \in Passes, NEW t, t = pass[p].job.task, pass[p].job.step \in BillingSteps
    PROVE  /\ t \in Tasks /\ pass[p].job.from \in Nat /\ pass[p].job.to \in Nat /\ pass[p].job.to \in Amounts
           /\ row[t].status \in Ended \/ kind[t] = "realtime"
           /\ \A u \in Tasks : u # t => ~At(p, u)
           /\ kind[t] # "realtime" =>
                /\ BookOf(t) /\ Corrected(p, t)
                /\ \A r \in Passes : At(r, t) <=> r = p
                /\ Smooth(t) => Onward(p, t)
<1>1. t \in Tasks /\ At(p, t) /\ \A u \in Tasks : u # t => ~At(p, u)
  BY DEF IInv, Copied, At, BillingSteps
<1>2. pass[p].job \in Jobs
  BY DEF IInv, TypeOK
<1>3. pass[p].job.from \in Nat /\ pass[p].job.to \in Nat /\ pass[p].job.to \in Amounts
  <2>1. pass[p].job.from \in Amounts /\ pass[p].job.to \in Amounts
    BY <1>2 DEF Jobs
  <2>2. Amounts \subseteq Nat
    BY TaskPollingAssumption DEF Amounts
  <2> QED
    BY <2>1, <2>2
<1>4. ASSUME kind[t] # "realtime"
      PROVE  /\ BookOf(t) /\ Corrected(p, t) /\ row[t].status \in Ended
             /\ \A r \in Passes : At(r, t) <=> r = p
  BY <1>1, <1>4 DEF IInv, Books, BookOf
<1>5. ASSUME kind[t] # "realtime", Smooth(t)
      PROVE  Onward(p, t)
  BY <1>1, <1>4, <1>5 DEF BookOf
<1> QED
  BY <1>1, <1>3, <1>4, <1>5

(* A pass drops its job, after an error or in a crash. *)
LEMMA DropKeeps ==
    ASSUME IInv, NEW p \in Passes,
           pass' \in [Passes -> PassRecords], \A q \in Passes : q # p => pass'[q] = pass[q],
           pass'[p].job = NoJob, \A u \in Tasks : pass'[p].copy[u] \in {pass[p].copy[u], NoRow},
           UNCHANGED <<row, world, ledger, fetch, fetches>>,
           faults' \in 0..MaxFaults, crashes' \in 0..MaxCrashes, faults' # 0 \/ crashes' # 0
    PROVE  IInv'
<1> USE DEF IInv
<1>1. TypeOK'
  BY PassTypes DEF TypeOK, ledger
<1>2. Copied'
  BY JobTypes, PassKeepsCopied DEF JobOK, world
<1>3. ASSUME NEW u \in Tasks, kind[u] # "realtime" PROVE BookOf(u)'
  <2>1. BookOf(u) /\ ~Smooth(u)'
    BY <1>3 DEF Books, Smooth
  <2>2. \A q \in Passes : At(q, u)' => At(q, u) /\ pass'[q].job = pass[q].job
    BY JobTypes DEF At, BillingSteps
  <2>3. Booked(u)' = Booked(u) /\ (Known(u)' <=> Known(u)) /\ Apart(u)'
    <3>1. Booked(u)' = Booked(u) /\ (Known(u)' <=> Known(u))
      BY SameBooked DEF ledger, world
    <3> QED
      BY <2>1, <3>1 DEF BookOf, Apart, ledger, world
  <2>4. \A q \in Passes : At(q, u)' => Corrected(q, u)'
    BY <2>1, <2>2, <2>3 DEF BookOf, Corrected, ledger, world
  <2>5. \A q \in Passes : pass'[q].copy[u] # NoRow => pass'[q].copy[u].quota = Price
    BY <2>1 DEF BookOf
  <2> QED
    BY <2>1, <2>2, <2>4, <2>5, <2>3 DEF BookOf, Charged, ledger, world
<1> QED
  BY <1>1, <1>2, <1>3 DEF Books, world

(* A crash leaves the accounts as they are: from then on only what every crash allows is claimed. *)
LEMMA CrashKeeps ==
    ASSUME IInv, NEW p \in Passes, Crash(p)
    PROVE  IInv'
<1>1. /\ pass' \in [Passes -> PassRecords] /\ \A q \in Passes : q # p => pass'[q] = pass[q]
      /\ pass'[p].job = NoJob /\ \A u \in Tasks : pass'[p].copy[u] = NoRow
  BY IdleFacts DEF IInv, Crash
<1>2. crashes' \in 0..MaxCrashes /\ crashes' # 0 /\ faults' \in 0..MaxFaults
  BY TaskPollingAssumption DEF IInv, TypeOK, Crash
<1> QED
  BY <1>1, <1>2, DropKeeps DEF Crash

(* Finished: the job is done or given up. *)
LEMMA FinishedFacts ==
    ASSUME TypeOK, NEW p \in Passes, Finished(p)
    PROVE  /\ pass' \in [Passes -> PassRecords] /\ \A q \in Passes : q # p => pass'[q] = pass[q]
           /\ pass'[p].job = NoJob /\ \A u \in Tasks : pass'[p].copy[u] = pass[p].copy[u]
BY JobTypes, JobFacts DEF Finished

(* A step of the correction of t leaves the other tasks as they are; what  *)
(* it makes of t is left to the step.                                      *)
LEMMA BillingFrame ==
    ASSUME IInv, NEW p \in Passes, NEW t, t = pass[p].job.task, pass[p].job.step \in BillingSteps,
           pass' \in [Passes -> PassRecords], \A q \in Passes : q # p => pass'[q] = pass[q],
           \A u \in Tasks : pass'[p].copy[u] = pass[p].copy[u],
           JobOK(pass'[p]), pass'[p].job.step \in BillingSteps => pass'[p].job.task = t,
           row' \in [Tasks -> Rows], row'[t] # NoRow,
           paid' \in [Tasks -> Int], wallet' \in [Tasks -> Int], key' \in [Tasks -> Int], used' \in [Tasks -> Int],
           \A u \in Tasks : u # t => /\ row'[u] = row[u] /\ paid'[u] = paid[u] /\ wallet'[u] = wallet[u]
                                     /\ key'[u] = key[u] /\ used'[u] = used[u],
           kind[t] # "realtime" => BookOf(t)',
           UNCHANGED <<world, fetch, fetches, crashes>>, faults' \in 0..MaxFaults, faults' = 0 => faults = 0
    PROVE  IInv'
<1> USE DEF IInv
<1>1. t \in Tasks /\ row[t] # NoRow /\ \A u \in Tasks : u # t => ~At(p, u)
  BY CorrectorFacts DEF Copied, BillingSteps
<1>2. TypeOK'
  BY PassTypes DEF TypeOK
<1>3. Copied'
  BY <1>1, PassKeepsCopied DEF world
<1>4. ASSUME NEW u \in Tasks, u # t, kind[u] # "realtime" PROVE BookOf(u)'
  <2>1. \A q \in Passes : (At(q, u)' <=> At(q, u)) /\ (At(q, u) => pass'[q].job = pass[q].job)
    BY <1>1, <1>4 DEF At
  <2>2. \A q \in Passes : pass'[q].copy[u] = pass[q].copy[u]
    OBVIOUS
  <2> QED
    BY <1>4, <2>1, <2>2, BookFrame DEF Books, world
<1> QED
  BY <1>2, <1>3, <1>4 DEF Books, world

(* The correction goes on to step s: its task is as far as s says. *)
LEMMA GoOnKeeps ==
    ASSUME IInv, NEW p \in Passes, NEW t, t = pass[p].job.task, pass[p].job.step \in BillingSteps,
           NEW s \in BillingSteps, GoTo(p, s),
           row' \in [Tasks -> Rows], row'[t] # NoRow, row'[t].status = row[t].status,
           paid' \in [Tasks -> Int], wallet' \in [Tasks -> Int], key' \in [Tasks -> Int], used' \in [Tasks -> Int],
           \A u \in Tasks : u # t => /\ row'[u] = row[u] /\ paid'[u] = paid[u] /\ wallet'[u] = wallet[u]
                                     /\ key'[u] = key[u] /\ used'[u] = used[u],
           kind[t] # "realtime" =>
              /\ Booked(t)' \in Nat /\ key'[t] \in Nat /\ used'[t] \in Nat
              /\ Apart(t)' /\ Corrected(p, t)' /\ (Smooth(t)' => Onward(p, t)')
              /\ ~legacy[t] => row'[t].quota = Price \/ row'[t].quota = Booked(t)',
           UNCHANGED <<world, fetch, fetches, crashes>>, faults' \in 0..MaxFaults, faults' = 0 => faults = 0
    PROVE  IInv'
<1>1. t \in Tasks /\ row[t] # NoRow
  BY CorrectorFacts DEF IInv, Copied, BillingSteps
<1>2. /\ pass' \in [Passes -> PassRecords] /\ \A q \in Passes : q # p => pass'[q] = pass[q]
      /\ \A u \in Tasks : pass'[p].copy[u] = pass[p].copy[u]
      /\ pass'[p].job.step = s /\ pass'[p].job.task = t
  BY StepFacts DEF IInv
<1>3. JobOK(pass'[p])
  BY <1>1, <1>2 DEF JobOK, BillingSteps
<1>4. ASSUME kind[t] # "realtime" PROVE BookOf(t)'
  <2>1. BookOf(t) /\ row[t].status \in Ended /\ \A r \in Passes : At(r, t) <=> r = p
    BY <1>4, CorrectorFacts
  <2>2. \A r \in Passes : At(r, t)' <=> r = p
    BY <1>2, <2>1 DEF At
  <2>3. row'[t].status \in Ended /\ row'[t].status \notin Active
    BY <2>1 DEF Active, Ended
  <2>4. \A r \in Passes : pass'[r].copy[t] # NoRow => pass'[r].copy[t].quota = Price
    BY <1>1, <1>2, <2>1 DEF BookOf
  <2> QED
    BY <1>4, <2>2, <2>3, <2>4 DEF BookOf, world
<1> QED
  BY <1>2, <1>3, <1>4, BillingFrame

(* The correction is through, and its task is settled. *)
LEMMA EndKeeps ==
    ASSUME IInv, NEW p \in Passes, NEW t, t = pass[p].job.task, pass[p].job.step \in BillingSteps, Finished(p),
           row' \in [Tasks -> Rows], row'[t] # NoRow, row'[t].status = row[t].status,
           used' \in [Tasks -> Int],
           \A u \in Tasks : u # t => row'[u] = row[u] /\ used'[u] = used[u],
           kind[t] # "realtime" =>
              /\ used'[t] \in Nat
              /\ Smooth(t)' => Charged(t, row[t].quota)' /\ (row'[t].status = "FAILURE" => row'[t].quota = 0)
              /\ ~legacy[t] => row'[t].quota = Price \/ row'[t].quota = Booked(t)',
           UNCHANGED <<paid, wallet, key, world, fetch, fetches, crashes>>, faults' \in 0..MaxFaults, faults' = 0 => faults = 0
    PROVE  IInv'
<1>1. t \in Tasks
  BY CorrectorFacts
<1>2. /\ pass' \in [Passes -> PassRecords] /\ \A q \in Passes : q # p => pass'[q] = pass[q]
      /\ \A u \in Tasks : pass'[p].copy[u] = pass[p].copy[u]
      /\ pass'[p].job = NoJob
  BY FinishedFacts DEF IInv
<1>3. JobOK(pass'[p]) /\ pass'[p].job.step \notin BillingSteps
  BY <1>2, JobTypes DEF JobOK, BillingSteps
<1>4. ASSUME kind[t] # "realtime" PROVE BookOf(t)'
  <2>1. BookOf(t) /\ row[t].status \in Ended /\ \A r \in Passes : At(r, t) <=> r = p
    BY <1>4, CorrectorFacts
  <2>2. \A r \in Passes : ~At(r, t)'
    BY <1>2, <1>3, <2>1 DEF At
  <2>3. row'[t].status \in Ended /\ row'[t].status \notin Active
    BY <2>1 DEF Active, Ended
  <2>4. \A r \in Passes : pass'[r].copy[t] # NoRow => pass'[r].copy[t].quota = Price
    BY <1>1, <1>2, <2>1 DEF BookOf
  <2>5. Booked(t)' = Booked(t) /\ (Known(t)' <=> Known(t))
    BY <1>1, SameBooked DEF world
  <2>6. Booked(t)' \in Nat /\ key'[t] \in Nat /\ Apart(t)'
    BY <2>1, <2>5 DEF BookOf, Apart, world
  <2> QED
    BY <1>4, <2>2, <2>3, <2>4, <2>6 DEF BookOf, world
<1>5. /\ paid' \in [Tasks -> Int] /\ wallet' \in [Tasks -> Int] /\ key' \in [Tasks -> Int]
  BY DEF IInv, TypeOK
<1> QED
  BY <1>2, <1>3, <1>4, <1>5, BillingFrame

(* An account is moved by what the correction moves it by. *)
LEMMA MovedBy ==
    ASSUME NEW acc \in [Tasks -> Int], NEW t \in Tasks, NEW d \in Int, NEW new, new = [acc EXCEPT ![t] = @ + d]
    PROVE  new \in [Tasks -> Int] /\ new[t] = acc[t] + d /\ \A u \in Tasks : u # t => new[u] = acc[u]
OBVIOUS

(* What the correction moves by, and what holds of its task at step s. *)
LEMMA AtStep ==
    ASSUME IInv, NEW p \in Passes, NEW t, t = pass[p].job.task, NEW s \in BillingSteps, Step(p, s)
    PROVE  /\ pass[p].job.step = s /\ t \in Tasks /\ row[t] \in Rows /\ row[t] # NoRow
           /\ pass[p].job.to \in Nat /\ pass[p].job.to \in Amounts /\ Delta(p) \in Int
           /\ Price \in Nat /\ faults \in 0..MaxFaults
           /\ kind[t] # "realtime" =>
                /\ BookOf(t) /\ Corrected(p, t) /\ (Smooth(t) => Onward(p, t))
                /\ Delta(p) = pass[p].job.to - Price
<1>1. pass[p].job.step = s
  BY DEF Step
<1>2. /\ t \in Tasks /\ pass[p].job.from \in Nat /\ pass[p].job.to \in Nat /\ pass[p].job.to \in Amounts
      /\ kind[t] # "realtime" => BookOf(t) /\ Corrected(p, t) /\ (Smooth(t) => Onward(p, t))
  BY <1>1, CorrectorFacts
<1>3. row[t] \in Rows /\ row[t] # NoRow /\ faults \in 0..MaxFaults
  BY <1>1, <1>2 DEF IInv, TypeOK, Copied, BillingSteps
<1>4. Delta(p) \in Int /\ (kind[t] # "realtime" => Delta(p) = pass[p].job.to - Price)
  BY <1>2 DEF Delta, Corrected
<1> QED
  BY <1>1, <1>2, <1>3, <1>4, TaskPollingAssumption

(* The first correction of the winner: the source, or the wallet in its    *)
(* place, which may fail.                                                  *)
LEMMA AdjustFundingKeeps ==
    ASSUME IInv, NEW p \in Passes, NEW t, t = pass[p].job.task, AdjustFunding(p)
    PROVE  IInv'
<1> DEFINE b == pass[p].job.to
<1>1. Step(p, "fund") /\ "fund" \in BillingSteps /\ "key" \in BillingSteps
      /\ UNCHANGED <<row, world, key, used, fetch, fetches, crashes>>
  BY DEF AdjustFunding, BillingSteps
<1>2. /\ pass[p].job.step = "fund" /\ t \in Tasks /\ row[t] \in Rows /\ row[t] # NoRow
      /\ b \in Nat /\ Delta(p) \in Int /\ Price \in Nat /\ faults \in 0..MaxFaults
      /\ kind[t] # "realtime" => BookOf(t) /\ Corrected(p, t) /\ (Smooth(t) => Onward(p, t)) /\ Delta(p) = b - Price
  BY <1>1, AtStep
<1>3. CASE Fault /\ Finished(p) /\ UNCHANGED <<paid, wallet>>
  BY <1>1, <1>3, FaultType, FinishedFacts, DropKeeps DEF IInv, TypeOK, ledger
<1>4. ASSUME IF Known(t) THEN paid' = [paid EXCEPT ![t] = @ + Delta(p)] /\ UNCHANGED wallet
             ELSE wallet' = [wallet EXCEPT ![t] = @ + Delta(p)] /\ UNCHANGED paid,
             GoTo(p, "key"), UNCHANGED faults
      PROVE  IInv'
  <2>1. paid \in [Tasks -> Int] /\ wallet \in [Tasks -> Int] /\ key \in [Tasks -> Int] /\ used \in [Tasks -> Int] /\ row \in [Tasks -> Rows]
    BY DEF IInv, TypeOK
  <2>2. /\ paid' \in [Tasks -> Int] /\ wallet' \in [Tasks -> Int]
        /\ \A u \in Tasks : u # t => paid'[u] = paid[u] /\ wallet'[u] = wallet[u]
        /\ Known(t) => paid'[t] = paid[t] + Delta(p) /\ wallet'[t] = wallet[t]
        /\ ~Known(t) => wallet'[t] = wallet[t] + Delta(p) /\ paid'[t] = paid[t]
    BY <1>2, <1>4, <2>1, MovedBy
  <2>3. /\ pass'[p].job.step = "key"
        /\ pass'[p].job.from = pass[p].job.from /\ pass'[p].job.to = b
    BY <1>1, <1>4, StepFacts DEF IInv
  <2>4. Known(t)' <=> Known(t)
    BY <1>1 DEF Known, world
  <2>5. ASSUME kind[t] # "realtime"
        PROVE  /\ Booked(t)' \in Nat /\ key'[t] \in Nat /\ used'[t] \in Nat
               /\ Apart(t)' /\ Corrected(p, t)' /\ (Smooth(t)' => Onward(p, t)')
               /\ ~legacy[t] => row'[t].quota = Price \/ row'[t].quota = Booked(t)'
    <3>1. /\ BookOf(t) /\ Corrected(p, t) /\ (Smooth(t) => Onward(p, t)) /\ Delta(p) = b - Price
          /\ Booked(t) = Price /\ pass[p].job.from = Price /\ key[t] = Price /\ used[t] = Price /\ (~legacy[t] => row[t].quota = Price)
      BY <1>2, <2>5 DEF Corrected
    <3>2. paid[t] \in Int /\ wallet[t] \in Int /\ up[t] # "none" /\ up' = up /\ source' = source /\ legacy' = legacy
      BY <1>1, <1>2, <2>1 DEF IInv, Copied, Ended, world
    <3>3. Booked(t)' = b
      <4>1. CASE Known(t)
        BY <1>2, <2>2, <2>4, <3>1, <3>2, <4>1 DEF Booked
      <4>2. CASE ~Known(t)
        BY <1>2, <2>2, <2>4, <3>1, <3>2, <4>2 DEF Booked
      <4> QED
        BY <4>1, <4>2
    <3>4. Apart(t)'
      <4>1. CASE Known(t)
        <5>1. paid'[t] = b
          BY <2>4, <3>3, <4>1 DEF Booked
        <5> QED
          BY <1>2, <2>2, <2>4, <3>1, <3>2, <4>1, <5>1 DEF BookOf, Apart
      <4>2. CASE ~Known(t)
        BY <2>2, <2>4, <3>1, <3>2, <4>2 DEF BookOf, Apart
      <4> QED
        BY <4>1, <4>2
    <3>5. Corrected(p, t)'
      BY <1>1, <2>3, <3>1, <3>2, <3>3 DEF Corrected
    <3>6. Smooth(t)' => Onward(p, t)'
      <4>1. Smooth(t)' => Smooth(t)
        BY <1>1, <1>4 DEF Smooth, world
      <4> QED
        BY <1>1, <2>3, <3>1, <4>1 DEF Onward
    <3> QED
      BY <1>1, <1>2, <3>1, <3>3, <3>4, <3>5, <3>6
  <2> QED
    BY <1>1, <1>2, <1>4, <2>1, <2>2, <2>5, GoOnKeeps
<1> QED
  BY <1>1, <1>3, <1>4 DEF AdjustFunding

(* The second correction of the winner: the key, which may fail. *)
LEMMA AdjustTokenKeeps ==
    ASSUME IInv, NEW p \in Passes, NEW t, t = pass[p].job.task, AdjustToken(p)
    PROVE  IInv'
<1> DEFINE b == pass[p].job.to
           s == IF Refunding(p) THEN "used" ELSE "quota"
<1>1. Step(p, "key") /\ "key" \in BillingSteps /\ s \in BillingSteps /\ GoTo(p, s)
      /\ UNCHANGED <<row, world, paid, wallet, used, fetch, fetches, crashes>>
  BY DEF AdjustToken, BillingSteps
<1>2. /\ pass[p].job.step = "key" /\ t \in Tasks /\ row[t] \in Rows /\ row[t] # NoRow
      /\ b \in Nat /\ Delta(p) \in Int /\ Price \in Nat /\ faults \in 0..MaxFaults
      /\ kind[t] # "realtime" => BookOf(t) /\ Corrected(p, t) /\ (Smooth(t) => Onward(p, t)) /\ Delta(p) = b - Price
  BY <1>1, AtStep
<1>3. s = IF b = 0 THEN "used" ELSE "quota"
  BY DEF Refunding
<1>4. paid \in [Tasks -> Int] /\ wallet \in [Tasks -> Int] /\ key \in [Tasks -> Int] /\ used \in [Tasks -> Int] /\ row \in [Tasks -> Rows]
  BY DEF IInv, TypeOK
<1> HIDE DEF s
<1>5. /\ pass'[p].job.step = s
      /\ pass'[p].job.from = pass[p].job.from /\ pass'[p].job.to = b
  BY <1>1, StepFacts DEF IInv
<1>6. /\ key' \in [Tasks -> Int] /\ \A u \in Tasks : u # t => key'[u] = key[u]
      /\ key'[t] = key[t] + Delta(p) \/ (key'[t] = key[t] /\ faults' # 0)
      /\ faults' \in 0..MaxFaults /\ (faults' = 0 => faults = 0)
  <2>1. CASE key' = [key EXCEPT ![t] = @ + Delta(p)] /\ UNCHANGED faults
    BY <1>2, <1>4, <2>1, MovedBy
  <2>2. CASE Fault /\ UNCHANGED key
    BY <1>4, <2>2, FaultType DEF IInv
  <2> QED
    BY <2>1, <2>2 DEF AdjustToken
<1>7. ASSUME kind[t] # "realtime"
      PROVE  /\ Booked(t)' \in Nat /\ key'[t] \in Nat /\ used'[t] \in Nat
             /\ Apart(t)' /\ Corrected(p, t)' /\ (Smooth(t)' => Onward(p, t)')
             /\ ~legacy[t] => row'[t].quota = Price \/ row'[t].quota = Booked(t)'
  <2>1. /\ BookOf(t) /\ Corrected(p, t) /\ (Smooth(t) => Onward(p, t)) /\ Delta(p) = b - Price
        /\ Booked(t) = b /\ pass[p].job.from = Price /\ key[t] = Price /\ used[t] = Price /\ (~legacy[t] => row[t].quota = Price)
    BY <1>2, <1>7 DEF Corrected
  <2>2. Booked(t)' = Booked(t) /\ Apart(t)' /\ legacy' = legacy
    <3>1. Booked(t)' = Booked(t) /\ (Known(t)' <=> Known(t))
      BY <1>1, <1>2, SameBooked DEF world
    <3> QED
      BY <1>1, <2>1, <3>1 DEF BookOf, Apart, world
  <2>3. key'[t] \in {Price, b} /\ (key'[t] = b \/ faults' # 0)
    BY <1>2, <1>6, <2>1
  <2>4. Corrected(p, t)'
    BY <1>1, <1>2, <1>3, <1>5, <2>1, <2>2, <2>3 DEF Corrected
  <2>5. Smooth(t)' => Onward(p, t)'
    <3>1. Smooth(t)' => Smooth(t) /\ key'[t] = b
      BY <1>1, <1>6, <2>3 DEF Smooth, world
    <3> QED
      BY <1>1, <1>3, <1>5, <2>1, <3>1 DEF Onward
  <2> QED
    BY <1>1, <1>2, <2>1, <2>2, <2>3, <2>4, <2>5
<1> QED
  BY <1>1, <1>2, <1>4, <1>6, <1>7, GoOnKeeps

(* The statistics: the third correction of a refund, the last of a         *)
(* recalculation.                                                          *)
LEMMA AdjustUsedKeeps ==
    ASSUME IInv, NEW p \in Passes, NEW t, t = pass[p].job.task, AdjustUsed(p)
    PROVE  IInv'
<1> DEFINE b == pass[p].job.to
<1>1. Step(p, "used") /\ "used" \in BillingSteps /\ "quota" \in BillingSteps
      /\ used' = [used EXCEPT ![t] = @ + Delta(p)]
      /\ UNCHANGED <<row, world, paid, wallet, key, fetch, fetches, faults, crashes>>
  BY DEF AdjustUsed, BillingSteps, bounds
<1>2. /\ pass[p].job.step = "used" /\ t \in Tasks /\ row[t] \in Rows /\ row[t] # NoRow
      /\ b \in Nat /\ Delta(p) \in Int /\ Price \in Nat /\ faults \in 0..MaxFaults
      /\ kind[t] # "realtime" => BookOf(t) /\ Corrected(p, t) /\ (Smooth(t) => Onward(p, t)) /\ Delta(p) = b - Price
  BY <1>1, AtStep
<1>3. paid \in [Tasks -> Int] /\ wallet \in [Tasks -> Int] /\ key \in [Tasks -> Int] /\ used \in [Tasks -> Int] /\ row \in [Tasks -> Rows]
  BY DEF IInv, TypeOK
<1>4. used' \in [Tasks -> Int] /\ used'[t] = used[t] + Delta(p) /\ \A u \in Tasks : u # t => used'[u] = used[u]
  BY <1>1, <1>2, <1>3, MovedBy
<1>5. ASSUME kind[t] # "realtime"
      PROVE  /\ BookOf(t) /\ Corrected(p, t) /\ (Smooth(t) => Onward(p, t))
             /\ Booked(t) = b /\ pass[p].job.from = Price /\ key[t] \in {Price, b} /\ used'[t] = b
             /\ ~legacy[t] => row[t].quota = Price \/ (b # 0 /\ row[t].quota = b)
             /\ Booked(t)' = b /\ Apart(t)' /\ legacy' = legacy /\ (Smooth(t)' => Smooth(t))
  <2>1. /\ BookOf(t) /\ Corrected(p, t) /\ (Smooth(t) => Onward(p, t)) /\ Delta(p) = b - Price
        /\ Booked(t) = b /\ pass[p].job.from = Price /\ key[t] \in {Price, b} /\ used[t] = Price
        /\ ~legacy[t] => row[t].quota = Price \/ (b # 0 /\ row[t].quota = b)
    BY <1>2, <1>5 DEF Corrected
  <2>2. used'[t] = b
    BY <1>2, <1>4, <2>1
  <2>3. Booked(t)' = Booked(t) /\ (Known(t)' <=> Known(t))
    BY <1>1, <1>2, SameBooked DEF world
  <2>4. Apart(t)' /\ legacy' = legacy /\ (Smooth(t)' => Smooth(t))
    BY <1>1, <2>1, <2>3 DEF BookOf, Apart, Smooth, world
  <2> QED
    BY <2>1, <2>2, <2>3, <2>4
<1>6. CASE b = 0
  <2>1. GoTo(p, "quota")
    BY <1>6 DEF AdjustUsed, Refunding
  <2>2. /\ pass'[p].job.step = "quota"
        /\ pass'[p].job.from = pass[p].job.from /\ pass'[p].job.to = b
    BY <1>1, <2>1, StepFacts DEF IInv
  <2>3. ASSUME kind[t] # "realtime"
        PROVE  /\ Booked(t)' \in Nat /\ key'[t] \in Nat /\ used'[t] \in Nat
               /\ Apart(t)' /\ Corrected(p, t)' /\ (Smooth(t)' => Onward(p, t)')
               /\ ~legacy[t] => row'[t].quota = Price \/ row'[t].quota = Booked(t)'
    <3>1. Corrected(p, t)'
      BY <1>1, <1>5, <1>6, <2>2, <2>3 DEF Corrected
    <3>2. Smooth(t)' => Onward(p, t)'
      BY <1>1, <1>2, <1>5, <1>6, <2>2, <2>3 DEF Onward
    <3> QED
      BY <1>1, <1>2, <1>5, <1>6, <2>3, <3>1, <3>2
  <2> QED
    BY <1>1, <1>2, <1>3, <1>4, <2>1, <2>3, GoOnKeeps
<1>7. CASE b # 0
  <2>1. Finished(p)
    BY <1>7 DEF AdjustUsed, Refunding
  <2>2. ASSUME kind[t] # "realtime"
        PROVE  /\ used'[t] \in Nat
               /\ Smooth(t)' => Charged(t, row[t].quota)' /\ (row'[t].status = "FAILURE" => row'[t].quota = 0)
               /\ ~legacy[t] => row'[t].quota = Price \/ row'[t].quota = Booked(t)'
    <3>1. Smooth(t)' => row[t].status # "FAILURE" /\ key[t] = b /\ row[t].quota = b
      BY <1>2, <1>5, <1>7, <2>2 DEF Onward
    <3> QED
      BY <1>1, <1>2, <1>5, <2>2, <3>1 DEF Charged
  <2> QED
    BY <1>1, <1>2, <1>3, <1>4, <2>1, <2>2, EndKeeps
<1> QED
  BY <1>6, <1>7

(* The quota of the row: the last correction of a refund, the third of a   *)
(* recalculation.                                                          *)
LEMMA UpdateQuotaKeeps ==
    ASSUME IInv, NEW p \in Passes, NEW t, t = pass[p].job.task, UpdateQuota(p)
    PROVE  IInv'
<1> DEFINE b == pass[p].job.to
<1>1. Step(p, "quota") /\ "used" \in BillingSteps /\ "quota" \in BillingSteps
      /\ UNCHANGED <<world, paid, wallet, key, used, fetch, fetches, crashes>>
  BY DEF UpdateQuota, BillingSteps, ledger
<1>2. /\ pass[p].job.step = "quota" /\ t \in Tasks /\ row[t] \in Rows /\ row[t] # NoRow
      /\ b \in Nat /\ b \in Amounts /\ Price \in Nat /\ faults \in 0..MaxFaults
      /\ kind[t] # "realtime" => BookOf(t) /\ Corrected(p, t) /\ (Smooth(t) => Onward(p, t))
  BY <1>1, AtStep
<1>3. paid \in [Tasks -> Int] /\ wallet \in [Tasks -> Int] /\ key \in [Tasks -> Int] /\ used \in [Tasks -> Int] /\ row \in [Tasks -> Rows]
  BY DEF IInv, TypeOK
<1>4. /\ row' \in [Tasks -> Rows] /\ row'[t] # NoRow /\ row'[t].status = row[t].status
      /\ row'[t].quota = b \/ (row'[t].quota = row[t].quota /\ faults' # 0)
      /\ \A u \in Tasks : u # t => row'[u] = row[u]
      /\ faults' \in 0..MaxFaults /\ (faults' = 0 => faults = 0)
  <2>1. row[t].status \in Statuses /\ row[t] = Row(row[t].status, row[t].quota)
    BY <1>2, RowTypes
  <2>2. CASE Fault /\ UNCHANGED row
    BY <1>2, <1>3, <2>2, FaultType DEF IInv
  <2>3. CASE row' = [row EXCEPT ![t].quota = b] /\ UNCHANGED faults
    <3>1. [row[t] EXCEPT !.quota = b] = Row(row[t].status, b)
      BY <2>1 DEF Row
    <3>2. row' = [row EXCEPT ![t] = Row(row[t].status, b)]
      BY <2>3, <3>1
    <3>3. Row(row[t].status, b) \in Rows /\ Row(row[t].status, b).status = row[t].status /\ Row(row[t].status, b).quota = b
          /\ Row(row[t].status, b) # NoRow
      BY <1>2, <2>1, RowTypes DEF Row
    <3> QED
      BY <1>2, <1>3, <2>3, <3>2, <3>3
  <2> QED
    BY <2>2, <2>3 DEF UpdateQuota
<1>5. ASSUME kind[t] # "realtime"
      PROVE  /\ BookOf(t) /\ Corrected(p, t) /\ (Smooth(t) => Onward(p, t))
             /\ Booked(t) = b /\ pass[p].job.from = Price /\ key[t] \in {Price, b}
             /\ used[t] = IF b = 0 THEN 0 ELSE Price
             /\ ~legacy[t] => row[t].quota = Price
             /\ Booked(t)' = b /\ Apart(t)' /\ legacy' = legacy /\ (Smooth(t)' => Smooth(t) /\ row'[t].quota = b)
  <2>1. /\ BookOf(t) /\ Corrected(p, t) /\ (Smooth(t) => Onward(p, t))
        /\ Booked(t) = b /\ pass[p].job.from = Price /\ key[t] \in {Price, b}
        /\ used[t] = IF b = 0 THEN 0 ELSE Price
        /\ ~legacy[t] => row[t].quota = Price
    BY <1>2, <1>5 DEF Corrected
  <2>2. Booked(t)' = Booked(t) /\ (Known(t)' <=> Known(t))
    BY <1>1, <1>2, SameBooked DEF world
  <2>3. Apart(t)' /\ legacy' = legacy
    BY <1>1, <2>1, <2>2 DEF BookOf, Apart, world
  <2>4. Smooth(t)' => Smooth(t) /\ row'[t].quota = b
    BY <1>1, <1>4 DEF Smooth, world
  <2> QED
    BY <2>1, <2>2, <2>3, <2>4
<1>6. CASE b # 0
  <2>1. GoTo(p, "used")
    BY <1>6 DEF UpdateQuota, Refunding
  <2>2. /\ pass'[p].job.step = "used"
        /\ pass'[p].job.from = pass[p].job.from /\ pass'[p].job.to = b
    BY <1>1, <2>1, StepFacts DEF IInv
  <2>3. ASSUME kind[t] # "realtime"
        PROVE  /\ Booked(t)' \in Nat /\ key'[t] \in Nat /\ used'[t] \in Nat
               /\ Apart(t)' /\ Corrected(p, t)' /\ (Smooth(t)' => Onward(p, t)')
               /\ ~legacy[t] => row'[t].quota = Price \/ row'[t].quota = Booked(t)'
    <3>1. Corrected(p, t)'
      BY <1>1, <1>4, <1>5, <1>6, <2>2, <2>3 DEF Corrected
    <3>2. Smooth(t)' => Onward(p, t)'
      BY <1>1, <1>2, <1>4, <1>5, <1>6, <2>2, <2>3 DEF Onward
    <3> QED
      BY <1>1, <1>2, <1>4, <1>5, <1>6, <2>3, <3>1, <3>2
  <2> QED
    BY <1>1, <1>2, <1>3, <1>4, <2>1, <2>3, GoOnKeeps
<1>7. CASE b = 0
  <2>1. Finished(p)
    BY <1>7 DEF UpdateQuota, Refunding
  <2>2. ASSUME kind[t] # "realtime"
        PROVE  /\ used'[t] \in Nat
               /\ Smooth(t)' => Charged(t, row[t].quota)' /\ (row'[t].status = "FAILURE" => row'[t].quota = 0)
               /\ ~legacy[t] => row'[t].quota = Price \/ row'[t].quota = Booked(t)'
    <3>1. Smooth(t)' => key[t] = b
      BY <1>2, <1>5, <2>2 DEF Onward
    <3> QED
      BY <1>1, <1>2, <1>4, <1>5, <1>7, <2>2, <3>1 DEF Charged
  <2> QED
    BY <1>1, <1>2, <1>3, <1>4, <2>1, <2>2, EndKeeps
<1> QED
  BY <1>6, <1>7

-----------------------------------------------------------------------------
(* The steps outside the passes. *)
LEMMA WorldKeepsBooks ==
    ASSUME Books, UNCHANGED <<row, ledger, kind, source, legacy, pass, faults, crashes>>,
           \A u \in Tasks : (up[u] = "none" <=> up'[u] = "none") /\ (lost[u] => lost'[u])
    PROVE  Books'
<1> SUFFICES ASSUME NEW u \in Tasks, kind[u] # "realtime" PROVE BookOf(u)'
  BY DEF Books
<1>1. \A q \in Passes : At(q, u)' <=> At(q, u)
  BY DEF At
<1> QED
  BY <1>1, BookFrame DEF Books, ledger

(* A task that is submitted has been charged its price, if not by a pool,  *)
(* and has no row yet.                                                     *)
LEMMA SubmitKeeps ==
    ASSUME IInv, NEW t \in Tasks, Submit(t)
    PROVE  IInv'
<1> USE DEF IInv
<1>1. PICK c \in Charges(t) : paid' = [paid EXCEPT ![t] = c]
  BY DEF Submit
<1>2. /\ up[t] = "none" /\ up' = [up EXCEPT ![t] = "IN_PROGRESS"] /\ row[t] = NoRow
      /\ key' = [key EXCEPT ![t] = Price] /\ used' = [used EXCEPT ![t] = Price]
      /\ UNCHANGED <<row, kind, source, legacy, old, lost, wallet, pass, fetch, fetches, faults, crashes>>
  BY DEF Submit, Copied, bounds, Ended
<1>3. c \in Int /\ c > 0 /\ (Known(t) => c = Price) /\ Price \in Nat
  BY ChargeFacts
<1>4. TypeOK'
  BY <1>1, <1>2, <1>3 DEF TypeOK
<1>5. Copied'
  BY <1>2 DEF Copied, TypeOK
<1>6. ASSUME NEW u \in Tasks, u # t, kind[u] # "realtime" PROVE BookOf(u)'
  <2>1. \A q \in Passes : At(q, u)' <=> At(q, u)
    BY <1>2 DEF At
  <2>2. up'[u] = up[u] /\ paid'[u] = paid[u] /\ key'[u] = key[u] /\ used'[u] = used[u]
    BY <1>1, <1>2, <1>6 DEF TypeOK
  <2> QED
    BY <1>2, <1>6, <2>1, <2>2, BookFrame DEF Books
<1>7. ASSUME kind[t] # "realtime" PROVE BookOf(t)'
  <2>1. BookOf(t)
    BY <1>7 DEF Books
  <2>2. up'[t] # "none" /\ paid'[t] = c /\ key'[t] = Price /\ used'[t] = Price /\ wallet'[t] = 0
    BY <1>1, <1>2, <2>1 DEF TypeOK, BookOf, Apart
  <2>3. Known(t)' <=> Known(t)
    BY <1>2 DEF Known
  <2>4. Booked(t)' = Price /\ Apart(t)'
    BY <1>3, <2>2, <2>3 DEF Booked, Apart
  <2>5. row'[t].status = "none" /\ "none" \notin Active /\ "none" \notin Ended
    BY <1>2, RowTypes DEF Active, Ended
  <2>6. \A r \in Passes : ~At(r, t)' /\ pass'[r].copy[t] = NoRow
    BY <1>2, <2>1, <2>5 DEF BookOf, At, Copied
  <2>7. ~Smooth(t)'
    BY <2>5 DEF Smooth
  <2> QED
    BY <1>3, <2>2, <2>4, <2>5, <2>6, <2>7 DEF BookOf, Charged
<1> QED
  BY <1>2, <1>4, <1>5, <1>6, <1>7 DEF Books

(* The row of a submitted task is inserted with what was charged, or lost with an error. *)
LEMMA InsertKeeps ==
    ASSUME IInv, NEW t \in Tasks, Insert(t)
    PROVE  IInv'
<1> USE DEF IInv
<1>1. /\ up[t] # "none" /\ up[t] # "dropped" /\ row[t] = NoRow
      /\ UNCHANGED <<kind, source, legacy, old, lost, ledger, pass, fetch, fetches, crashes>>
  BY DEF Insert
<1>2. CASE Fault /\ up' = [up EXCEPT ![t] = "dropped"] /\ UNCHANGED row
  <2>1. TypeOK'
    BY <1>1, <1>2, FaultType DEF TypeOK, ledger
  <2>2. Copied'
    BY <1>1, <1>2 DEF Copied, TypeOK
  <2>3. ASSUME NEW u \in Tasks, kind[u] # "realtime" PROVE BookOf(u)'
    <3>1. \A q \in Passes : At(q, u)' <=> At(q, u)
      BY <1>1 DEF At
    <3>2. (up'[u] = "none" <=> up[u] = "none") /\ faults' # 0
      BY <1>1, <1>2, FaultType DEF TypeOK
    <3> QED
      BY <1>1, <1>2, <2>3, <3>1, <3>2, BookFrame DEF Books, ledger
  <2> QED
    BY <1>1, <2>1, <2>2, <2>3 DEF Books
<1>3. CASE row' = [row EXCEPT ![t] = Row("NOT_START", Price)] /\ UNCHANGED <<up, faults>>
  <2>1. /\ row' \in [Tasks -> Rows] /\ row'[t].status = "NOT_START" /\ row'[t].quota = Price /\ row'[t] # NoRow
        /\ \A u \in Tasks : u # t => row'[u] = row[u]
    <3>1. Row("NOT_START", Price) \in Rows /\ Row("NOT_START", Price).status = "NOT_START"
          /\ Row("NOT_START", Price).quota = Price /\ Row("NOT_START", Price) # NoRow
      BY RowTypes DEF Row, NoRow, Statuses, Active, Amounts
    <3> QED
      BY <1>3, <3>1 DEF TypeOK
  <2>2. TypeOK'
    BY <1>1, <1>3, <2>1 DEF TypeOK, ledger
  <2>3. Copied'
    <3>1. up[t] \in {"IN_PROGRESS"} \union Ended
      BY <1>1 DEF TypeOK
    <3> QED
      BY <1>1, <1>3, <2>1, <3>1 DEF Copied
  <2>4. ASSUME NEW u \in Tasks, u # t, kind[u] # "realtime" PROVE BookOf(u)'
    <3>1. \A q \in Passes : At(q, u)' <=> At(q, u)
      BY <1>1 DEF At
    <3> QED
      BY <1>1, <1>3, <2>1, <2>4, <3>1, BookFrame DEF Books, ledger
  <2>5. ASSUME kind[t] # "realtime" PROVE BookOf(t)'
    <3>1. BookOf(t)
      BY <2>5 DEF Books
    <3>2. Booked(t)' = Booked(t) /\ (Known(t)' <=> Known(t))
      BY <1>1, SameBooked DEF ledger
    <3>3. Charged(t, Price)' /\ Booked(t)' \in Nat /\ key'[t] \in Nat /\ used'[t] \in Nat /\ Apart(t)'
      BY <1>1, <1>3, <3>1, <3>2 DEF BookOf, Charged, Apart, ledger
    <3>4. "NOT_START" \notin Ended
      BY DEF Ended
    <3>5. \A r \in Passes : ~At(r, t)' /\ pass'[r].copy[t] = NoRow
      BY <1>1, <3>1, RowTypes DEF BookOf, At, Copied, Ended
    <3> QED
      BY <2>1, <3>3, <3>4, <3>5 DEF BookOf, Smooth
  <2> QED
    BY <1>1, <2>2, <2>3, <2>4, <2>5 DEF Books
<1> QED
  BY <1>2, <1>3 DEF Insert

(* What happens outside the process touches neither rows nor accounts. *)
LEMMA OutsideKeeps ==
    ASSUME IInv, NEW t \in Tasks, ProviderEnds(t) \/ Age(t) \/ LoseChannel(t)
    PROVE  IInv'
<1> USE DEF IInv
<1>1. UNCHANGED <<row, ledger, kind, source, legacy, pass, fetch, fetches, faults, crashes>>
  BY DEF ProviderEnds, Age, LoseChannel, bounds
<1>2. /\ up' \in [Tasks -> {"none", "dropped", "IN_PROGRESS"} \union Ended] /\ old' \in [Tasks -> BOOLEAN] /\ lost' \in [Tasks -> BOOLEAN]
      /\ \A u \in Tasks : up[u] # up'[u] => up[u] = "IN_PROGRESS" /\ up'[u] \in Ended
      /\ \A u \in Tasks : lost[u] => lost'[u]
  <2>1. CASE ProviderEnds(t)
    BY <2>1 DEF ProviderEnds, TypeOK
  <2>2. CASE Age(t)
    BY <2>2 DEF Age, TypeOK
  <2>3. CASE LoseChannel(t)
    BY <2>3 DEF LoseChannel, TypeOK
  <2> QED
    BY <2>1, <2>2, <2>3
<1>3. TypeOK'
  BY <1>1, <1>2 DEF TypeOK, ledger
<1>4. Copied'
  BY <1>1, <1>2 DEF Copied
<1>5. Books'
  BY <1>1, <1>2, WorldKeepsBooks DEF Ended
<1> QED
  BY <1>3, <1>4, <1>5

(* A request of the user for a realtime task copies its row. *)
LEMMA FetchReadKeeps ==
    ASSUME IInv, NEW f \in Fetchers, NEW t \in Tasks, FetchRead(f, t)
    PROVE  IInv'
<1> USE DEF IInv
<1>1. /\ row[t] # NoRow /\ kind[t] = "realtime" /\ fetches' \in 0..MaxFetches
      /\ fetch' = [fetch EXCEPT ![f] = [task |-> t, copy |-> row[t]]]
      /\ UNCHANGED <<row, world, ledger, pass, faults, crashes>>
  BY TaskPollingAssumption DEF FetchRead, TypeOK
<1>2. fetch' \in [Fetchers -> [task : Tasks \union {NoTask}, copy : Rows]]
  BY <1>1 DEF TypeOK
<1>3. TypeOK'
  BY <1>1, <1>2 DEF TypeOK, ledger, world
<1>4. ASSUME NEW g \in Fetchers, fetch'[g] # NoFetch
      PROVE  fetch'[g].task \in Tasks /\ kind[fetch'[g].task] = "realtime" /\ row[fetch'[g].task] # NoRow
  <2>1. CASE g = f
    <3>1. fetch'[g] = [task |-> t, copy |-> row[t]]
      BY <1>1, <2>1 DEF TypeOK
    <3> QED
      BY <1>1, <3>1
  <2>2. CASE g # f
    BY <1>1, <1>4, <2>2 DEF TypeOK, Copied
  <2> QED
    BY <2>1, <2>2
<1>5. Copied'
  BY <1>1, <1>4 DEF Copied, world
<1>6. Books'
  BY <1>1, WorldKeepsBooks DEF world
<1> QED
  BY <1>3, <1>5, <1>6

(* That request writes its copy back, to a task that no pass bills. *)
LEMMA FetchWriteKeeps ==
    ASSUME IInv, NEW f \in Fetchers, NEW t, t = fetch[f].task, FetchWrite(f)
    PROVE  IInv'
<1> USE DEF IInv
<1>1. /\ t \in Tasks /\ kind[t] = "realtime" /\ row[t] # NoRow
      /\ fetch' = [fetch EXCEPT ![f] = NoFetch]
      /\ UNCHANGED <<world, ledger, pass, fetches, faults, crashes>>
  BY DEF FetchWrite, Copied, bounds
<1>2. /\ row' \in [Tasks -> Rows] /\ row'[t] # NoRow
      /\ \A u \in Tasks : u # t => row'[u] = row[u]
  <2>1. CASE UNCHANGED row
    BY <1>1, <2>1 DEF TypeOK
  <2>2. ASSUME NEW a \in Answers(t), row' = [row EXCEPT ![t] = Row(a, fetch[f].copy.quota)]
        PROVE  /\ row' \in [Tasks -> Rows] /\ row'[t] # NoRow
               /\ \A u \in Tasks : u # t => row'[u] = row[u]
    <3>1. a \in Ended \union {"IN_PROGRESS"}
      BY <1>1 DEF Answers, Copied, Ended
    <3>2. fetch[f].copy \in Rows
      BY DEF TypeOK
    <3>3. fetch[f].copy.quota \in Amounts
      BY <3>2, RowTypes
    <3>4. a \in Statuses
      BY <3>1 DEF Statuses, Active
    <3>5. Row(a, fetch[f].copy.quota) \in Rows /\ Row(a, fetch[f].copy.quota).status = a
      BY <3>3, <3>4, RowTypes DEF Row
    <3> HIDE DEF IInv
    <3>6. Row(a, fetch[f].copy.quota) # NoRow
      BY <3>4, <3>5, RowTypes
    <3> QED
      BY <1>1, <2>2, <3>5, <3>6 DEF IInv, TypeOK
  <2> QED
    BY <1>1, <2>1, <2>2 DEF FetchWrite
<1>3. fetch' \in [Fetchers -> [task : Tasks \union {NoTask}, copy : Rows]]
  BY <1>1, RowTypes DEF TypeOK, NoFetch
<1>4. TypeOK'
  BY <1>1, <1>2, <1>3 DEF TypeOK, ledger, world
<1>5. \A u \in Tasks : row'[u] = NoRow <=> row[u] = NoRow
  BY <1>1, <1>2
<1>6. \A g \in Fetchers : fetch'[g] # NoFetch => fetch'[g] = fetch[g]
  BY <1>1 DEF TypeOK
<1>7. Copied'
  BY <1>1, <1>5, <1>6 DEF Copied, world
<1>8. ASSUME NEW u \in Tasks, kind[u] # "realtime" PROVE BookOf(u)'
  <2>1. \A q \in Passes : At(q, u)' <=> At(q, u)
    BY <1>1 DEF At
  <2>2. row'[u] = row[u]
    BY <1>1, <1>2, <1>8
  <2> QED
    BY <1>1, <1>8, <2>1, <2>2, BookFrame DEF Books, ledger, world
<1> QED
  BY <1>1, <1>4, <1>7, <1>8 DEF Books, world

-----------------------------------------------------------------------------
(* At the start the only rows are unfinished ones, charged their price. *)
LEMMA InitBooks == Init => Books
<1> SUFFICES ASSUME Init, NEW t \in Tasks PROVE BookOf(t)
  BY DEF Books
<1>1. \A p \in Passes : pass[p].job = NoJob /\ pass[p].copy[t] = NoRow /\ ~At(p, t)
  BY JobTypes DEF Init, Idle, NoCopy, At, BillingSteps
<1>2. CASE legacy[t]
  <2>1. row[t].status = "IN_PROGRESS" /\ row[t].quota = Price /\ row[t] # NoRow /\ paid[t] \in Charges(t) /\ up[t] # "none"
    BY <1>2 DEF Init, Row, NoRow
  <2>2. paid[t] \in Int /\ paid[t] > 0 /\ (Known(t) => paid[t] = Price) /\ Price \in Nat
    BY <2>1, ChargeFacts
  <2>3. wallet[t] = 0 /\ key[t] = Price /\ used[t] = Price
    BY <1>2 DEF Init
  <2>4. Charged(t, Price) /\ Apart(t)
    BY <2>1, <2>2, <2>3 DEF Charged, Booked, Apart
  <2>5. "IN_PROGRESS" \notin Ended
    BY DEF Ended
  <2> QED
    BY <1>1, <2>1, <2>2, <2>4, <2>5 DEF BookOf, Smooth, Charged
<1>3. CASE ~legacy[t]
  <2>1. row[t] = NoRow /\ row[t].status = "none" /\ up[t] = "none"
    BY <1>3 DEF Init, Row, NoRow
  <2>2. paid[t] = 0 /\ wallet[t] = 0 /\ key[t] = 0 /\ used[t] = 0
    BY <1>3 DEF Init
  <2>3. Booked(t) \in Nat /\ Apart(t)
    BY <2>1, <2>2, TaskPollingAssumption DEF Booked, Apart
  <2>4. "none" \notin Ended /\ "none" \notin Active
    BY DEF Ended, Active
  <2> QED
    BY <1>1, <2>1, <2>2, <2>3, <2>4 DEF BookOf, Smooth
<1> QED
  BY <1>2, <1>3

(* The inductive step, one case per action. *)
LEMMA NextKeeps == IInv /\ [Next]_vars => IInv'
<1> SUFFICES ASSUME IInv, [Next]_vars PROVE IInv'
  OBVIOUS
<1>1. ASSUME NEW p \in Passes, Start(p) \/ List(p) \/ Cancel(p) \/ End(p) PROVE IInv'
  BY <1>1, StartKeeps, ListKeeps, CancelKeeps DEF End
<1>2. ASSUME NEW p \in Passes, Write(p) \/ AdjustFunding(p) \/ AdjustToken(p) PROVE IInv'
  <2>1. PICK t : t = pass[p].job.task
    OBVIOUS
  <2> QED
    BY <1>2, <2>1, WriteKeeps, AdjustFundingKeeps, AdjustTokenKeeps
<1>3. ASSUME NEW p \in Passes, AdjustUsed(p) \/ UpdateQuota(p) \/ Crash(p) PROVE IInv'
  <2>1. PICK t : t = pass[p].job.task
    OBVIOUS
  <2> QED
    BY <1>3, <2>1, AdjustUsedKeeps, UpdateQuotaKeeps, CrashKeeps
<1>4. ASSUME NEW p \in Passes, NEW t \in Tasks,
             SweepTask(p, t) \/ BulkFail(p, t) \/ FetchTask(p, t) \/ FetchFails(p, t)
      PROVE  IInv'
  BY <1>4, SweepTaskKeeps, BulkFailKeeps, FetchTaskKeeps, FetchFailsKeeps
<1>5. ASSUME NEW f \in Fetchers, FetchWrite(f) PROVE IInv'
  <2>1. PICK t : t = fetch[f].task
    OBVIOUS
  <2> QED
    BY <1>5, <2>1, FetchWriteKeeps
<1>6. ASSUME NEW f \in Fetchers, NEW t \in Tasks, FetchRead(f, t) PROVE IInv'
  BY <1>6, FetchReadKeeps
<1>7. ASSUME NEW t \in Tasks, Submit(t) \/ Insert(t) \/ ProviderEnds(t) \/ Age(t) \/ LoseChannel(t) PROVE IInv'
  BY <1>7, SubmitKeeps, InsertKeeps, OutsideKeeps
<1>8. CASE UNCHANGED vars
  <2>1. UNCHANGED <<row, ledger, world, pass, fetch, fetches, faults, crashes>>
    BY <1>8 DEF vars, ledger, world
  <2>2. TypeOK' /\ Copied'
    BY <1>8 DEF IInv, TypeOK, Copied, vars
  <2>3. Books'
    BY <2>1, WorldKeepsBooks DEF IInv, world
  <2> QED
    BY <2>2, <2>3 DEF IInv
<1> QED
  BY <1>1, <1>2, <1>4, <1>5, <1>6, <1>7, <1>8, <1>3 DEF Next, PassStep

(* The inductive invariant of the table, the accounts and the passes:      *)
(* however passes, sweeps, bulk updates and fetches interleave, fail and   *)
(* crash, the row of a task, its accounts and the pass that corrects them  *)
(* fit together.                                                           *)
THEOREM AccountsKept == Spec => []IInv
<1>1. Init => IInv
  BY InitTypes, InitBooks DEF IInv
<1>2. IInv /\ [Next]_vars => IInv'
  BY NextKeeps
<1> QED
  BY <1>1, <1>2, PTL DEF Spec

(* The types, and that a pass holds copies of unfinished tasks only. *)
THEOREM TypeCorrect == Spec => []TypeOK
<1>1. IInv => TypeOK
  BY DEF IInv
<1> QED
  BY <1>1, AccountsKept, PTL

(* RefundTaskQuota and RecalculateTaskQuota never give back more than was  *)
(* paid: to the source, to the wallet in its place, to the key or in the   *)
(* statistics.                                                             *)
THEOREM NothingRefundedTwice == Spec => []NeverRefundedTwice
<1>1. IInv => NeverRefundedTwice
  BY DEF IInv, Books, BookOf, Apart, NeverRefundedTwice
<1> QED
  BY <1>1, AccountsKept, PTL

(* A refund that failed, was cut off before it began, or was never tried   *)
(* leaves the quota of the row in place.                                   *)
THEOREM OwedStaysMarked == Spec => []OwedIsMarked
<1>1. IInv => OwedIsMarked
  <2> SUFFICES ASSUME IInv, NEW t \in Tasks, row[t].status = "FAILURE", ~legacy[t], kind[t] # "realtime", Booked(t) > 0
               PROVE  row[t].quota # 0
    BY DEF OwedIsMarked
  <2>1. BookOf(t) /\ row[t].status \in Ended
    BY DEF IInv, Books, Ended
  <2>2. row[t].quota = Price \/ row[t].quota = Booked(t)
    BY <2>1 DEF BookOf
  <2> QED
    BY <2>1, <2>2, TaskPollingAssumption DEF BookOf
<1> QED
  BY <1>1, AccountsKept, PTL

(* Without errors and crashes, key, statistics and row agree whenever no   *)
(* pass is correcting them, and with them the wallet or subscription that  *)
(* has paid, to which a failed task costs nothing.  A pool keeps what it   *)
(* has paid, and the wallet is moved by the difference to the price.       *)
THEOREM AccountsStayEqual == Spec => []AccountsAgree
<1>1. IInv => AccountsAgree
  <2> SUFFICES ASSUME IInv, NEW t \in Tasks, faults = 0, crashes = 0, row[t] # NoRow, kind[t] # "realtime",
                      ~lost[t], ~Correcting(t), ~(legacy[t] /\ row[t].status = "FAILURE")
               PROVE  /\ key[t] = row[t].quota /\ used[t] = row[t].quota
                      /\ row[t].status = "FAILURE" => row[t].quota = 0
                      /\ IF Known(t) THEN paid[t] = row[t].quota /\ wallet[t] = 0
                         ELSE paid[t] > 0 /\ wallet[t] = row[t].quota - Price
    BY DEF AccountsAgree
  <2>1. BookOf(t) /\ row[t] \in Rows
    BY DEF IInv, Books, TypeOK
  <2>2. row[t].status \in Active \/ row[t].status \in Ended
    BY <2>1, RowTypes DEF Statuses
  <2>3. \A p \in Passes : ~At(p, t)
    BY DEF Correcting, At, BillingSteps
  <2>4. Charged(t, row[t].quota) /\ (row[t].status = "FAILURE" => row[t].quota = 0)
    <3>1. CASE row[t].status \in Active
      BY <2>1, <3>1 DEF BookOf, Active
    <3>2. CASE row[t].status \in Ended
      <4>1. Smooth(t)
        BY <3>2 DEF Smooth
      <4> QED
        BY <2>1, <2>3, <4>1 DEF BookOf
    <3> QED
      BY <2>2, <3>1, <3>2
  <2>5. up[t] # "none" /\ wallet[t] \in Int /\ Price \in Nat
    BY TaskPollingAssumption DEF IInv, TypeOK, Copied, Ended
  <2>6. CASE Known(t)
    BY <2>1, <2>4, <2>6 DEF BookOf, Apart, Charged, Booked
  <2>7. CASE ~Known(t)
    BY <2>1, <2>4, <2>5, <2>7 DEF BookOf, Apart, Charged, Booked
  <2> QED
    BY <2>6, <2>7
<1> QED
  BY <1>1, AccountsKept, PTL

(* A pass that writes, by compare-and-set, over a finished row. *)
LEMMA LateWriteLoses ==
    ASSUME IInv, NEW p \in Passes, NEW t \in Tasks, row[t].status \in Ended, pass[p].copy[t] # NoRow
    PROVE  ~Won(t, pass[p].copy[t])
<1>1. pass[p].copy[t].status \in Active
  BY RowTypes DEF IInv, TypeOK
<1> QED
  BY <1>1 DEF Won, Active, Ended

(* UpdateWithStatus keeps late passes and sweeps from overwriting the end  *)
(* of a task; only the bulk update, of a channel that is lost or cannot be *)
(* read, and a fetch of a realtime channel can.                            *)
THEOREM EndsAreFinal == Spec => EndIsFinal
<1> DEFINE Kept == \A t \in Tasks : row[t].status \in Ended /\ kind[t] # "realtime" /\ ~lost[t] /\ faults' = faults
                                      => row'[t].status = row[t].status
<1>1. IInv /\ [Next]_vars => [Kept]_vars
  <2> SUFFICES ASSUME IInv, Next, NEW u \in Tasks, row[u].status \in Ended, kind[u] # "realtime", ~lost[u], faults' = faults
               PROVE  row'[u].status = row[u].status
    OBVIOUS
  <2>1. row \in [Tasks -> Rows] /\ row[u] # NoRow
    BY RowTypes DEF IInv, TypeOK, Ended
  <2>2. ASSUME NEW p \in Passes, Start(p) \/ List(p) \/ Cancel(p) \/ End(p) \/ AdjustFunding(p) \/ AdjustToken(p) \/ AdjustUsed(p) \/ Crash(p)
        PROVE  row' = row
    BY <2>2 DEF Start, List, Cancel, End, AdjustFunding, AdjustToken, AdjustUsed, Crash
  <2>3. ASSUME NEW p \in Passes, Write(p) PROVE row'[u] = row[u]
    <3>1. pass[p].job.task \in Tasks /\ pass[p].copy[pass[p].job.task] # NoRow
      BY <2>3 DEF Write, IInv, Copied
    <3>2. pass[p].job.task = u => ~Won(u, pass[p].copy[u])
      BY <3>1, LateWriteLoses
    <3> QED
      BY <2>1, <2>3, <3>1, <3>2 DEF Write
  <2>4. ASSUME NEW p \in Passes, UpdateQuota(p) PROVE row'[u].status = row[u].status
    <3>1. pass[p].job.task \in Tasks
      BY <2>4 DEF UpdateQuota, Step, IInv, Copied
    <3>2. row[u] = Row(row[u].status, row[u].quota)
      BY <2>1, RowTypes
    <3>3. \A b : [row[u] EXCEPT !.quota = b].status = row[u].status
      BY <3>2 DEF Row
    <3>4. CASE row' = [row EXCEPT ![pass[p].job.task].quota = pass[p].job.to]
      <4>1. CASE pass[p].job.task = u
        <5>1. row'[u] = [row[u] EXCEPT !.quota = pass[p].job.to]
          BY <2>1, <3>4, <4>1
        <5> QED
          BY <3>3, <5>1
      <4>2. CASE pass[p].job.task # u
        BY <2>1, <3>1, <3>4, <4>2
      <4> QED
        BY <4>1, <4>2
    <3> QED
      BY <2>4, <3>4 DEF UpdateQuota
  <2>5. ASSUME NEW p \in Passes, NEW t \in Tasks, SweepTask(p, t) PROVE row'[u] = row[u]
    <3>1. t = u => ~Won(u, pass[p].copy[u])
      BY <2>5, LateWriteLoses DEF SweepTask, Todo
    <3> QED
      BY <2>1, <2>5, <3>1 DEF SweepTask
  <2>6. ASSUME NEW p \in Passes, NEW t \in Tasks, BulkFail(p, t) PROVE row'[u] = row[u]
    <3>1. ~Fault
      BY DEF Fault, IInv, TypeOK
    <3>2. t = u => row' = row
      BY <2>6, <3>1 DEF BulkFail
    <3> QED
      BY <2>1, <2>6, <3>2 DEF BulkFail
  <2>7. ASSUME NEW p \in Passes, NEW t \in Tasks, FetchTask(p, t) \/ FetchFails(p, t) PROVE row' = row
    BY <2>7 DEF FetchTask, FetchFails
  <2>8. ASSUME NEW f \in Fetchers, FetchWrite(f) PROVE row'[u] = row[u]
    <3>1. fetch[f].task \in Tasks /\ fetch[f].task # u
      BY <2>8 DEF FetchWrite, IInv, Copied
    <3> QED
      BY <2>1, <2>8, <3>1 DEF FetchWrite
  <2>9. ASSUME NEW f \in Fetchers, NEW t \in Tasks, FetchRead(f, t) PROVE row' = row
    BY <2>9 DEF FetchRead
  <2>10. ASSUME NEW t \in Tasks, Insert(t) PROVE row'[u] = row[u]
    BY <2>1, <2>10 DEF Insert
  <2>11. ASSUME NEW t \in Tasks, Submit(t) \/ ProviderEnds(t) \/ Age(t) \/ LoseChannel(t) PROVE row' = row
    BY <2>11 DEF Submit, ProviderEnds, Age, LoseChannel
  <2> QED
    BY <2>2, <2>3, <2>4, <2>5, <2>6, <2>7, <2>8, <2>9, <2>10, <2>11 DEF Next, PassStep
<1> QED
  BY <1>1, AccountsKept, PTL DEF Spec, EndIsFinal
=============================================================================
