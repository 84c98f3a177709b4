------------------------------ MODULE Scheduler ------------------------------
(***************************************************************************)
(* scheduler_service: several workers, each looping over run_due_jobs      *)
(* against one Postgres table of jobs and one of recurring templates.      *)
(*                                                                         *)
(* A step is one call to the database or to a handler.  A worker keeps its *)
(* batch in memory and writes whole rows back (to_row) without looking at  *)
(* what the row has become.  Times are kept relative to the clock: how     *)
(* long until run_at, how long since claimed_at (up to Stale).             *)
(*                                                                         *)
(* The log calls of store.py raise when enabled (LogLevels); level is the  *)
(* host's level for that logger, WARNING unless configured.                *)
(***************************************************************************)
EXTENDS LogLevels, Naturals, FiniteSets

CONSTANTS
  Jobs,        \* rows of scheduled_jobs
  Types,       \* rows of recurring_jobs
  Workers,
  None,
  Handled,     \* jobs whose job_type has a registered handler
  DueQuery,    \* the injected store has get_due_recurring (ours has not)
  Levels,      \* levels the host may set the store's logger to
  MaxRetries,  \* max_retries of a job
  Limit,       \* `limit` of claim_due_jobs
  Stale,       \* job_claim_timeout_minutes
  Base, Cap,   \* job_base_backoff_seconds, job_max_backoff_seconds
  Interval,    \* interval_seconds of a template
  JobMax,      \* bound: ticks from a handler's start to its mark
  TickMax,     \* bound: ticks from a claim to the end of its batch
  MaxFaults    \* bound: crashes and failed database calls

Terminal == {"succeeded", "dead_lettered"}
JobRow == [status : {"pending", "running"} \cup Terminal, wait : Nat,
           age : 0..Stale, attempts : 0..MaxRetries]

ASSUME SchedulerAssumption ==
  /\ Handled \subseteq Jobs /\ DueQuery \in BOOLEAN
  /\ Levels \subseteq DOMAIN Rank
  /\ {MaxRetries, Limit, Stale, Interval} \subseteq Nat \ {0}
  /\ {Base, Cap, JobMax, TickMax, MaxFaults} \subseteq Nat
  /\ None \notin Jobs \cup Types \cup Nat /\ None \notin JobRow

VARIABLES
  job,     \* rows of scheduled_jobs
  rec,     \* ticks until next_run_at of each registered template
  pc,      \* where each worker is in run_due_jobs
  due,     \* templates a worker's _tick_recurring_jobs has still to do
  copy,    \* a worker's batch: attempt_count of each job as claimed
  cur,     \* the template or job a worker is at
  busy,    \* ticks since the current handler started
  span,    \* ticks since the batch was claimed
  since,   \* auxiliary: ticks since a template was last enqueued
  calls,   \* auxiliary: handler calls a row's job has had (up to CallsMax)
  level,   \* the level the host runs with
  faults   \* crashes and failed calls so far

vars == <<job, rec, pc, due, copy, cur, busy, span, since, calls, level,
          faults>>

CallsMax == MaxRetries + MaxFaults + 1
Least(a, b) == IF a < b THEN a ELSE b
Dec(n) == IF n = 0 THEN 0 ELSE n - 1
Empty == [j \in Jobs |-> None]
Fresh == [status |-> "pending", wait |-> 0, age |-> 0, attempts |-> 0]

Init ==
  /\ job = Empty
  /\ rec = [t \in Types |-> None]
  /\ pc = [w \in Workers |-> "idle"]
  /\ due = [w \in Workers |-> {}]
  /\ copy = [w \in Workers |-> Empty]
  /\ cur = [w \in Workers |-> None]
  /\ busy = [w \in Workers |-> 0]
  /\ span = [w \in Workers |-> 0]
  /\ since = [t \in Types |-> Interval]
  /\ calls = [j \in Jobs |-> 0]
  /\ level \in Levels
  /\ faults = 0

(* run_due_jobs returns or raises: the batch in memory is gone. *)
Leave(w) ==
  /\ pc' = [pc EXCEPT ![w] = "idle"]
  /\ due' = [due EXCEPT ![w] = {}]
  /\ copy' = [copy EXCEPT ![w] = Empty]
  /\ cur' = [cur EXCEPT ![w] = None]
  /\ busy' = [busy EXCEPT ![w] = 0]
  /\ span' = [span EXCEPT ![w] = 0]

Goto(w, label) == pc' = [pc EXCEPT ![w] = label]

(* One unit of time, within the bounds the host keeps its handlers to. *)
Tick ==
  /\ \A w \in Workers :
       /\ pc[w] \in {"handle", "ok", "fail"} => busy[w] < JobMax
       /\ pc[w] \in {"run", "handle", "ok", "fail"} => span[w] < TickMax
  /\ job' = [j \in Jobs |->
       IF job[j] = None THEN None
       ELSE [job[j] EXCEPT !.wait = Dec(@),
                           !.age = IF job[j].status = "running"
                                   THEN Least(@ + 1, Stale) ELSE @]]
  /\ rec' = [t \in Types |-> IF rec[t] = None THEN None ELSE Dec(rec[t])]
  /\ busy' = [w \in Workers |->
       IF pc[w] \in {"handle", "ok", "fail"} THEN busy[w] + 1 ELSE 0]
  /\ span' = [w \in Workers |->
       IF pc[w] \in {"run", "handle", "ok", "fail"} THEN span[w] + 1 ELSE 0]
  /\ since' = [t \in Types |-> Least(since[t] + 1, Interval)]
  /\ UNCHANGED <<pc, due, copy, cur, calls, level, faults>>

-----------------------------------------------------------------------------
(* The application's side. *)

Enqueue(j) ==
  /\ job[j] = None
  /\ job' = [job EXCEPT ![j] = Fresh]
  /\ UNCHANGED <<rec, pc, due, copy, cur, busy, span, since, calls,
                 level, faults>>

(* An upsert of a new RecurringJob: next_run_at becomes now. *)
RegisterRecurringLater(t) ==            \* slip: first run an interval away
  /\ rec' = [rec EXCEPT ![t] = Interval]
  /\ UNCHANGED <<job, pc, due, copy, cur, busy, span, since, calls,
                 level, faults>>
RegisterRecurring(t) ==
  /\ rec' = [rec EXCEPT ![t] = 0]
  /\ UNCHANGED <<job, pc, due, copy, cur, busy, span, since, calls,
                 level, faults>>

(* The host removes rows of finished jobs (ids are never used again, so a  *)
(* row is not given up while a worker still holds a copy of it).           *)
HostPurges(j) ==
  /\ job[j] # None /\ job[j].status \in Terminal
  /\ \A w \in Workers : copy[w][j] = None
  /\ job' = [job EXCEPT ![j] = None]
  /\ calls' = [calls EXCEPT ![j] = 0]
  /\ UNCHANGED <<rec, pc, due, copy, cur, busy, span, since, level, faults>>

-----------------------------------------------------------------------------
(* _tick_recurring_jobs.  Without get_due_recurring the call raises before *)
(* anything is done, and so does every later tick.                         *)

TickRecurring(w) ==
  /\ pc[w] = "idle"
  /\ DueQuery
  /\ Goto(w, "recur")
  /\ due' = [due EXCEPT ![w] = {t \in Types : rec[t] = 0}]
  /\ UNCHANGED <<job, rec, copy, cur, busy, span, since, calls, level, faults>>

EnqueueDue(w, t, j) ==
  /\ pc[w] = "recur" /\ t \in due[w]
  /\ job[j] = None
  /\ job' = [job EXCEPT ![j] = Fresh]
  /\ since' = [since EXCEPT ![t] = 0]
  /\ IF Raises(level, "INFO")
     THEN Leave(w)
     ELSE /\ Goto(w, "advance")
          /\ cur' = [cur EXCEPT ![w] = t]
          /\ UNCHANGED <<due, copy, busy, span>>
  /\ UNCHANGED <<rec, calls, level, faults>>

AdvanceRecurring(w) ==
  /\ pc[w] = "advance"
  /\ rec' = [rec EXCEPT ![cur[w]] = Interval]
  /\ due' = [due EXCEPT ![w] = @ \ {cur[w]}]
  /\ cur' = [cur EXCEPT ![w] = None]
  /\ Goto(w, "recur")
  /\ UNCHANGED <<job, copy, busy, span, since, calls, level, faults>>

-----------------------------------------------------------------------------
(* claim_due_jobs: one UPDATE.  Which due rows win a place under the limit *)
(* (run_at order) is left open.                                            *)

ClaimableRunning(j) ==                  \* slip: no stale cutoff
  /\ job[j] # None
  /\ \/ job[j].status = "pending" /\ job[j].wait = 0
     \/ job[j].status = "running"
ClaimableFinished(j) ==                 \* slip: run_at without the status
  /\ job[j] # None
  /\ \/ job[j].status # "running" /\ job[j].wait = 0
     \/ job[j].status = "running" /\ job[j].age = Stale
ClaimablePending(j) ==                  \* slip: no recovery of stale claims
  job[j] # None /\ job[j].status = "pending" /\ job[j].wait = 0
Claimable(j) ==
  /\ job[j] # None
  /\ \/ job[j].status = "pending" /\ job[j].wait = 0
     \/ job[j].status = "running" /\ job[j].age = Stale

Claim(w, S) ==
  /\ pc[w] = "recur" /\ due[w] = {}
  /\ S \subseteq {j \in Jobs : Claimable(j)}
  /\ Cardinality(S) = Least(Limit, Cardinality({j \in Jobs : Claimable(j)}))
  /\ job' = [j \in Jobs |->
       IF j \in S THEN [job[j] EXCEPT !.status = "running", !.age = 0]
                  ELSE job[j]]
  /\ IF S = {} \/ Raises(level, "DEBUG")
     THEN Leave(w)
     ELSE /\ Goto(w, "run")
          /\ copy' = [copy EXCEPT ![w] =
               [j \in Jobs |-> IF j \in S THEN job[j].attempts ELSE None]]
          /\ span' = [span EXCEPT ![w] = 0]
          /\ UNCHANGED <<due, cur, busy>>
  /\ UNCHANGED <<rec, since, calls, level, faults>>

(* The next job of the batch: its handler starts, or there is none. *)
StartJob(w, j) ==
  /\ pc[w] = "run" /\ copy[w][j] # None
  /\ Goto(w, IF j \in Handled THEN "handle" ELSE "fail")
  /\ cur' = [cur EXCEPT ![w] = j]
  /\ busy' = [busy EXCEPT ![w] = 0]
  /\ calls' = IF j \in Handled
              THEN [calls EXCEPT ![j] = Least(@ + 1, CallsMax)] ELSE calls
  /\ UNCHANGED <<job, rec, due, copy, span, since, level, faults>>

HandlerEnds(w, result) ==
  /\ pc[w] = "handle"
  /\ Goto(w, result)
  /\ UNCHANGED <<job, rec, due, copy, cur, busy, span, since, calls,
                 level, faults>>

(* To the next job of the batch, or out of run_due_jobs. *)
NextJob(w) ==
  IF \A j \in Jobs \ {cur[w]} : copy[w][j] = None
  THEN Leave(w)
  ELSE /\ Goto(w, "run")
       /\ copy' = [copy EXCEPT ![w][cur[w]] = None]
       /\ cur' = [cur EXCEPT ![w] = None]
       /\ busy' = [busy EXCEPT ![w] = 0]
       /\ UNCHANGED <<due, span>>

(* With INFO enabled the log call raises after the update: mark_failed is  *)
(* entered, logs too, and raises out of run_due_jobs before it writes.     *)
MarkSucceeded(w) ==
  /\ pc[w] = "ok"
  /\ job' = [job EXCEPT ![cur[w]] = [@ EXCEPT !.status = "succeeded"]]
  /\ IF Raises(level, "INFO") THEN Leave(w) ELSE NextJob(w)
  /\ UNCHANGED <<rec, since, calls, level, faults>>

Backoff(n) == Least(Base * 2^n, Cap)

RetryOnceMore(w) == copy[w][cur[w]] + 1 <= MaxRetries  \* slip: off by one
Retry(w) == copy[w][cur[w]] + 1 < MaxRetries

(* mark_failed, to be tried again.  A job without a handler keeps run_at.  *)
MarkRetry(w) ==
  /\ pc[w] = "fail" /\ Retry(w)
  /\ ~Raises(level, "INFO")
  /\ job' = [job EXCEPT ![cur[w]] =
       [status |-> "pending", age |-> 0, attempts |-> copy[w][cur[w]] + 1,
        wait |-> IF cur[w] \in Handled THEN Backoff(copy[w][cur[w]]) ELSE 0]]
  /\ NextJob(w)
  /\ UNCHANGED <<rec, since, calls, level, faults>>

(* mark_failed, given up. *)
MarkDead(w) ==
  /\ pc[w] = "fail" /\ ~Retry(w)
  /\ ~Raises(level, "WARNING")
  /\ job' = [job EXCEPT ![cur[w]] =
       [@ EXCEPT !.status = "dead_lettered",
                 !.attempts = copy[w][cur[w]] + 1]]
  /\ NextJob(w)
  /\ UNCHANGED <<rec, since, calls, level, faults>>

(* mark_failed raises at its log call, before _update_job. *)
MarkRaises(w) ==
  /\ pc[w] = "fail"
  /\ Raises(level, IF Retry(w) THEN "INFO" ELSE "WARNING")
  /\ Leave(w)
  /\ UNCHANGED <<job, rec, since, calls, level, faults>>

-----------------------------------------------------------------------------
(* A failed update of mark_succeeded runs into the `except` of the         *)
(* handler: the job that ran to its end is treated as failed.  The update  *)
(* either was not applied or was, and only its answer is lost: mark_failed *)
(* then writes over a row that already says "succeeded".                   *)
SucceededWriteFails(w) ==
  /\ pc[w] = "ok" /\ faults < MaxFaults
  /\ Goto(w, "fail")
  /\ faults' = faults + 1
  /\ UNCHANGED <<job, rec, due, copy, cur, busy, span, since, calls, level>>

SucceededUnanswered(w) ==
  /\ pc[w] = "ok" /\ faults < MaxFaults
  /\ job' = [job EXCEPT ![cur[w]] = [@ EXCEPT !.status = "succeeded"]]
  /\ Goto(w, "fail")
  /\ faults' = faults + 1
  /\ UNCHANGED <<rec, due, copy, cur, busy, span, since, calls, level>>

(* A crash, or any other database call that raises out of run_due_jobs     *)
(* (one that is applied but not answered is the call and then a crash).    *)
Crash(w) ==
  /\ pc[w] # "idle" /\ faults < MaxFaults
  /\ Leave(w)
  /\ faults' = faults + 1
  /\ UNCHANGED <<job, rec, since, calls, level>>

WorkerStep(w) ==
  \/ TickRecurring(w) \/ AdvanceRecurring(w)
  \/ \E t \in Types, j \in Jobs : EnqueueDue(w, t, j)
  \/ \E S \in SUBSET Jobs : Claim(w, S)
  \/ \E j \in Jobs : StartJob(w, j)
  \/ \E result \in {"ok", "fail"} : HandlerEnds(w, result)
  \/ MarkSucceeded(w) \/ MarkRetry(w) \/ MarkDead(w) \/ MarkRaises(w)

Next ==
  \/ Tick
  \/ \E j \in Jobs : Enqueue(j) \/ HostPurges(j)
  \/ \E t \in Types : RegisterRecurring(t)
  \/ \E w \in Workers : \/ WorkerStep(w) \/ Crash(w)
                        \/ SucceededWriteFails(w) \/ SucceededUnanswered(w)

Spec == Init /\ [][Next]_vars

(* Every worker loops forever and its handlers end; time never stops; the  *)
(* host's purge gets to every finished row.                                *)
FairSpec ==
  /\ Spec
  /\ SF_vars(Tick)
  /\ \A w \in Workers : WF_vars(WorkerStep(w))
  /\ \A j \in Jobs : WF_vars(HostPurges(j))

-----------------------------------------------------------------------------
TypeOK ==
  /\ job \in [Jobs -> JobRow \cup {None}]
  /\ rec \in [Types -> 0..Interval \cup {None}]
  /\ pc \in [Workers -> {"idle", "recur", "advance", "run", "handle", "ok",
                         "fail"}]
  /\ due \in [Workers -> SUBSET Types]
  /\ copy \in [Workers -> [Jobs -> 0..MaxRetries - 1 \cup {None}]]
  /\ cur \in [Workers -> Jobs \cup Types \cup {None}]
  /\ busy \in [Workers -> Nat] /\ span \in [Workers -> Nat]
  /\ since \in [Types -> 0..Interval]
  /\ calls \in [Jobs -> 0..CallsMax]
  /\ level \in Levels
  /\ faults \in 0..MaxFaults

(* Postgres' claim plus stale recovery: while every worker gets through    *)
(* its batch before the claim is stale (TickMax < Stale), a job is in one  *)
(* worker's batch at a time.                                               *)
ClaimedOnce ==
  \A v, w \in Workers : \A j \in Jobs :
    copy[v][j] # None /\ copy[w][j] # None => v = w

(* "dead-letter after max retries" (README): where the log call of the     *)
(* dead-letter path is disabled, a job's handler is called max_retries     *)
(* times at most, and once more for each call whose end was never written. *)
(* (At the default level that log call raises: the row stays claimed, goes *)
(* stale, and its handler is called again without end.)                    *)
CallsBounded ==
  ~Raises(level, "WARNING") =>
    \A j \in Jobs : job[j] # None => calls[j] <= MaxRetries + faults

(* A job is settled by the worker that has it, and "run once" (README): a  *)
(* finished job is not opened again, although every update names only the  *)
(* id of its row.  The exception is the worker whose "succeeded" was       *)
(* applied without an answer: its mark_failed may reopen that job.         *)
QueueState == [j \in Jobs |->
  IF job[j] = None THEN "absent"
  ELSE CASE job[j].status = "pending" -> "open"
         [] job[j].status \in Terminal -> "done"
         [] OTHER -> IF \E w \in Workers : copy[w][j] # None
                     THEN CHOOSE w \in Workers : copy[w][j] # None
                     ELSE "lost"]
Unanswered == {p \in Workers \X Jobs :
  /\ copy[p[1]][p[2]] # None /\ job[p[2]] # None
  /\ job[p[2]].status \in Terminal}
Queue == INSTANCE WorkQueue
           WITH Items <- Jobs, state <- QueueState, doubt <- Unanswered
ImplementsQueue == Queue!Spec

(* Once the log call of the dead-letter path is disabled, every job gets   *)
(* its outcome, through crashes and failed writes: a stale claim is taken  *)
(* over, and each handler call that ends is counted.  (The inserts of a    *)
(* registered template could wait forever for a row of the model.)         *)
JobsSettle ==
  \A j \in Jobs : job[j] # None /\ ~Raises(level, "WARNING") ~>
    \/ job[j] = None \/ job[j].status \in Terminal
    \/ \E t \in Types : rec[t] # None

(* "re-enqueues itself on a fixed interval forever" (README), as long as   *)
(* the model has a row left for the insert.                                *)
RecursForever ==
  \A t \in Types : rec[t] # None ~>
    since[t] = 0 \/ \A j \in Jobs : job[j] # None
=============================================================================
