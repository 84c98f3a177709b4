-------------------------- MODULE Scheduler_proofs --------------------------
(* Proofs about Scheduler, for every number of jobs, templates and workers, *)
(* every configuration and every log level.                                *)
(*                                                                         *)
(* TypeOK holds whatever the handlers' running time.  That a job is in one *)
(* batch at a time, how often its handler is called, and that finished     *)
(* jobs are reopened by none but a worker that was not told, hold when     *)
(* every batch ends before its claims are stale: TickMax < Stale is a      *)
(* hypothesis of those theorems.                                           *)
EXTENDS Scheduler, FiniteSetTheorems, TLAPS

Labels == {"idle", "recur", "advance", "run", "handle", "ok", "fail"}
AtJob == {"handle", "ok", "fail"}

(* A worker outside its batch holds nothing; one at a job has it in its    *)
(* batch; and what is in a batch has a row.                                *)
BatchInv ==
  \A w \in Workers :
    /\ pc[w] \in {"idle", "recur", "advance"} => copy[w] = Empty
    /\ pc[w] \in AtJob => cur[w] \in Jobs /\ copy[w][cur[w]] # None
    /\ \A j \in Jobs : copy[w][j] # None => job[j] # None

(* A row the claim query may still return has an attempt left. *)
AttemptsLeft ==
  \A j \in Jobs : job[j] # None /\ job[j].status \notin Terminal =>
    job[j].attempts < MaxRetries

(* The inductive invariant for any running time. *)
IInv == TypeOK /\ BatchInv /\ AttemptsLeft

(* A claimed row is as its worker read it, and as old as the batch; or the *)
(* worker wrote "succeeded", was not answered, and is about to write over  *)
(* it.                                                                     *)
CopyRuns(w, j) ==
  job[j].status = "running" /\ job[j].age = span[w] /\ span[w] <= TickMax
CopyDone(w, j) ==
  job[j].status = "succeeded" /\ pc[w] = "fail" /\ cur[w] = j
CopiesCurrent ==
  \A w \in Workers, j \in Jobs : copy[w][j] # None =>
    job[j].attempts = copy[w][j] /\ (CopyRuns(w, j) \/ CopyDone(w, j))

(* The inductive invariant when batches end in time: no claim is stale     *)
(* while it is held, so none is taken over.                                *)
TimelyInv == IInv /\ ClaimedOnce /\ CopiesCurrent

-----------------------------------------------------------------------------
(* 2^n is the number of subsets of 1..n, so the backoff is a number. *)
LEMMA BackoffNat == \A n \in Nat : Backoff(n) \in Nat
<1> SUFFICES ASSUME NEW n \in Nat PROVE Backoff(n) \in Nat
  OBVIOUS
<1>1. IsFiniteSet(1..n) /\ Cardinality(1..n) = n
  BY FS_Interval
<1>2. 2^n \in Nat
  BY <1>1, FS_SUBSET, FS_CardinalityType
<1>3. Base * 2^n \in Nat
  BY <1>2, SchedulerAssumption
<1> QED
  BY <1>3, SchedulerAssumption DEF Backoff, Least

LEMMA InitInv == Init => TimelyInv
<1> SUFFICES ASSUME Init PROVE TimelyInv
  OBVIOUS
<1> USE SchedulerAssumption DEF Init, Empty
<1>1. TypeOK
  BY DEF TypeOK, CallsMax
<1>2. BatchInv /\ AttemptsLeft
  BY DEF BatchInv, AttemptsLeft, AtJob
<1>3. ClaimedOnce /\ CopiesCurrent
  BY DEF ClaimedOnce, CopiesCurrent
<1> QED
  BY <1>1, <1>2, <1>3 DEF TimelyInv, IInv

-----------------------------------------------------------------------------
(* The steps, each by what it does to the rows and the batches. *)

(* A new row. *)
Inserts(j) ==
  /\ job[j] = None /\ job' = [job EXCEPT ![j] = Fresh] /\ copy' = copy

LEMMA FreshRow == Fresh \in JobRow /\ Fresh.attempts < MaxRetries
                  /\ Fresh.status = "pending" /\ Fresh # None
<1>1. Fresh \in JobRow
  BY SchedulerAssumption DEF Fresh, JobRow
<1> QED
  BY <1>1, SchedulerAssumption DEF Fresh

LEMMA TickRows ==
  ASSUME IInv, Tick
  PROVE  /\ job' \in [Jobs -> JobRow \cup {None}]
         /\ \A j \in Jobs :
              /\ job'[j] = None <=> job[j] = None
              /\ job[j] # None =>
                   /\ job'[j].status = job[j].status
                   /\ job'[j].attempts = job[j].attempts
                   /\ job[j].status = "running" =>
                        job'[j].age = Least(job[j].age + 1, Stale)
<1> SUFFICES ASSUME NEW j \in Jobs, job[j] # None
             PROVE  /\ job'[j] \in JobRow
                    /\ job'[j].status = job[j].status
                    /\ job'[j].attempts = job[j].attempts
                    /\ job[j].status = "running" =>
                         job'[j].age = Least(job[j].age + 1, Stale)
  <2>1. job' = [j \in Jobs |-> job'[j]]
    BY DEF Tick
  <2>2. \A j \in Jobs : job[j] = None => job'[j] = None
    BY DEF Tick
  <2> QED
    BY <2>1, <2>2, SchedulerAssumption
<1>1. PICK old \in JobRow : old = job[j]
  BY DEF IInv, TypeOK
<1>2. PICK wait \in Nat : wait = Dec(old.wait)
  BY DEF JobRow, Dec
<1>3. PICK age \in 0..Stale :
        age = IF old.status = "running" THEN Least(old.age + 1, Stale)
              ELSE old.age
  <2>1. old.age \in 0..Stale /\ Stale \in Nat
    BY SchedulerAssumption DEF JobRow
  <2> QED
    BY <2>1 DEF Least
<1> DEFINE r == [old EXCEPT !.wait = wait, !.age = age]
<1>4. /\ r \in JobRow /\ r.status = old.status
      /\ r.attempts = old.attempts /\ r.age = age
  BY DEF JobRow
<1>5. job'[j] = r
  <2>1. job'[j] = [old EXCEPT
          !.wait = Dec(old.wait),
          !.age = IF old.status = "running" THEN Least(old.age + 1, Stale)
                  ELSE old.age]
    BY <1>1 DEF Tick, JobRow
  <2> QED
    BY <1>2, <1>3, <2>1
<1> QED
  BY <1>1, <1>3, <1>4, <1>5

LEMMA ClaimRows ==
  ASSUME IInv, NEW w \in Workers, NEW S, Claim(w, S)
  PROVE  /\ job' \in [Jobs -> JobRow \cup {None}]
         /\ \A j \in Jobs \ S : job'[j] = job[j]
         /\ S \subseteq Jobs
         /\ \A j \in S : /\ job[j] # None /\ job[j] \in JobRow
                         /\ \/ job[j].status = "pending"
                            \/ job[j].status = "running" /\ job[j].age = Stale
                         /\ job[j].attempts < MaxRetries
                         /\ job'[j] # None
                         /\ job'[j].status = "running" /\ job'[j].age = 0
                         /\ job'[j].attempts = job[j].attempts
<1>1. /\ S \subseteq Jobs
      /\ \A j \in S : /\ job[j] # None /\ job[j] \in JobRow
                      /\ \/ job[j].status = "pending"
                         \/ job[j].status = "running" /\ job[j].age = Stale
  BY DEF Claim, Claimable, IInv, TypeOK
<1>2. \A j \in S : job[j].attempts < MaxRetries
  BY <1>1 DEF IInv, AttemptsLeft, Terminal
<1>3. ASSUME NEW j \in S
      PROVE  /\ job'[j] \in JobRow
             /\ job'[j].status = "running" /\ job'[j].age = 0
             /\ job'[j].attempts = job[j].attempts
  <2>1. PICK old \in JobRow : old = job[j]
    BY <1>1
  <2> DEFINE r == [old EXCEPT !.status = "running", !.age = 0]
  <2>2. /\ r \in JobRow /\ r.status = "running" /\ r.age = 0
        /\ r.attempts = old.attempts
    <3>1. 0 \in 0..Stale
      BY SchedulerAssumption
    <3> QED
      BY <3>1 DEF JobRow
  <2>3. job'[j] = r
    BY <1>1, <2>1 DEF Claim
  <2> QED
    BY <2>1, <2>2, <2>3
<1>4. \A j \in Jobs \ S : job'[j] = job[j]
  BY DEF Claim
<1>5. job' \in [Jobs -> JobRow \cup {None}]
  BY <1>3, <1>4 DEF Claim, IInv, TypeOK
<1> QED
  BY <1>1, <1>2, <1>3, <1>4, <1>5, SchedulerAssumption

LEMMA ClaimCopies ==
  ASSUME IInv, NEW w \in Workers, NEW S, Claim(w, S)
  PROVE  /\ pc' \in [Workers -> Labels]
         /\ copy' \in [Workers -> [Jobs -> 0..MaxRetries - 1 \cup {None}]]
         /\ \A v \in Workers \ {w} :
              pc'[v] = pc[v] /\ copy'[v] = copy[v] /\ cur'[v] = cur[v]
         /\ \/ pc'[w] = "idle" /\ copy'[w] = Empty
            \/ /\ pc'[w] = "run" /\ span'[w] = 0
               /\ \A j \in Jobs : copy'[w][j] =
                    IF j \in S THEN job[j].attempts ELSE None
         /\ \A v \in Workers \ {w} : span'[v] = span[v]
         /\ span' \in [Workers -> Nat] /\ busy' \in [Workers -> Nat]
         /\ due' \in [Workers -> SUBSET Types]
         /\ cur' \in [Workers -> Jobs \cup Types \cup {None}]
<1>1. \A j \in S : j \in Jobs /\ job[j].attempts \in 0..MaxRetries - 1
  <2> TAKE j \in S
  <2>1. j \in Jobs /\ job[j] \in JobRow /\ job[j].attempts < MaxRetries
    BY ClaimRows
  <2> QED
    BY <2>1, SchedulerAssumption DEF JobRow
<1>2. CASE Leave(w)
  <2>1. Empty \in [Jobs -> 0..MaxRetries - 1 \cup {None}]
    BY DEF Empty
  <2> QED
    BY <1>2, <2>1 DEF Leave, IInv, TypeOK, Labels
<1>3. CASE ~Leave(w)
  <2> DEFINE b == [j \in Jobs |->
                     IF j \in S THEN job[j].attempts ELSE None]
  <2>1. b \in [Jobs -> 0..MaxRetries - 1 \cup {None}]
    BY <1>1
  <2>2. /\ copy' = [copy EXCEPT ![w] = b] /\ pc' = [pc EXCEPT ![w] = "run"]
        /\ span' = [span EXCEPT ![w] = 0] /\ UNCHANGED <<due, cur, busy>>
    BY <1>3 DEF Claim, Goto
  <2>3. \A j \in Jobs : b[j] = IF j \in S THEN job[j].attempts ELSE None
    OBVIOUS
  <2> HIDE DEF b
  <2> QED
    BY <2>1, <2>2, <2>3 DEF IInv, TypeOK, Labels
<1> QED
  BY <1>2, <1>3

-----------------------------------------------------------------------------
(* The end of a mark, and of a crash: worker w gives up its current job,   *)
(* perhaps the whole batch, and writes at most the row of that job.        *)

Drops(w) ==
  /\ pc' \in [Workers -> Labels]
  /\ due' \in [Workers -> SUBSET Types]
  /\ copy' \in [Workers -> [Jobs -> 0..MaxRetries - 1 \cup {None}]]
  /\ cur' \in [Workers -> Jobs \cup Types \cup {None}]
  /\ busy' \in [Workers -> Nat] /\ span' \in [Workers -> Nat]
  /\ \A v \in Workers \ {w} : /\ pc'[v] = pc[v] /\ copy'[v] = copy[v]
                              /\ cur'[v] = cur[v] /\ span'[v] = span[v]
  /\ \A j \in Jobs : copy'[w][j] \in {None, copy[w][j]}
  /\ cur[w] \in Jobs => copy'[w][cur[w]] = None
  /\ \/ pc'[w] = "idle" /\ copy'[w] = Empty
     \/ pc'[w] = "run" /\ span'[w] = span[w]

WritesCurrent(w) ==
  /\ job' \in [Jobs -> JobRow \cup {None}]
  /\ \A j \in Jobs : job'[j] # job[j] =>
       /\ j = cur[w] /\ copy[w][j] # None
       /\ job[j] # None /\ job'[j] # None
       /\ \/ job'[j].status \in Terminal
          \/ job'[j].status = "pending" /\ job'[j].attempts < MaxRetries

LEMMA LeaveDrops ==
  ASSUME TypeOK, NEW w \in Workers, Leave(w)
  PROVE  Drops(w)
<1>1. Empty \in [Jobs -> 0..MaxRetries - 1 \cup {None}]
      /\ \A j \in Jobs : Empty[j] = None
  BY DEF Empty
<1> QED
  BY <1>1 DEF TypeOK, Leave, Drops, Labels

LEMMA NextJobDrops ==
  ASSUME TypeOK, NEW w \in Workers, cur[w] \in Jobs, NextJob(w)
  PROVE  Drops(w)
<1>1. CASE Leave(w)
  BY <1>1, LeaveDrops
<1>2. CASE /\ Goto(w, "run")
           /\ copy' = [copy EXCEPT ![w][cur[w]] = None]
           /\ cur' = [cur EXCEPT ![w] = None]
           /\ busy' = [busy EXCEPT ![w] = 0]
           /\ UNCHANGED <<due, span>>
  <2>1. copy' = [copy EXCEPT ![w] = [copy[w] EXCEPT ![cur[w]] = None]]
    BY <1>2
  <2>2. [copy[w] EXCEPT ![cur[w]] = None]
          \in [Jobs -> 0..MaxRetries - 1 \cup {None}]
    BY DEF TypeOK
  <2> QED
    BY <1>2, <2>1, <2>2 DEF TypeOK, Goto, Drops, Labels
<1> QED
  BY <1>1, <1>2 DEF NextJob

LEMMA DropKeepsInv ==
  ASSUME IInv, NEW w \in Workers, Drops(w), WritesCurrent(w),
         faults' \in 0..MaxFaults, UNCHANGED <<rec, since, calls, level>>
  PROVE  IInv'
<1>1. TypeOK'
  BY DEF IInv, TypeOK, Drops, WritesCurrent, Labels
<1>2. BatchInv'
  <2>1. ASSUME NEW v \in Workers
        PROVE  /\ pc'[v] \in {"idle", "recur", "advance"} => copy'[v] = Empty
               /\ pc'[v] \in AtJob =>
                    cur'[v] \in Jobs /\ copy'[v][cur'[v]] # None
    BY DEF IInv, BatchInv, Drops, AtJob
  <2>2. ASSUME NEW v \in Workers, NEW j \in Jobs, copy'[v][j] # None
        PROVE  job'[j] # None
    <3>1. copy[v][j] # None
      BY <2>2 DEF Drops
    <3> QED
      BY <3>1 DEF IInv, BatchInv, WritesCurrent
  <2> QED
    BY <2>1, <2>2 DEF BatchInv
<1>3. AttemptsLeft'
  BY DEF IInv, AttemptsLeft, WritesCurrent
<1> QED
  BY <1>1, <1>2, <1>3 DEF IInv

LEMMA DropKeepsTimely ==
  ASSUME TimelyInv, NEW w \in Workers, Drops(w), WritesCurrent(w)
  PROVE  ClaimedOnce' /\ CopiesCurrent'
<1>1. \A v \in Workers, j \in Jobs :
        copy'[v][j] # None => copy[v][j] # None /\ copy'[v][j] = copy[v][j]
  BY DEF Drops
<1>2. ClaimedOnce'
  BY <1>1 DEF TimelyInv, ClaimedOnce
<1>3. \A v \in Workers, j \in Jobs : copy'[v][j] # None => job'[j] = job[j]
  BY <1>1 DEF TimelyInv, ClaimedOnce, Drops, WritesCurrent
<1>4. \A v \in Workers, j \in Jobs : copy'[v][j] # None => span'[v] = span[v]
  BY DEF Drops, Empty
<1>5. \A j \in Jobs : copy'[w][j] # None => ~CopyDone(w, j)
  BY DEF Drops, CopyDone
<1>6. \A v \in Workers \ {w} : pc'[v] = pc[v] /\ cur'[v] = cur[v]
  BY DEF Drops
<1>7. CopiesCurrent'
  BY <1>1, <1>3, <1>4, <1>5, <1>6
     DEF TimelyInv, CopiesCurrent, CopyRuns, CopyDone
<1> QED
  BY <1>2, <1>7

(* A worker that is at a job: what the invariant says of it. *)
LEMMA AtAJob ==
  ASSUME IInv, NEW w \in Workers, pc[w] \in AtJob
  PROVE  /\ cur[w] \in Jobs
         /\ copy[w][cur[w]] \in 0..MaxRetries - 1
         /\ copy[w][cur[w]] # None
         /\ job[cur[w]] \in JobRow /\ job[cur[w]] # None
<1>1. cur[w] \in Jobs /\ copy[w][cur[w]] # None /\ job[cur[w]] # None
  BY DEF IInv, BatchInv
<1> QED
  BY <1>1 DEF IInv, TypeOK

(* The rows the marks write back. *)
LEMMA RowSucceeded ==
  ASSUME NEW old \in JobRow
  PROVE  \E r \in JobRow :
           /\ r = [old EXCEPT !.status = "succeeded"]
           /\ r.status = "succeeded" /\ r.attempts = old.attempts
<1> DEFINE r == [old EXCEPT !.status = "succeeded"]
<1>1. r \in JobRow /\ r.status = "succeeded" /\ r.attempts = old.attempts
  BY DEF JobRow, Terminal
<1> QED
  BY <1>1

LEMMA RowDead ==
  ASSUME NEW old \in JobRow, NEW n \in 0..MaxRetries
  PROVE  \E r \in JobRow :
           /\ r = [old EXCEPT !.status = "dead_lettered", !.attempts = n]
           /\ r.status = "dead_lettered"
<1> DEFINE r == [old EXCEPT !.status = "dead_lettered", !.attempts = n]
<1>1. r \in JobRow /\ r.status = "dead_lettered"
  BY DEF JobRow, Terminal
<1> QED
  BY <1>1

LEMMA RowPending ==
  ASSUME NEW n \in 0..MaxRetries, NEW d \in Nat
  PROVE  \E r \in JobRow :
           /\ r = [status |-> "pending", age |-> 0, attempts |-> n,
                   wait |-> d]
           /\ r.status = "pending" /\ r.attempts = n
<1> DEFINE r == [status |-> "pending", age |-> 0, attempts |-> n, wait |-> d]
<1>1. 0 \in 0..Stale
  BY SchedulerAssumption
<1>2. r \in JobRow /\ r.status = "pending" /\ r.attempts = n
  BY <1>1 DEF JobRow
<1> QED
  BY <1>2

LEMMA WriteBack ==
  ASSUME IInv, NEW w \in Workers, pc[w] \in AtJob,
         NEW r \in JobRow, job' = [job EXCEPT ![cur[w]] = r],
         \/ r.status \in Terminal
         \/ r.status = "pending" /\ r.attempts < MaxRetries
  PROVE  WritesCurrent(w)
<1>1. /\ cur[w] \in Jobs /\ copy[w][cur[w]] # None /\ job[cur[w]] # None
  BY AtAJob
<1> QED
  BY <1>1, SchedulerAssumption DEF WritesCurrent, IInv, TypeOK

LEMMA MarkSucceededWrites ==
  ASSUME IInv, NEW w \in Workers, MarkSucceeded(w)
  PROVE  WritesCurrent(w) /\ Drops(w)
<1>1. pc[w] \in AtJob /\ cur[w] \in Jobs /\ job[cur[w]] \in JobRow
  BY AtAJob DEF MarkSucceeded, AtJob
<1>2. PICK old \in JobRow : old = job[cur[w]]
  BY <1>1
<1>r. PICK r \in JobRow :
        r = [old EXCEPT !.status = "succeeded"] /\ r.status = "succeeded"
  BY RowSucceeded
<1>3. job' = [job EXCEPT ![cur[w]] = r]
  BY <1>2, <1>r DEF MarkSucceeded
<1>4. WritesCurrent(w)
  BY <1>1, <1>r, <1>3, WriteBack DEF Terminal
<1>5. Drops(w)
  BY <1>1, LeaveDrops, NextJobDrops DEF MarkSucceeded, IInv
<1> QED
  BY <1>4, <1>5

LEMMA MarkRetryWrites ==
  ASSUME IInv, NEW w \in Workers, MarkRetry(w)
  PROVE  WritesCurrent(w) /\ Drops(w)
<1>1. /\ pc[w] \in AtJob /\ cur[w] \in Jobs
      /\ copy[w][cur[w]] \in 0..MaxRetries - 1
  BY AtAJob DEF MarkRetry, AtJob
<1>2. PICK n \in 0..MaxRetries, d \in Nat :
        /\ n < MaxRetries /\ n = copy[w][cur[w]] + 1
        /\ d = IF cur[w] \in Handled THEN Backoff(copy[w][cur[w]]) ELSE 0
  BY <1>1, BackoffNat, SchedulerAssumption DEF MarkRetry, Retry
<1>r. PICK r \in JobRow :
        /\ r = [status |-> "pending", age |-> 0, attempts |-> n, wait |-> d]
        /\ r.status = "pending" /\ r.attempts = n
  BY RowPending
<1>3. job' = [job EXCEPT ![cur[w]] = r]
  BY <1>2, <1>r DEF MarkRetry
<1>4. WritesCurrent(w)
  BY <1>1, <1>2, <1>r, <1>3, WriteBack
<1>5. Drops(w)
  BY <1>1, NextJobDrops DEF MarkRetry, IInv
<1> QED
  BY <1>4, <1>5

LEMMA MarkDeadWrites ==
  ASSUME IInv, NEW w \in Workers, MarkDead(w)
  PROVE  WritesCurrent(w) /\ Drops(w)
<1>1. /\ pc[w] \in AtJob /\ cur[w] \in Jobs /\ job[cur[w]] \in JobRow
      /\ copy[w][cur[w]] \in 0..MaxRetries - 1
  BY AtAJob DEF MarkDead, AtJob
<1>2. PICK old \in JobRow, n \in 0..MaxRetries :
        old = job[cur[w]] /\ n = copy[w][cur[w]] + 1
  BY <1>1, SchedulerAssumption
<1>r. PICK r \in JobRow :
        /\ r = [old EXCEPT !.status = "dead_lettered", !.attempts = n]
        /\ r.status = "dead_lettered"
  BY RowDead
<1>3. job' = [job EXCEPT ![cur[w]] = r]
  BY <1>2, <1>r DEF MarkDead
<1>4. WritesCurrent(w)
  BY <1>1, <1>r, <1>3, WriteBack DEF Terminal
<1>5. Drops(w)
  BY <1>1, NextJobDrops DEF MarkDead, IInv
<1> QED
  BY <1>4, <1>5

-----------------------------------------------------------------------------
(* The invariant for any running time, step by step. *)

LEMMA InsertKeepsInv ==
  ASSUME IInv, NEW j \in Jobs, Inserts(j)
  PROVE  /\ job' \in [Jobs -> JobRow \cup {None}]
         /\ AttemptsLeft'
         /\ \A w \in Workers, i \in Jobs : copy'[w][i] # None => job'[i] # None
BY FreshRow DEF Inserts, IInv, TypeOK, BatchInv, AttemptsLeft

LEMMA StepTick == IInv /\ Tick => IInv'
<1> SUFFICES ASSUME IInv, Tick PROVE IInv'
  OBVIOUS
<1>1. UNCHANGED <<pc, due, copy, cur, calls, level, faults>>
  BY DEF Tick
<1>2. /\ rec' \in [Types -> 0..Interval \cup {None}]
      /\ since' \in [Types -> 0..Interval]
      /\ busy' \in [Workers -> Nat] /\ span' \in [Workers -> Nat]
  <2>1. ASSUME NEW t \in Types, rec[t] # None
        PROVE  Dec(rec[t]) \in 0..Interval
    <3>1. rec[t] \in 0..Interval /\ Interval \in Nat
      BY <2>1, SchedulerAssumption DEF IInv, TypeOK
    <3> QED
      BY <3>1 DEF Dec
  <2>2. rec' \in [Types -> 0..Interval \cup {None}]
    BY <2>1 DEF Tick
  <2>3. ASSUME NEW t \in Types
        PROVE  Least(since[t] + 1, Interval) \in 0..Interval
    <3>1. since[t] \in 0..Interval /\ Interval \in Nat
      BY SchedulerAssumption DEF IInv, TypeOK
    <3> QED
      BY <3>1 DEF Least
  <2>4. since' \in [Types -> 0..Interval]
    BY <2>3 DEF Tick
  <2>5. busy' \in [Workers -> Nat] /\ span' \in [Workers -> Nat]
    <3>1. \A w \in Workers : busy[w] + 1 \in Nat /\ span[w] + 1 \in Nat
      BY DEF IInv, TypeOK
    <3>2. /\ busy' = [w \in Workers |->
               IF pc[w] \in AtJob THEN busy[w] + 1 ELSE 0]
          /\ span' = [w \in Workers |->
               IF pc[w] \in AtJob \cup {"run"} THEN span[w] + 1 ELSE 0]
      BY DEF Tick, AtJob
    <3> QED
      BY <3>1, <3>2
  <2> QED
    BY <2>2, <2>4, <2>5
<1>3. TypeOK'
  BY <1>1, <1>2, TickRows DEF IInv, TypeOK
<1>4. BatchInv' /\ AttemptsLeft'
  BY <1>1, TickRows DEF IInv, BatchInv, AttemptsLeft
<1> QED
  BY <1>3, <1>4 DEF IInv

LEMMA StepApp ==
  ASSUME IInv,
         \/ \E j \in Jobs : Enqueue(j) \/ HostPurges(j)
         \/ \E t \in Types : RegisterRecurring(t)
  PROVE  IInv' /\ UNCHANGED <<copy, span>>
<1>1. UNCHANGED <<pc, due, copy, cur, busy, span, since, level, faults>>
  BY DEF Enqueue, HostPurges, RegisterRecurring
<1>2. rec' \in [Types -> 0..Interval \cup {None}]
  BY SchedulerAssumption
     DEF Enqueue, HostPurges, RegisterRecurring, IInv, TypeOK
<1>c. calls' \in [Jobs -> 0..CallsMax]
  <2>1. 0 \in 0..CallsMax
    BY SchedulerAssumption DEF CallsMax
  <2>2. calls' = calls \/ \E j \in Jobs : calls' = [calls EXCEPT ![j] = 0]
    BY DEF Enqueue, HostPurges, RegisterRecurring
  <2> QED
    BY <2>1, <2>2 DEF IInv, TypeOK
<1>3. /\ job' \in [Jobs -> JobRow \cup {None}]
      /\ AttemptsLeft'
      /\ \A w \in Workers, i \in Jobs : copy'[w][i] # None => job'[i] # None
  <2>1. ASSUME NEW j \in Jobs, Enqueue(j) PROVE Inserts(j)
    BY <2>1 DEF Enqueue, Inserts
  <2>2. CASE \E j \in Jobs : HostPurges(j)
    BY <2>2 DEF HostPurges, IInv, TypeOK, BatchInv, AttemptsLeft
  <2>3. CASE \E t \in Types : RegisterRecurring(t)
    BY <2>3 DEF RegisterRecurring, IInv, TypeOK, BatchInv, AttemptsLeft
  <2> QED
    BY <2>1, <2>2, <2>3, InsertKeepsInv
<1>4. TypeOK'
  BY <1>1, <1>2, <1>c, <1>3 DEF IInv, TypeOK
<1>5. BatchInv'
  BY <1>1, <1>3 DEF IInv, BatchInv, AtJob
<1> QED
  BY <1>1, <1>3, <1>4, <1>5 DEF IInv

(* A worker moves without touching a job's row. *)
LEMMA StepInside ==
  ASSUME IInv, NEW w \in Workers,
         \/ TickRecurring(w) \/ AdvanceRecurring(w)
         \/ \E j \in Jobs : StartJob(w, j)
         \/ \E result \in {"ok", "fail"} : HandlerEnds(w, result)
         \/ SucceededWriteFails(w)
  PROVE  IInv' /\ UNCHANGED <<job, copy, span>>
<1>1. UNCHANGED <<job, copy, span, since, level>>
  BY DEF TickRecurring, AdvanceRecurring, StartJob, HandlerEnds,
         SucceededWriteFails
<1>2. /\ faults' \in 0..MaxFaults /\ busy' \in [Workers -> Nat]
      /\ due' \in [Workers -> SUBSET Types]
      /\ rec' \in [Types -> 0..Interval \cup {None}]
  <2>1. Interval \in 0..Interval
    BY SchedulerAssumption
  <2>2. busy' \in [Workers -> Nat]
    <3>1. busy' = busy \/ busy' = [busy EXCEPT ![w] = 0]
      BY DEF TickRecurring, AdvanceRecurring, StartJob, HandlerEnds,
             SucceededWriteFails
    <3> QED
      BY <3>1 DEF IInv, TypeOK
  <2>3. due' \in [Workers -> SUBSET Types]
    <3>1. \/ due' = due
          \/ due' = [due EXCEPT ![w] = {t \in Types : rec[t] = 0}]
          \/ due' = [due EXCEPT ![w] = due[w] \ {cur[w]}]
      BY DEF TickRecurring, AdvanceRecurring, StartJob, HandlerEnds,
             SucceededWriteFails
    <3> QED
      BY <3>1 DEF IInv, TypeOK
  <2>4. rec' \in [Types -> 0..Interval \cup {None}]
    <3>1. rec' = rec \/ rec' = [rec EXCEPT ![cur[w]] = Interval]
      BY DEF TickRecurring, AdvanceRecurring, StartJob, HandlerEnds,
             SucceededWriteFails
    <3> QED
      BY <2>1, <3>1 DEF IInv, TypeOK
  <2>5. faults' \in 0..MaxFaults
    BY SchedulerAssumption
       DEF TickRecurring, AdvanceRecurring, StartJob, HandlerEnds,
           SucceededWriteFails, IInv, TypeOK
  <2> QED
    BY <2>2, <2>5, <2>3, <2>4
<1>c. calls' \in [Jobs -> 0..CallsMax]
  <2>1. \A n \in 0..CallsMax : Least(n + 1, CallsMax) \in 0..CallsMax
    BY SchedulerAssumption DEF Least, CallsMax
  <2> QED
    BY <2>1 DEF TickRecurring, AdvanceRecurring, StartJob, HandlerEnds,
                SucceededWriteFails, IInv, TypeOK
<1>3. /\ pc' \in [Workers -> Labels]
      /\ cur' \in [Workers -> Jobs \cup Types \cup {None}]
      /\ \A v \in Workers \ {w} : pc'[v] = pc[v] /\ cur'[v] = cur[v]
      /\ pc'[w] \in {"idle", "recur", "advance"} => copy[w] = Empty
      /\ pc'[w] \in AtJob => cur'[w] \in Jobs /\ copy[w][cur'[w]] # None
  <2>1. CASE TickRecurring(w) \/ AdvanceRecurring(w)
    <3>1. copy[w] = Empty
      BY <2>1 DEF TickRecurring, AdvanceRecurring, IInv, BatchInv
    <3>2. pc' = [pc EXCEPT ![w] = "recur"]
          /\ (cur' = cur \/ cur' = [cur EXCEPT ![w] = None])
      BY <2>1 DEF TickRecurring, AdvanceRecurring, Goto
    <3> QED
      BY <3>1, <3>2 DEF IInv, TypeOK, Labels, AtJob
  <2>2. CASE \E j \in Jobs : StartJob(w, j)
    <3>1. PICK j \in Jobs : StartJob(w, j)
      BY <2>2
    <3>2. PICK l \in {"handle", "fail"} : pc' = [pc EXCEPT ![w] = l]
      BY <3>1 DEF StartJob, Goto
    <3>3. cur' = [cur EXCEPT ![w] = j] /\ copy[w][j] # None
      BY <3>1 DEF StartJob
    <3> QED
      BY <3>2, <3>3 DEF IInv, TypeOK, Labels, AtJob
  <2>3. CASE \/ \E result \in {"ok", "fail"} : HandlerEnds(w, result)
             \/ SucceededWriteFails(w)
    <3>1. PICK l \in {"ok", "fail"} : pc' = [pc EXCEPT ![w] = l]
      BY <2>3 DEF HandlerEnds, SucceededWriteFails, Goto
    <3>2. cur' = cur /\ pc[w] \in AtJob
      BY <2>3 DEF HandlerEnds, SucceededWriteFails, AtJob
    <3>3. cur[w] \in Jobs /\ copy[w][cur[w]] # None
      BY <3>2, AtAJob
    <3> QED
      BY <3>1, <3>2, <3>3 DEF IInv, TypeOK, Labels, AtJob
  <2> QED
    BY <2>1, <2>2, <2>3
<1>4. TypeOK'
  BY <1>1, <1>2, <1>c, <1>3 DEF IInv, TypeOK, Labels
<1>5. BatchInv'
  BY <1>1, <1>3 DEF IInv, BatchInv, AtJob
<1>6. AttemptsLeft'
  BY <1>1 DEF IInv, AttemptsLeft
<1> QED
  BY <1>1, <1>4, <1>5, <1>6 DEF IInv

(* A template that is due gets its job; the worker has no batch yet. *)
LEMMA StepEnqueueDue ==
  ASSUME IInv, NEW w \in Workers, NEW t \in Types, NEW j \in Jobs,
         EnqueueDue(w, t, j)
  PROVE  IInv' /\ Inserts(j)
<1>1. copy[w] = Empty /\ copy \in [Workers ->
        [Jobs -> 0..MaxRetries - 1 \cup {None}]]
  BY DEF EnqueueDue, IInv, TypeOK, BatchInv
<1>2. copy' = copy
  <2>1. copy' = copy \/ copy' = [copy EXCEPT ![w] = Empty]
    BY DEF EnqueueDue, Leave
  <2> QED
    BY <1>1, <2>1
<1>3. Inserts(j)
  BY <1>2 DEF EnqueueDue, Inserts
<1>4. /\ pc' \in [Workers -> Labels]
      /\ cur' \in [Workers -> Jobs \cup Types \cup {None}]
      /\ \A v \in Workers \ {w} : pc'[v] = pc[v] /\ cur'[v] = cur[v]
      /\ pc'[w] \in {"idle", "advance"}
      /\ busy' \in [Workers -> Nat] /\ span' \in [Workers -> Nat]
      /\ due' \in [Workers -> SUBSET Types]
  <2>1. CASE Leave(w)
    BY <2>1 DEF Leave, IInv, TypeOK, Labels
  <2>2. CASE ~Leave(w)
    <3>1. /\ pc' = [pc EXCEPT ![w] = "advance"]
          /\ cur' = [cur EXCEPT ![w] = t] /\ UNCHANGED <<due, busy>>
      BY <2>2 DEF EnqueueDue, Goto
    <3>2. span' = span
      BY <2>2 DEF EnqueueDue
    <3> QED
      BY <3>1, <3>2 DEF IInv, TypeOK, Labels
  <2> QED
    BY <2>1, <2>2
<1>5. since' \in [Types -> 0..Interval]
  BY SchedulerAssumption DEF EnqueueDue, IInv, TypeOK
<1>6. TypeOK'
  <2>1. UNCHANGED <<rec, calls, level, faults>>
    BY DEF EnqueueDue
  <2> QED
    BY <1>2, <1>3, <1>4, <1>5, <2>1, InsertKeepsInv DEF IInv, TypeOK, Labels
<1>7. BatchInv'
  BY <1>1, <1>2, <1>3, <1>4, InsertKeepsInv DEF IInv, BatchInv, AtJob
<1> QED
  BY <1>3, <1>6, <1>7, InsertKeepsInv DEF IInv

LEMMA StepClaim ==
  ASSUME IInv, NEW w \in Workers, NEW S, Claim(w, S)
  PROVE  IInv'
<1>1. UNCHANGED <<rec, since, calls, level, faults>>
  BY DEF Claim
<1>2. TypeOK'
  BY <1>1, ClaimRows, ClaimCopies DEF IInv, TypeOK, Labels
<1>3. BatchInv'
  <2>1. ASSUME NEW v \in Workers
        PROVE  /\ pc'[v] \in {"idle", "recur", "advance"} => copy'[v] = Empty
               /\ pc'[v] \in AtJob =>
                    cur'[v] \in Jobs /\ copy'[v][cur'[v]] # None
    BY ClaimCopies DEF IInv, BatchInv, AtJob
  <2>2. ASSUME NEW v \in Workers, NEW j \in Jobs, copy'[v][j] # None
        PROVE  job'[j] # None
    BY <2>2, ClaimRows, ClaimCopies DEF IInv, BatchInv, Empty
  <2> QED
    BY <2>1, <2>2 DEF BatchInv
<1>4. AttemptsLeft'
  BY ClaimRows DEF IInv, AttemptsLeft
<1> QED
  BY <1>2, <1>3, <1>4 DEF IInv

(* A worker is through with a job, or with everything. *)
LEMMA StepEnds ==
  ASSUME IInv, NEW w \in Workers,
         \/ MarkSucceeded(w) \/ MarkRetry(w) \/ MarkDead(w) \/ MarkRaises(w)
         \/ Crash(w)
  PROVE  IInv' /\ Drops(w) /\ WritesCurrent(w)
<1>1. faults' \in 0..MaxFaults /\ UNCHANGED <<rec, since, calls, level>>
  BY SchedulerAssumption
     DEF MarkSucceeded, MarkRetry, MarkDead, MarkRaises, Crash, IInv, TypeOK
<1>2. Drops(w) /\ WritesCurrent(w)
  <2>1. CASE MarkRaises(w) \/ Crash(w)
    <3>1. Drops(w)
      BY <2>1, LeaveDrops DEF MarkRaises, Crash, IInv
    <3>2. job' = job
      BY <2>1 DEF MarkRaises, Crash
    <3>3. WritesCurrent(w)
      BY <3>2 DEF WritesCurrent, IInv, TypeOK
    <3> QED
      BY <3>1, <3>3
  <2> QED
    BY <2>1, MarkSucceededWrites, MarkRetryWrites, MarkDeadWrites
<1> QED
  BY <1>1, <1>2, DropKeepsInv

(* The success write is applied and its answer lost. *)
LEMMA UnansweredRows ==
  ASSUME IInv, NEW w \in Workers, SucceededUnanswered(w)
  PROVE  /\ pc[w] \in AtJob /\ pc[w] = "ok" /\ cur[w] \in Jobs
         /\ copy[w][cur[w]] # None /\ job[cur[w]] # None
         /\ job' \in [Jobs -> JobRow \cup {None}]
         /\ \A j \in Jobs \ {cur[w]} : job'[j] = job[j]
         /\ job'[cur[w]] # None /\ job'[cur[w]].status = "succeeded"
         /\ job'[cur[w]].attempts = job[cur[w]].attempts
         /\ UNCHANGED <<rec, due, copy, cur, busy, span, since, calls, level>>
         /\ pc' = [pc EXCEPT ![w] = "fail"] /\ pc' \in [Workers -> Labels]
         /\ faults' = faults + 1 /\ faults' \in 0..MaxFaults
<1>1. pc[w] = "ok" /\ pc[w] \in AtJob
  BY DEF SucceededUnanswered, AtJob
<1>2. /\ cur[w] \in Jobs /\ copy[w][cur[w]] # None
      /\ job[cur[w]] \in JobRow /\ job[cur[w]] # None
  BY <1>1, AtAJob
<1>3. PICK r \in JobRow :
        /\ r = [job[cur[w]] EXCEPT !.status = "succeeded"]
        /\ r.status = "succeeded" /\ r.attempts = job[cur[w]].attempts
  BY <1>2, RowSucceeded
<1>4. job' = [job EXCEPT ![cur[w]] = r]
  BY <1>3 DEF SucceededUnanswered
<1>5. /\ job' \in [Jobs -> JobRow \cup {None}]
      /\ \A j \in Jobs \ {cur[w]} : job'[j] = job[j]
      /\ job'[cur[w]] = r /\ r # None
  BY <1>2, <1>4, SchedulerAssumption DEF IInv, TypeOK
<1>6. /\ UNCHANGED <<rec, due, copy, cur, busy, span, since, calls, level>>
      /\ pc' = [pc EXCEPT ![w] = "fail"] /\ faults' = faults + 1
  BY DEF SucceededUnanswered, Goto
<1>7. pc' \in [Workers -> Labels]
  BY <1>6 DEF IInv, TypeOK, Labels
<1>8. faults' \in 0..MaxFaults
  BY SchedulerAssumption DEF SucceededUnanswered, IInv, TypeOK
<1> QED
  BY <1>1, <1>2, <1>3, <1>5, <1>6, <1>7, <1>8

LEMMA StepUnanswered ==
  ASSUME IInv, NEW w \in Workers, SucceededUnanswered(w)
  PROVE  IInv'
<1>1. TypeOK'
  BY UnansweredRows DEF IInv, TypeOK, Labels
<1>2. BatchInv'
  BY UnansweredRows DEF IInv, TypeOK, BatchInv, AtJob
<1>3. AttemptsLeft'
  BY UnansweredRows DEF IInv, AttemptsLeft, Terminal
<1> QED
  BY <1>1, <1>2, <1>3 DEF IInv

LEMMA StepInv == IInv /\ [Next]_vars => IInv'
<1> SUFFICES ASSUME IInv, [Next]_vars PROVE IInv'
  OBVIOUS
<1>1. CASE UNCHANGED vars
  BY <1>1 DEF vars, IInv, TypeOK, BatchInv, AttemptsLeft
<1>2. CASE \E w \in Workers : \/ WorkerStep(w) \/ Crash(w)
                              \/ SucceededWriteFails(w)
                              \/ SucceededUnanswered(w)
  BY <1>2, StepEnqueueDue, StepClaim, StepInside, StepEnds, StepUnanswered
     DEF WorkerStep
<1> QED
  BY <1>1, <1>2, StepTick, StepApp DEF Next

-----------------------------------------------------------------------------
(* One batch at a time, when every batch ends before its claims go stale.  *)

LEMMA TimelyTick ==
  ASSUME TimelyInv, Tick, TickMax < Stale
  PROVE  ClaimedOnce' /\ CopiesCurrent'
<1>1. copy' = copy
  BY DEF Tick
<1>2. ClaimedOnce'
  BY <1>1 DEF TimelyInv, ClaimedOnce
<1>3. ASSUME NEW w \in Workers, NEW j \in Jobs, copy[w][j] # None
      PROVE  /\ job'[j].attempts = copy[w][j]
             /\ CopyRuns(w, j)' \/ CopyDone(w, j)'
  <2>1. /\ job[j] # None /\ job[j].attempts = copy[w][j] /\ span[w] \in Nat
        /\ CopyRuns(w, j) \/ CopyDone(w, j)
    BY <1>3 DEF TimelyInv, IInv, TypeOK, BatchInv, CopiesCurrent
  <2>2. pc[w] \in {"run", "handle", "ok", "fail"}
    BY <1>3 DEF TimelyInv, IInv, TypeOK, BatchInv, Empty
  <2>3. span'[w] = span[w] + 1 /\ span[w] < TickMax
    BY <2>2 DEF Tick
  <2>4. /\ job'[j].status = job[j].status
        /\ job'[j].attempts = job[j].attempts
        /\ job[j].status = "running" =>
             job'[j].age = Least(job[j].age + 1, Stale)
    BY <2>1, TickRows DEF TimelyInv
  <2>5. CASE CopyDone(w, j)
    <3>1. UNCHANGED <<pc, cur>>
      BY DEF Tick
    <3> QED
      BY <2>1, <2>4, <2>5, <3>1 DEF CopyDone
  <2>6. CASE CopyRuns(w, j)
    <3>1. /\ job'[j].status = "running"
          /\ job'[j].age = Least(span[w] + 1, Stale)
      BY <2>4, <2>6 DEF CopyRuns
    <3>2. CopyRuns(w, j)'
      BY <2>1, <2>3, <3>1, SchedulerAssumption DEF CopyRuns, Least
    <3> QED
      BY <2>1, <2>4, <3>2
  <2> QED
    BY <2>1, <2>5, <2>6
<1> QED
  BY <1>1, <1>2, <1>3 DEF CopiesCurrent

LEMMA TimelyClaim ==
  ASSUME TimelyInv, NEW w \in Workers, NEW S, Claim(w, S), TickMax < Stale
  PROVE  /\ ClaimedOnce' /\ CopiesCurrent'
         /\ \A v \in Workers, j \in S : copy[v][j] = None
<1>1. \A v \in Workers, j \in S : copy[v][j] = None
  <2> SUFFICES ASSUME NEW v \in Workers, NEW j \in S, copy[v][j] # None
               PROVE  FALSE
    OBVIOUS
  <2>1. j \in Jobs /\ job[j].status = "running" => job[j].age = Stale
    BY ClaimRows DEF TimelyInv
  <2>2. /\ j \in Jobs /\ span[v] \in Nat
        /\ job[j].status \in {"pending", "running"}
    BY ClaimRows DEF TimelyInv, IInv, TypeOK
  <2>3. job[j].status = "running" /\ job[j].age = span[v] /\ span[v] <= TickMax
    BY <2>2 DEF TimelyInv, CopiesCurrent, CopyRuns, CopyDone
  <2> QED
    BY <2>1, <2>2, <2>3, SchedulerAssumption
<1>2. \A v \in Workers, j \in Jobs : copy'[v][j] # None =>
        \/ j \notin S /\ v # w /\ copy[v][j] # None
        \/ j \in S /\ v = w /\ span'[w] = 0
  BY <1>1, ClaimCopies DEF TimelyInv, Empty
<1>3. ClaimedOnce'
  BY <1>2 DEF TimelyInv, ClaimedOnce
<1>4. ASSUME NEW v \in Workers, NEW j \in Jobs, copy'[v][j] # None
      PROVE  /\ job'[j].attempts = copy'[v][j]
             /\ CopyRuns(v, j)' \/ CopyDone(v, j)'
  <2>1. CASE j \notin S /\ v # w /\ copy[v][j] # None
    <3>1. /\ job'[j] = job[j] /\ copy'[v] = copy[v] /\ span'[v] = span[v]
          /\ pc'[v] = pc[v] /\ cur'[v] = cur[v]
      BY <2>1, ClaimRows, ClaimCopies DEF TimelyInv
    <3> QED
      BY <2>1, <3>1 DEF TimelyInv, CopiesCurrent, CopyRuns, CopyDone
  <2>2. CASE j \in S /\ v = w /\ span'[w] = 0
    <3>1. /\ job'[j].status = "running" /\ job'[j].age = 0
          /\ job'[j].attempts = job[j].attempts
      BY <2>2, ClaimRows DEF TimelyInv
    <3>2. copy'[w][j] = job[j].attempts
      BY <1>4, <2>2, ClaimCopies DEF TimelyInv, Empty
    <3>3. CopyRuns(w, j)'
      BY <2>2, <3>1, SchedulerAssumption DEF CopyRuns
    <3> QED
      BY <2>2, <3>1, <3>2, <3>3
  <2> QED
    BY <1>2, <1>4, <2>1, <2>2
<1>5. CopiesCurrent'
  BY <1>4 DEF CopiesCurrent
<1> QED
  BY <1>1, <1>3, <1>5

(* Of the workers, at most one holds a job; a worker at a job holds it. *)
Held(w, j) == pc[w] \in AtJob /\ cur[w] = j

LEMMA HeldOnce ==
  ASSUME TimelyInv, NEW v \in Workers, NEW w \in Workers, NEW j \in Jobs,
         Held(v, j), copy[w][j] # None
  PROVE  v = w
<1>1. copy[v][j] # None
  BY DEF TimelyInv, IInv, BatchInv, Held
<1> QED
  BY <1>1 DEF TimelyInv, ClaimedOnce

LEMMA TimelyUnanswered ==
  ASSUME TimelyInv, NEW w \in Workers, SucceededUnanswered(w)
  PROVE  ClaimedOnce' /\ CopiesCurrent'
<1>1. /\ UNCHANGED <<copy, cur, span>> /\ pc' = [pc EXCEPT ![w] = "fail"]
      /\ copy[w][cur[w]] # None /\ cur[w] \in Jobs /\ pc[w] = "ok"
      /\ \A j \in Jobs \ {cur[w]} : job'[j] = job[j]
      /\ job'[cur[w]].status = "succeeded"
      /\ job'[cur[w]].attempts = job[cur[w]].attempts
  BY UnansweredRows DEF TimelyInv
<1>2. ClaimedOnce'
  BY <1>1 DEF TimelyInv, ClaimedOnce
<1>3. ASSUME NEW v \in Workers, NEW j \in Jobs, copy[v][j] # None
      PROVE  /\ job'[j].attempts = copy[v][j]
             /\ CopyRuns(v, j)' \/ CopyDone(v, j)'
  <2>1. /\ job[j].attempts = copy[v][j]
        /\ CopyRuns(v, j) \/ CopyDone(v, j)
    BY <1>3 DEF TimelyInv, CopiesCurrent
  <2>2. CASE j = cur[w]
    <3>1. v = w
      BY <1>1, <1>3, <2>2 DEF TimelyInv, ClaimedOnce
    <3>2. pc'[w] = "fail"
      BY <1>1 DEF TimelyInv, IInv, TypeOK
    <3> QED
      BY <1>1, <2>1, <2>2, <3>1, <3>2 DEF CopyDone
  <2>3. CASE j # cur[w]
    <3>1. pc'[v] = pc[v] \/ v = w
      BY <1>1 DEF TimelyInv, IInv, TypeOK
    <3> QED
      BY <1>1, <2>1, <2>3, <3>1 DEF CopyRuns, CopyDone
  <2> QED
    BY <2>2, <2>3
<1>4. CopiesCurrent'
  BY <1>1, <1>3 DEF CopiesCurrent
<1> QED
  BY <1>2, <1>4

(* A worker moves on without its batch or its job's row changing. *)
LEMMA TimelyInside ==
  ASSUME TimelyInv, UNCHANGED <<job, copy, span>>,
         \A w \in Workers, j \in Jobs :
           copy[w][j] # None /\ CopyDone(w, j) => CopyDone(w, j)'
  PROVE  ClaimedOnce' /\ CopiesCurrent'
<1>1. ClaimedOnce'
  BY DEF TimelyInv, ClaimedOnce
<1>2. CopiesCurrent'
  BY DEF TimelyInv, CopiesCurrent, CopyRuns
<1> QED
  BY <1>1, <1>2

LEMMA StepTimely ==
  ASSUME TickMax < Stale
  PROVE  TimelyInv /\ [Next]_vars => TimelyInv'
<1> SUFFICES ASSUME TimelyInv, [Next]_vars
             PROVE  ClaimedOnce' /\ CopiesCurrent'
  BY StepInv DEF TimelyInv
<1>1. CASE UNCHANGED <<job, copy, span, pc, cur>>
  BY <1>1, TimelyInside DEF CopyDone
<1>2. CASE \E j \in Jobs : HostPurges(j)
  <2>1. PICK j \in Jobs : HostPurges(j)
    BY <1>2
  <2>2. /\ UNCHANGED <<copy, span, pc, cur>>
        /\ \A w \in Workers : copy[w][j] = None
        /\ \A i \in Jobs \ {j} : job'[i] = job[i]
    BY <2>1 DEF HostPurges
  <2> QED
    BY <2>2 DEF TimelyInv, ClaimedOnce, CopiesCurrent, CopyRuns, CopyDone
<1>3. ASSUME NEW j \in Jobs,
             \/ Enqueue(j)
             \/ \E w \in Workers, t \in Types : EnqueueDue(w, t, j)
      PROVE  ClaimedOnce' /\ CopiesCurrent'
  <2>1. Inserts(j)
    BY <1>3, StepEnqueueDue DEF Enqueue, Inserts, TimelyInv
  <2>2. \A w \in Workers, i \in Jobs : copy'[w][i] # None =>
          copy[w][i] # None /\ job'[i] = job[i]
    BY <2>1 DEF Inserts, TimelyInv, IInv, BatchInv
  <2>3. \A w \in Workers, i \in Jobs : copy'[w][i] # None =>
          span'[w] = span[w] /\ pc'[w] = pc[w] /\ cur'[w] = cur[w]
    <3>1. CASE Enqueue(j)
      BY <3>1 DEF Enqueue
    <3>2. ASSUME NEW w \in Workers, NEW t \in Types, EnqueueDue(w, t, j)
          PROVE  \A v \in Workers, i \in Jobs : copy'[v][i] # None =>
                   span'[v] = span[v] /\ pc'[v] = pc[v] /\ cur'[v] = cur[v]
      <4>1. \A v \in Workers \ {w} :
              span'[v] = span[v] /\ pc'[v] = pc[v] /\ cur'[v] = cur[v]
        BY <3>2 DEF EnqueueDue, Leave, Goto, TimelyInv, IInv, TypeOK
      <4>2. copy[w] = Empty /\ copy' = copy
        BY <2>1, <3>2
           DEF EnqueueDue, Inserts, TimelyInv, IInv, BatchInv
      <4> QED
        BY <4>1, <4>2 DEF Empty
    <3> QED
      BY <1>3, <3>1, <3>2
  <2>4. copy' = copy
    BY <2>1 DEF Inserts
  <2> QED
    BY <2>2, <2>3, <2>4
       DEF TimelyInv, ClaimedOnce, CopiesCurrent, CopyRuns, CopyDone
<1>4. ASSUME NEW w \in Workers,
             \/ MarkSucceeded(w) \/ MarkRetry(w) \/ MarkDead(w)
             \/ MarkRaises(w) \/ Crash(w)
      PROVE  ClaimedOnce' /\ CopiesCurrent'
  BY <1>4, StepEnds, DropKeepsTimely DEF TimelyInv
<1>5. ASSUME NEW w \in Workers,
             \/ TickRecurring(w) \/ AdvanceRecurring(w)
             \/ \E j \in Jobs : StartJob(w, j)
             \/ \E result \in {"ok", "fail"} : HandlerEnds(w, result)
             \/ SucceededWriteFails(w)
      PROVE  ClaimedOnce' /\ CopiesCurrent'
  <2>1. UNCHANGED <<job, copy, span>>
    BY <1>5, StepInside DEF TimelyInv
  <2>2. /\ pc[w] # "fail"
        /\ \A v \in Workers \ {w} : pc'[v] = pc[v] /\ cur'[v] = cur[v]
    BY <1>5 DEF TickRecurring, AdvanceRecurring, StartJob, HandlerEnds,
                SucceededWriteFails, Goto, TimelyInv, IInv, TypeOK
  <2> QED
    BY <2>1, <2>2, TimelyInside DEF CopyDone
<1>6. ASSUME NEW t \in Types, RegisterRecurring(t)
      PROVE  UNCHANGED <<job, copy, span, pc, cur>>
  BY <1>6 DEF RegisterRecurring
<1>7. CASE UNCHANGED vars
  BY <1>1, <1>7 DEF vars
<1> QED
  BY <1>1, <1>2, <1>3, <1>4, <1>5, <1>6, <1>7, TimelyTick, TimelyClaim,
     TimelyUnanswered
     DEF Next, WorkerStep

-----------------------------------------------------------------------------
(* How often a job's handler was called.  While a worker is at the job,    *)
(* the call is not yet in the row's attempts; a call whose end was never   *)
(* written is covered by a fault.                                          *)
CallsAt(j) ==
  /\ job[j] = None => calls[j] = 0
  /\ job[j] # None => calls[j] <= MaxRetries + faults
  /\ \A w \in Workers : Held(w, j) => calls[j] <= copy[w][j] + 1 + faults
  /\ job[j] # None /\ job[j].status \notin Terminal
       /\ (\A w \in Workers : ~Held(w, j)) =>
     calls[j] <= job[j].attempts + faults

CallInv == ~Raises(level, "WARNING") => \A j \in Jobs : CallsAt(j)

(* The inductive invariant behind CallsBounded. *)
CalledInv == TimelyInv /\ CallInv

LEMMA Numbers ==
  ASSUME IInv
  PROVE  /\ MaxRetries \in Nat /\ faults \in Nat
         /\ \A j \in Jobs : calls[j] \in Nat
         /\ \A j \in Jobs : job[j] # None => job[j].attempts \in Nat
         /\ \A w \in Workers, j \in Jobs :
              copy[w][j] # None =>
                copy[w][j] \in Nat /\ copy[w][j] + 1 <= MaxRetries
<1>1. MaxRetries \in Nat /\ faults \in Nat /\ \A j \in Jobs : calls[j] \in Nat
  BY SchedulerAssumption DEF IInv, TypeOK
<1>2. \A j \in Jobs : job[j] # None => job[j].attempts \in Nat
  BY DEF IInv, TypeOK, JobRow
<1>3. ASSUME NEW w \in Workers, NEW j \in Jobs, copy[w][j] # None
      PROVE  copy[w][j] \in Nat /\ copy[w][j] + 1 <= MaxRetries
  <2>1. copy[w][j] \in 0..MaxRetries - 1
    BY <1>3 DEF IInv, TypeOK
  <2> QED
    BY <2>1, SchedulerAssumption
<1> QED
  BY <1>1, <1>2, <1>3

(* The plain case: no handler called, the row and its holder as they were. *)
LEMMA CallsKept ==
  ASSUME IInv, NEW j \in Jobs, CallsAt(j), calls'[j] = calls[j],
         faults' \in Nat, faults <= faults',
         job'[j] = None <=> job[j] = None,
         job[j] # None =>
           /\ job'[j].attempts = job[j].attempts
           /\ job'[j].status \notin Terminal => job[j].status \notin Terminal,
         \A w \in Workers :
           /\ Held(w, j)' <=> Held(w, j)
           /\ Held(w, j) => copy'[w][j] = copy[w][j] /\ copy[w][j] # None
  PROVE  CallsAt(j)'
<1>1. /\ calls[j] \in Nat /\ faults \in Nat /\ MaxRetries \in Nat
      /\ job[j] # None => job[j].attempts \in Nat
      /\ \A w \in Workers : copy[w][j] # None => copy[w][j] \in Nat
  BY Numbers
<1>2. job'[j] = None => calls'[j] = 0
  BY DEF CallsAt
<1>3. job'[j] # None => calls'[j] <= MaxRetries + faults'
  BY <1>1 DEF CallsAt
<1>4. ASSUME NEW w \in Workers, Held(w, j)'
      PROVE  calls'[j] <= copy'[w][j] + 1 + faults'
  <2>1. copy'[w][j] = copy[w][j] /\ copy[w][j] \in Nat
        /\ calls[j] <= copy[w][j] + 1 + faults
    BY <1>1, <1>4 DEF CallsAt
  <2> QED
    BY <1>1, <2>1
<1>5. ASSUME job'[j] # None, job'[j].status \notin Terminal,
             \A w \in Workers : ~Held(w, j)'
      PROVE  calls'[j] <= job'[j].attempts + faults'
  <2>1. calls[j] <= job[j].attempts + faults
        /\ job[j].attempts \in Nat /\ job'[j].attempts = job[j].attempts
    BY <1>1, <1>5 DEF CallsAt
  <2> QED
    BY <1>1, <2>1
<1> QED
  BY <1>2, <1>3, <1>4, <1>5 DEF CallsAt

LEMMA CallsInsert ==
  ASSUME IInv, NEW j \in Jobs, CallsAt(j), Inserts(j),
         UNCHANGED <<calls, faults>>,
         \A w \in Workers : Held(w, j)' => copy[w][j] # None
  PROVE  CallsAt(j)'
<1>1. calls'[j] = 0 /\ job'[j] # None /\ job'[j].attempts = 0
  BY FreshRow DEF CallsAt, Inserts, IInv, TypeOK, Fresh
<1>2. \A w \in Workers : ~Held(w, j)'
  BY DEF Inserts, IInv, BatchInv
<1>3. faults' = faults /\ faults \in Nat /\ MaxRetries \in Nat
  BY Numbers
<1> QED
  BY <1>1, <1>2, <1>3 DEF CallsAt

LEMMA CallsStart ==
  ASSUME TimelyInv, NEW j \in Jobs, CallsAt(j), NEW w \in Workers,
         StartJob(w, j)
  PROVE  CallsAt(j)'
<1>1. /\ UNCHANGED <<job, copy, faults>> /\ copy[w][j] # None /\ pc[w] = "run"
      /\ \A v \in Workers \ {w} : pc'[v] = pc[v] /\ cur'[v] = cur[v]
  BY DEF StartJob, Goto, TimelyInv, IInv, TypeOK
<1>2. \A v \in Workers : ~Held(v, j)
  BY <1>1, HeldOnce DEF Held, AtJob
<1>3. \A v \in Workers : Held(v, j)' => v = w
  BY <1>1, <1>2 DEF Held
<1>h. pc'[w] \in AtJob /\ cur'[w] = j
  <2>1. pc' = [pc EXCEPT ![w] = IF j \in Handled THEN "handle" ELSE "fail"]
        /\ cur' = [cur EXCEPT ![w] = j]
    BY DEF StartJob, Goto
  <2> QED
    BY <2>1 DEF TimelyInv, IInv, TypeOK, AtJob
<1>4. job[j] # None /\ job[j].status = "running"
      /\ job[j].attempts = copy[w][j]
  BY <1>1 DEF TimelyInv, IInv, BatchInv, CopiesCurrent, CopyRuns, CopyDone
<1>5. calls[j] <= copy[w][j] + faults
  BY <1>2, <1>4 DEF CallsAt, Terminal
<1>6. calls'[j] \in Nat /\ calls'[j] <= calls[j] + 1
  <2>1. calls'[j] = calls[j] \/ calls'[j] = Least(calls[j] + 1, CallsMax)
    BY DEF StartJob, TimelyInv, IInv, TypeOK
  <2>2. calls[j] \in Nat /\ CallsMax \in Nat
    BY SchedulerAssumption, Numbers DEF CallsMax, TimelyInv
  <2> QED
    BY <2>1, <2>2 DEF Least
<1>7. /\ copy[w][j] \in Nat /\ copy[w][j] + 1 <= MaxRetries
      /\ faults \in Nat /\ MaxRetries \in Nat /\ calls[j] \in Nat
  BY <1>1, Numbers DEF TimelyInv
<1>8. /\ calls'[j] <= copy[w][j] + 1 + faults
      /\ calls'[j] <= MaxRetries + faults
  BY <1>5, <1>6, <1>7
<1> QED
  BY <1>1, <1>3, <1>h, <1>4, <1>8 DEF CallsAt, Held

(* What a worker leaves in the row of the job it was at: an outcome, one   *)
(* attempt more, or, when it died, what was there.                         *)
Counted(w, j) ==
  \/ job'[j].status \in Terminal
  \/ job'[j].attempts = copy[w][j] + 1
  \/ job'[j].attempts = copy[w][j] /\ faults' = faults + 1

LEMMA CallsEnd ==
  ASSUME TimelyInv, NEW j \in Jobs, CallsAt(j), NEW w \in Workers,
         Held(w, j), Drops(w), WritesCurrent(w), Counted(w, j),
         calls' = calls, faults' \in Nat, faults <= faults'
  PROVE  CallsAt(j)'
<1>1. /\ copy[w][j] # None /\ job[j] # None /\ job'[j] # None
  BY DEF TimelyInv, IInv, BatchInv, Held, WritesCurrent
<1>2. \A v \in Workers : ~Held(v, j)'
  <2>1. pc'[w] \notin AtJob
    BY DEF Drops, AtJob
  <2>2. \A v \in Workers \ {w} : ~Held(v, j)
    BY <1>1, HeldOnce
  <2> QED
    BY <2>1, <2>2 DEF Drops, Held
<1>3. /\ calls[j] \in Nat /\ faults \in Nat /\ MaxRetries \in Nat
      /\ copy[w][j] \in Nat
  BY <1>1, Numbers DEF TimelyInv
<1>4. /\ calls[j] <= copy[w][j] + 1 + faults
      /\ calls[j] <= MaxRetries + faults
  BY <1>1 DEF CallsAt
<1>5. job'[j].status \notin Terminal => calls'[j] <= job'[j].attempts + faults'
  <2>1. CASE job'[j].attempts = copy[w][j] + 1
    BY <1>3, <1>4, <2>1
  <2>2. CASE job'[j].attempts = copy[w][j] /\ faults' = faults + 1
    BY <1>3, <1>4, <2>2
  <2> QED
    BY <2>1, <2>2 DEF Counted
<1>6. calls'[j] <= MaxRetries + faults'
  BY <1>3, <1>4
<1> QED
  BY <1>1, <1>2, <1>5, <1>6 DEF CallsAt

(* Where the dead-letter log call is silent, the other log calls of        *)
(* mark_succeeded and mark_failed are silent too.                          *)
LEMMA Silent ==
  ASSUME TypeOK, ~Raises(level, "WARNING")
  PROVE  ~Raises(level, "INFO")
<1>1. Rank["WARNING"] = 30 /\ Rank["INFO"] = 20
  BY DEF Rank
<1>2. \A l \in DOMAIN Rank : Rank[l] \in Nat
  BY DEF Rank
<1>3. level \in DOMAIN Rank
  BY SchedulerAssumption DEF TypeOK
<1> QED
  BY <1>1, <1>2, <1>3 DEF Raises

LEMMA EndsCounted ==
  ASSUME TimelyInv, ~Raises(level, "WARNING"), NEW w \in Workers,
         NEW j \in Jobs, Held(w, j),
         \/ MarkSucceeded(w) \/ MarkRetry(w) \/ MarkDead(w) \/ MarkRaises(w)
         \/ Crash(w)
  PROVE  Counted(w, j)
<1>1. /\ cur[w] = j /\ job[j] # None /\ job[j] \in JobRow
      /\ copy[w][j] # None /\ job[j].attempts = copy[w][j]
  <2>1. cur[w] = j /\ job[j] # None /\ job[j] \in JobRow /\ copy[w][j] # None
    BY AtAJob DEF TimelyInv, Held
  <2> QED
    BY <2>1 DEF TimelyInv, CopiesCurrent
<1>2. CASE MarkSucceeded(w)
  <2>1. job'[j] = [job[j] EXCEPT !.status = "succeeded"]
    BY <1>1, <1>2 DEF MarkSucceeded, TimelyInv, IInv, TypeOK
  <2> QED
    BY <1>1, <2>1, RowSucceeded DEF Counted, Terminal
<1>3. CASE MarkRetry(w)
  <2>1. job'[j].attempts = copy[w][j] + 1
    BY <1>1, <1>3 DEF MarkRetry, TimelyInv, IInv, TypeOK
  <2> QED
    BY <2>1 DEF Counted
<1>4. CASE MarkDead(w)
  <2>1. job'[j].status = "dead_lettered"
    BY <1>1, <1>4 DEF MarkDead, TimelyInv, IInv, TypeOK, JobRow
  <2> QED
    BY <2>1 DEF Counted, Terminal
<1>5. CASE MarkRaises(w)
  BY <1>5, Silent DEF MarkRaises, TimelyInv, IInv
<1>6. CASE Crash(w)
  BY <1>1, <1>6 DEF Crash, Counted
<1> QED
  BY <1>2, <1>3, <1>4, <1>5, <1>6

LEMMA CallsClaim ==
  ASSUME TimelyInv, NEW j \in Jobs, CallsAt(j), NEW w \in Workers, NEW S,
         Claim(w, S)
  PROVE  CallsAt(j)'
<1>1. /\ job'[j] = None <=> job[j] = None
      /\ job[j] # None =>
           /\ job'[j].attempts = job[j].attempts
           /\ job'[j].status \notin Terminal => job[j].status \notin Terminal
  BY ClaimRows DEF TimelyInv, Terminal
<1>2. UNCHANGED <<calls, faults>>
  BY DEF Claim
<1>3. ~Held(w, j) /\ ~Held(w, j)'
  BY ClaimCopies DEF Claim, Held, AtJob, TimelyInv
<1>4. \A v \in Workers \ {w} : /\ Held(v, j)' <=> Held(v, j)
                               /\ copy'[v] = copy[v]
  BY ClaimCopies DEF Held, TimelyInv
<1>5. \A v \in Workers : Held(v, j) => copy[v][j] # None
  BY DEF Held, TimelyInv, IInv, BatchInv
<1>6. faults \in Nat
  BY Numbers DEF TimelyInv
<1> QED
  BY <1>1, <1>2, <1>3, <1>4, <1>5, <1>6, CallsKept DEF TimelyInv

(* A step that leaves the rows and the attempts in hand alone. *)
LEMMA CallsStay ==
  ASSUME TimelyInv, NEW j \in Jobs, CallsAt(j), calls'[j] = calls[j],
         faults' \in Nat, faults <= faults',
         job'[j] = None <=> job[j] = None,
         job[j] # None =>
           /\ job'[j].attempts = job[j].attempts
           /\ job'[j].status \notin Terminal => job[j].status \notin Terminal,
         \A w \in Workers : Held(w, j)' <=> Held(w, j),
         copy' = copy
  PROVE  CallsAt(j)'
<1>1. \A v \in Workers : Held(v, j) => copy[v][j] # None
  BY DEF Held, TimelyInv, IInv, BatchInv
<1> QED
  BY <1>1, CallsKept DEF TimelyInv

LEMMA CallsDrop ==
  ASSUME TimelyInv, ~Raises(level, "WARNING"), NEW j \in Jobs, CallsAt(j),
         NEW w \in Workers,
         \/ MarkSucceeded(w) \/ MarkRetry(w) \/ MarkDead(w) \/ MarkRaises(w)
         \/ Crash(w)
  PROVE  CallsAt(j)'
<1>1. /\ calls' = calls /\ faults' \in Nat /\ faults <= faults'
  <2>1. calls' = calls /\ (faults' = faults \/ faults' = faults + 1)
    BY DEF MarkSucceeded, MarkRetry, MarkDead, MarkRaises, Crash
  <2>2. faults \in Nat
    BY Numbers DEF TimelyInv
  <2> QED
    BY <2>1, <2>2
<1>2. Drops(w) /\ WritesCurrent(w)
  BY StepEnds DEF TimelyInv
<1>3. CASE Held(w, j)
  BY <1>1, <1>2, <1>3, EndsCounted, CallsEnd
<1>4. CASE ~Held(w, j)
  <2>1. job'[j] = job[j]
    <3>1. pc[w] \notin AtJob => job' = job
      BY DEF MarkSucceeded, MarkRetry, MarkDead, MarkRaises, Crash, AtJob
    <3>2. pc[w] \in AtJob => j # cur[w]
      BY <1>4 DEF Held
    <3> QED
      BY <1>2, <3>1, <3>2 DEF WritesCurrent
  <2>2. ~Held(w, j)'
    BY <1>2 DEF Drops, Held, AtJob
  <2>3. \A v \in Workers \ {w} : /\ Held(v, j)' <=> Held(v, j)
                                 /\ copy'[v] = copy[v]
    BY <1>2 DEF Drops, Held
  <2>4. \A v \in Workers : Held(v, j) => copy[v][j] # None
    BY DEF Held, TimelyInv, IInv, BatchInv
  <2> QED
    BY <1>1, <1>4, <2>1, <2>2, <2>3, <2>4, CallsKept DEF TimelyInv
<1> QED
  BY <1>3, <1>4

LEMMA CallsInside ==
  ASSUME TimelyInv, NEW j \in Jobs, CallsAt(j), NEW w \in Workers,
         \/ TickRecurring(w) \/ AdvanceRecurring(w)
         \/ \E i \in Jobs : StartJob(w, i)
         \/ \E result \in {"ok", "fail"} : HandlerEnds(w, result)
         \/ SucceededWriteFails(w)
  PROVE  CallsAt(j)'
<1>1. UNCHANGED <<job, copy>>
  BY StepInside DEF TimelyInv
<1>2. CASE StartJob(w, j)
  BY <1>2, CallsStart
<1>3. CASE ~StartJob(w, j)
  <2>1. calls'[j] = calls[j]
    BY <1>3 DEF TickRecurring, AdvanceRecurring, StartJob, HandlerEnds,
                SucceededWriteFails, TimelyInv, IInv, TypeOK
  <2>2. faults' \in Nat /\ faults <= faults'
    <3>1. faults' = faults \/ faults' = faults + 1
      BY DEF TickRecurring, AdvanceRecurring, StartJob, HandlerEnds,
             SucceededWriteFails
    <3>2. faults \in Nat
      BY Numbers DEF TimelyInv
    <3> QED
      BY <3>1, <3>2
  <2>3. \A v \in Workers \ {w} : Held(v, j)' <=> Held(v, j)
    BY DEF TickRecurring, AdvanceRecurring, StartJob, HandlerEnds,
           SucceededWriteFails, Goto, Held, TimelyInv, IInv, TypeOK
  <2>4. Held(w, j)' <=> Held(w, j)
    <3>1. CASE \/ TickRecurring(w) \/ AdvanceRecurring(w)
      <4>1. pc'[w] = "recur" /\ pc[w] \notin AtJob
        BY <3>1 DEF TickRecurring, AdvanceRecurring, Goto, TimelyInv, IInv,
                    TypeOK, AtJob
      <4> QED
        BY <4>1 DEF Held, AtJob
    <3>2. CASE \E i \in Jobs : StartJob(w, i)
      <4>1. PICK i \in Jobs : StartJob(w, i)
        BY <3>2
      <4>2. i # j
        BY <1>3, <4>1
      <4>3. cur'[w] = i /\ pc[w] = "run"
        BY <4>1 DEF StartJob, TimelyInv, IInv, TypeOK
      <4> QED
        BY <4>2, <4>3 DEF Held, AtJob
    <3>3. CASE \/ \E result \in {"ok", "fail"} : HandlerEnds(w, result)
               \/ SucceededWriteFails(w)
      <4>1. pc[w] \in AtJob /\ pc'[w] \in AtJob /\ cur' = cur
        BY <3>3 DEF HandlerEnds, SucceededWriteFails, Goto, TimelyInv, IInv,
                    TypeOK, AtJob
      <4> QED
        BY <4>1 DEF Held
    <3> QED
      BY <3>1, <3>2, <3>3
  <2> QED
    BY <1>1, <2>1, <2>2, <2>3, <2>4, CallsStay
<1> QED
  BY <1>2, <1>3

LEMMA CallsUnanswered ==
  ASSUME TimelyInv, NEW j \in Jobs, CallsAt(j), NEW w \in Workers,
         SucceededUnanswered(w)
  PROVE  CallsAt(j)'
<1>1. /\ UNCHANGED <<copy, cur, calls>> /\ pc' = [pc EXCEPT ![w] = "fail"]
      /\ pc[w] \in AtJob /\ faults' = faults + 1
  BY UnansweredRows DEF TimelyInv
<1>2. /\ job'[j] = None <=> job[j] = None
      /\ job[j] # None =>
           /\ job'[j].attempts = job[j].attempts
           /\ job'[j].status \notin Terminal => job[j].status \notin Terminal
  BY UnansweredRows DEF TimelyInv, Terminal
<1>3. \A v \in Workers : Held(v, j)' <=> Held(v, j)
  BY <1>1 DEF Held, TimelyInv, IInv, TypeOK, AtJob
<1>4. faults' \in Nat /\ faults <= faults'
  BY <1>1, Numbers DEF TimelyInv
<1> QED
  BY <1>1, <1>2, <1>3, <1>4, CallsStay

LEMMA CallsApp ==
  ASSUME TimelyInv, NEW j \in Jobs, CallsAt(j),
         \/ \E i \in Jobs : Enqueue(i) \/ HostPurges(i)
         \/ \E t \in Types : RegisterRecurring(t)
         \/ Tick
  PROVE  CallsAt(j)'
<1>1. UNCHANGED <<pc, cur, copy, faults>>
  BY DEF Enqueue, HostPurges, RegisterRecurring, Tick
<1>2. \A w \in Workers : Held(w, j)' <=> Held(w, j)
  BY <1>1 DEF Held
<1>3. faults \in Nat
  BY Numbers DEF TimelyInv
<1>4. CASE Enqueue(j)
  <2>1. Inserts(j) /\ UNCHANGED <<calls, faults>>
    BY <1>4 DEF Enqueue, Inserts
  <2>2. \A w \in Workers : Held(w, j)' => copy[w][j] # None
    BY <1>2 DEF Held, TimelyInv, IInv, BatchInv
  <2> QED
    BY <2>1, <2>2, CallsInsert DEF TimelyInv
<1>5. CASE HostPurges(j)
  <2>1. /\ job'[j] = None /\ calls'[j] = 0
        /\ \A w \in Workers : copy[w][j] = None
    BY <1>5 DEF HostPurges, TimelyInv, IInv, TypeOK
  <2>2. \A w \in Workers : ~Held(w, j)'
    BY <1>2, <2>1 DEF Held, TimelyInv, IInv, BatchInv
  <2> QED
    BY <2>1, <2>2 DEF CallsAt
<1>6. CASE Tick
  <2>1. calls' = calls
    BY <1>6 DEF Tick
  <2> QED
    BY <1>1, <1>2, <1>3, <1>6, <2>1, TickRows, CallsStay DEF TimelyInv
<1>7. CASE \/ \E i \in Jobs \ {j} : Enqueue(i) \/ HostPurges(i)
           \/ \E t \in Types : RegisterRecurring(t)
  <2>1. job'[j] = job[j] /\ calls'[j] = calls[j]
    BY <1>7 DEF Enqueue, HostPurges, RegisterRecurring, TimelyInv, IInv,
                TypeOK
  <2> QED
    BY <1>1, <1>2, <1>3, <2>1, CallsStay
<1> QED
  BY <1>4, <1>5, <1>6, <1>7

LEMMA CallsEnqueueDue ==
  ASSUME TimelyInv, NEW j \in Jobs, CallsAt(j),
         NEW w \in Workers, NEW t \in Types, NEW i \in Jobs,
         EnqueueDue(w, t, i)
  PROVE  CallsAt(j)'
<1>1. Inserts(i) /\ copy' = copy
  BY StepEnqueueDue DEF TimelyInv, Inserts
<1>2. UNCHANGED <<calls, faults>>
  BY DEF EnqueueDue
<1>3. /\ pc[w] \notin AtJob /\ pc'[w] \notin AtJob
      /\ \A v \in Workers \ {w} : pc'[v] = pc[v] /\ cur'[v] = cur[v]
  BY DEF EnqueueDue, Leave, Goto, TimelyInv, IInv, TypeOK, AtJob
<1>4. \A v \in Workers : Held(v, j)' <=> Held(v, j)
  BY <1>3 DEF Held
<1>5. faults \in Nat
  BY Numbers DEF TimelyInv
<1>6. CASE i = j
  <2>1. \A v \in Workers : Held(v, j)' => copy[v][j] # None
    BY <1>4 DEF Held, TimelyInv, IInv, BatchInv
  <2> QED
    BY <1>1, <1>2, <1>6, <2>1, CallsInsert DEF TimelyInv
<1>7. CASE i # j
  <2>1. job'[j] = job[j]
    BY <1>1, <1>7 DEF Inserts
  <2> QED
    BY <1>1, <1>2, <1>4, <1>5, <2>1, CallsStay
<1> QED
  BY <1>6, <1>7

LEMMA StepCalls ==
  CalledInv /\ [Next]_vars => CallInv'
<1> SUFFICES ASSUME TimelyInv, CallInv, [Next]_vars,
                    ~Raises(level', "WARNING"), NEW j \in Jobs
             PROVE  CallsAt(j)'
  BY DEF CalledInv, CallInv
<1>1. level' = level
  <2>1. ASSUME NEW w \in Workers, WorkerStep(w) \/ Crash(w)
               \/ SucceededWriteFails(w) \/ SucceededUnanswered(w)
        PROVE  level' = level
    BY <2>1 DEF WorkerStep, TickRecurring, AdvanceRecurring, EnqueueDue,
                Claim, StartJob, HandlerEnds, MarkSucceeded, MarkRetry,
                MarkDead, MarkRaises, Crash, SucceededWriteFails,
                SucceededUnanswered
  <2> QED
    BY <2>1 DEF Next, vars, Tick, Enqueue, HostPurges, RegisterRecurring
<1>2. ~Raises(level, "WARNING") /\ CallsAt(j)
  BY <1>1 DEF CallInv
<1>3. CASE UNCHANGED vars
  BY <1>2, <1>3 DEF vars, CallsAt, Held
<1>4. CASE \E w \in Workers : \/ WorkerStep(w) \/ Crash(w)
                              \/ SucceededWriteFails(w)
                              \/ SucceededUnanswered(w)
  BY <1>2, <1>4, CallsInside, CallsDrop, CallsClaim, CallsUnanswered,
     CallsEnqueueDue DEF WorkerStep
<1>5. CASE \/ \E i \in Jobs : Enqueue(i) \/ HostPurges(i)
           \/ \E t \in Types : RegisterRecurring(t)
           \/ Tick
  BY <1>2, <1>5, CallsApp
<1> QED
  BY <1>3, <1>4, <1>5 DEF Next

-----------------------------------------------------------------------------
THEOREM Invariance == Spec => []IInv
<1>1. Init => IInv
  BY InitInv DEF TimelyInv
<1> QED
  BY <1>1, StepInv, PTL DEF Spec

(* Type correctness: among others, no job has more attempts than           *)
(* max_retries, and every status is one the claim query knows.             *)
THEOREM TypeCorrect == Spec => []TypeOK
<1>1. IInv => TypeOK
  BY DEF IInv
<1> QED
  BY <1>1, Invariance, PTL

THEOREM TimelyInvariance ==
  ASSUME TickMax < Stale
  PROVE  Spec => []TimelyInv
<1>1. Init => TimelyInv
  BY InitInv
<1>2. TimelyInv /\ [Next]_vars => TimelyInv'
  BY StepTimely
<1> QED
  BY <1>1, <1>2, PTL DEF Spec

(* claim_due_jobs gives a job to one worker at a time, although it takes   *)
(* over stale claims, if batches end in time.                              *)
THEOREM ClaimExclusive ==
  ASSUME TickMax < Stale
  PROVE  Spec => []ClaimedOnce
<1>1. TimelyInv => ClaimedOnce
  BY DEF TimelyInv
<1>2. Spec => []TimelyInv
  BY TimelyInvariance
<1> QED
  BY <1>1, <1>2, PTL

(* A job's handler is called max_retries times at most, and once more for  *)
(* each fault, where store.py's dead-letter log call is silent and every   *)
(* batch ends before its claims are stale.                                 *)
THEOREM CallsBoundedHolds ==
  ASSUME TickMax < Stale
  PROVE  Spec => []CallsBounded
<1>1. Init => CallInv
  <2>1. Init => \A j \in Jobs : CallsAt(j)
    BY DEF Init, Empty, CallsAt, Held, AtJob
  <2> QED
    BY <2>1 DEF CallInv
<1>2. CalledInv /\ [Next]_vars => CallInv'
  BY StepCalls
<1>3. Spec => []TimelyInv
  BY TimelyInvariance
<1>4. CallInv => CallsBounded
  BY DEF CallInv, CallsAt, CallsBounded
<1> QED
  BY <1>1, <1>2, <1>3, <1>4, PTL DEF Spec, CalledInv

-----------------------------------------------------------------------------
(* The refinement: the rows and batches of Scheduler behave as WorkQueue.  *)

(* What a job looks like to the queue, from its row and its holder. *)
StateOf(jb, cp) == [j \in Jobs |->
  IF jb[j] = None THEN "absent"
  ELSE CASE jb[j].status = "pending" -> "open"
         [] jb[j].status \in Terminal -> "done"
         [] OTHER -> IF \E w \in Workers : cp[w][j] # None
                     THEN CHOOSE w \in Workers : cp[w][j] # None
                     ELSE "lost"]

QueueStates == {"absent", "open", "lost", "done"} \cup Workers

LEMMA StateFacts ==
  ASSUME NEW jb, NEW cp, NEW j \in Jobs,
         \A v, w \in Workers : cp[v][j] # None /\ cp[w][j] # None => v = w
  PROVE  /\ jb[j] = None => StateOf(jb, cp)[j] = "absent"
         /\ jb[j] # None /\ jb[j].status = "pending" =>
              StateOf(jb, cp)[j] = "open"
         /\ jb[j] # None /\ jb[j].status \in Terminal =>
              StateOf(jb, cp)[j] = "done"
         /\ jb[j] # None /\ jb[j].status = "running" =>
              /\ \A w \in Workers : cp[w][j] # None =>
                   StateOf(jb, cp)[j] = w
              /\ (\A w \in Workers : cp[w][j] = None) =>
                   StateOf(jb, cp)[j] = "lost"
<1> DEFINE st == StateOf(jb, cp)[j]
<1>1. jb[j] = None => st = "absent"
  BY DEF StateOf
<1>2. jb[j] # None /\ jb[j].status = "pending" => st = "open"
  BY DEF StateOf, Terminal
<1>3. jb[j] # None /\ jb[j].status \in Terminal => st = "done"
  BY DEF StateOf, Terminal
<1>4. ASSUME jb[j] # None, jb[j].status = "running"
      PROVE  st = IF \E w \in Workers : cp[w][j] # None
                  THEN CHOOSE w \in Workers : cp[w][j] # None ELSE "lost"
  BY <1>4 DEF StateOf, Terminal
<1>5. ASSUME jb[j] # None, jb[j].status = "running",
             NEW w \in Workers, cp[w][j] # None
      PROVE  st = w
  <2>1. st = CHOOSE v \in Workers : cp[v][j] # None
    BY <1>4, <1>5
  <2>2. st \in Workers /\ cp[st][j] # None
    BY <1>5, <2>1
  <2> QED
    BY <1>5, <2>2
<1> QED
  BY <1>1, <1>2, <1>3, <1>4, <1>5

LEMMA StateIs == QueueState = StateOf(job, copy)
                 /\ QueueState' = StateOf(job', copy')
BY DEF QueueState, StateOf

(* Rows that keep existence and status, with the same copies, look alike. *)
LEMMA SameState ==
  ASSUME TimelyInv, TimelyInv', NEW j \in Jobs,
         job'[j] = None <=> job[j] = None,
         job[j] # None => job'[j].status = job[j].status,
         \A w \in Workers : copy'[w][j] = None <=> copy[w][j] = None
  PROVE  QueueState'[j] = QueueState[j]
<1>1. \A v, w \in Workers : copy[v][j] # None /\ copy[w][j] # None => v = w
  BY DEF TimelyInv, ClaimedOnce
<1>2. \A v, w \in Workers : copy'[v][j] # None /\ copy'[w][j] # None => v = w
  BY DEF TimelyInv, ClaimedOnce
<1>3. job[j] # None =>
        job[j].status \in {"pending", "running"} \cup Terminal
  BY DEF TimelyInv, IInv, TypeOK, JobRow
<1> QED
  BY <1>1, <1>2, <1>3, StateFacts, StateIs

(* Who has still to be told of a finished job. *)
LEMMA UnansweredIs ==
  /\ \A w \in Workers, j \in Jobs :
       /\ <<w, j>> \in Unanswered <=>
            copy[w][j] # None /\ job[j] # None /\ job[j].status \in Terminal
       /\ <<w, j>> \in Unanswered' <=>
            copy'[w][j] # None /\ job'[j] # None /\ job'[j].status \in Terminal
  /\ \A p \in Unanswered \cup Unanswered' :
       p[1] \in Workers /\ p[2] \in Jobs /\ p = <<p[1], p[2]>>
BY DEF Unanswered

LEMMA SameUnanswered ==
  ASSUME \A w \in Workers, j \in Jobs :
           <<w, j>> \in Unanswered' <=> <<w, j>> \in Unanswered
  PROVE  Unanswered' = Unanswered
BY UnansweredIs

LEMMA Same ==
  ASSUME TimelyInv, TimelyInv',
         \A j \in Jobs :
           /\ job'[j] = None <=> job[j] = None
           /\ job[j] # None => job'[j].status = job[j].status,
         copy' = copy
  PROVE  UNCHANGED <<QueueState, Unanswered>>
<1>1. \A j \in Jobs : QueueState'[j] = QueueState[j]
  BY SameState
<1>2. Unanswered' = Unanswered
  BY UnansweredIs, SameUnanswered
<1> QED
  BY <1>1, <1>2, StateIs DEF StateOf

LEMMA StateOfType ==
  ASSUME NEW jb, NEW cp,
         \A j \in Jobs, v, w \in Workers :
           cp[v][j] # None /\ cp[w][j] # None => v = w,
         jb \in [Jobs -> JobRow \cup {None}]
  PROVE  StateOf(jb, cp) \in [Jobs -> QueueStates]
<1> SUFFICES ASSUME NEW j \in Jobs
             PROVE  StateOf(jb, cp)[j] \in QueueStates
  BY DEF StateOf
<1>1. jb[j] # None => jb[j].status \in {"pending", "running"} \cup Terminal
  BY DEF JobRow
<1> QED
  BY <1>1, StateFacts DEF QueueStates

LEMMA StateType ==
  /\ TimelyInv => QueueState \in [Jobs -> QueueStates]
  /\ TimelyInv' => QueueState' \in [Jobs -> QueueStates]
BY StateOfType, StateIs DEF TimelyInv, IInv, TypeOK, ClaimedOnce

LEMMA InsertPuts ==
  ASSUME TimelyInv, TimelyInv', NEW j \in Jobs, Inserts(j)
  PROVE  Queue!Put(j)
<1>1. job[j] = None /\ copy' = copy
  BY DEF Inserts
<1>2. /\ \A i \in Jobs \ {j} : job'[i] = job[i]
      /\ job'[j] # None /\ job'[j].status = "pending"
  BY FreshRow DEF Inserts, TimelyInv, IInv, TypeOK
<1>3. QueueState[j] = "absent" /\ QueueState'[j] = "open"
  <2>1. \A v, w \in Workers : copy[v][j] # None /\ copy[w][j] # None => v = w
    BY DEF TimelyInv, ClaimedOnce
  <2> QED
    BY <1>1, <1>2, <2>1, StateFacts, StateIs
<1>4. \A i \in Jobs \ {j} : QueueState'[i] = QueueState[i]
  BY <1>1, <1>2, SameState
<1>5. Unanswered' = Unanswered
  <2>1. \A w \in Workers : copy[w][j] = None
    BY <1>1 DEF TimelyInv, IInv, BatchInv
  <2> QED
    BY <1>1, <1>2, <2>1, UnansweredIs, SameUnanswered
<1> QED
  BY <1>3, <1>4, <1>5, StateType DEF Queue!Put

LEMMA PurgePurges ==
  ASSUME TimelyInv, TimelyInv', NEW j \in Jobs, HostPurges(j)
  PROVE  Queue!Purge(j)
<1>1. /\ copy' = copy /\ job[j] # None /\ job[j].status \in Terminal
      /\ job'[j] = None /\ \A i \in Jobs \ {j} : job'[i] = job[i]
  BY DEF HostPurges, TimelyInv, IInv, TypeOK
<1>2. \A v, w \in Workers : copy[v][j] # None /\ copy[w][j] # None => v = w
  BY DEF TimelyInv, ClaimedOnce
<1>3. QueueState[j] = "done" /\ QueueState'[j] = "absent"
  BY <1>1, <1>2, StateFacts, StateIs
<1>4. \A i \in Jobs \ {j} : QueueState'[i] = QueueState[i]
  BY <1>1, SameState
<1>5. \A w \in Workers : copy[w][j] = None
  BY DEF HostPurges
<1>6. Unanswered' = Unanswered
  BY <1>1, <1>5, UnansweredIs, SameUnanswered
<1>7. \A w \in Workers : <<w, j>> \notin Unanswered
  BY <1>5, UnansweredIs
<1> QED
  BY <1>3, <1>4, <1>6, <1>7, StateType DEF Queue!Purge

LEMMA ClaimTakes ==
  ASSUME TimelyInv, TimelyInv', TickMax < Stale,
         NEW w \in Workers, NEW S, Claim(w, S)
  PROVE  Queue!Take(w)
<1>1. \A i \in Jobs \ S : QueueState'[i] = QueueState[i]
  <2> TAKE i \in Jobs \ S
  <2>1. copy[w][i] = None /\ copy'[w][i] = None
    <3>1. copy[w] = Empty
      BY DEF Claim, TimelyInv, IInv, BatchInv
    <3> QED
      BY <3>1, ClaimCopies DEF Empty, TimelyInv
  <2>2. job'[i] = job[i]
    BY ClaimRows DEF TimelyInv
  <2>3. \A v \in Workers : copy'[v][i] = None <=> copy[v][i] = None
    BY <2>1, ClaimCopies DEF TimelyInv
  <2> QED
    BY <2>2, <2>3, SameState
<1>2. ASSUME NEW i \in S
      PROVE  /\ QueueState[i] \in {"open", "lost"}
             /\ QueueState'[i] \in {w, "lost"}
  <2>1. i \in Jobs /\ \A v \in Workers : copy[v][i] = None
    BY ClaimRows, TimelyClaim DEF TimelyInv
  <2>2. /\ \A v, u \in Workers :
               copy[v][i] # None /\ copy[u][i] # None => v = u
        /\ \A v, u \in Workers :
             copy'[v][i] # None /\ copy'[u][i] # None => v = u
    BY <2>1 DEF TimelyInv, ClaimedOnce
  <2>3. \A v \in Workers \ {w} : copy'[v][i] = None
    BY <2>1, ClaimCopies DEF TimelyInv
  <2>4. /\ job[i] # None /\ job[i].status \in {"pending", "running"}
        /\ job'[i] # None /\ job'[i].status = "running"
    BY ClaimRows DEF TimelyInv
  <2>5. QueueState[i] \in {"open", "lost"}
    BY <2>1, <2>2, <2>4, StateFacts, StateIs
  <2> QED
    BY <2>1, <2>2, <2>3, <2>4, <2>5, StateFacts, StateIs
<1>3. S \subseteq Jobs /\ QueueState' \in [Jobs -> QueueStates]
  BY ClaimRows, StateType DEF TimelyInv
<1>4. Unanswered' = Unanswered
  <2>1. ASSUME NEW v \in Workers, NEW i \in S
        PROVE  <<v, i>> \notin Unanswered /\ <<v, i>> \notin Unanswered'
    <3>1. i \in Jobs /\ copy[v][i] = None /\ job'[i].status = "running"
      BY <2>1, ClaimRows, TimelyClaim DEF TimelyInv
    <3> QED
      BY <3>1, UnansweredIs DEF Terminal
  <2>2. ASSUME NEW v \in Workers, NEW i \in Jobs \ S
        PROVE  job'[i] = job[i] /\ (copy'[v][i] = None <=> copy[v][i] = None)
    <3>1. copy[w] = Empty
      BY DEF Claim, TimelyInv, IInv, BatchInv
    <3> QED
      BY <2>2, <3>1, ClaimRows, ClaimCopies DEF Empty, TimelyInv
  <2> QED
    BY <2>1, <2>2, UnansweredIs, SameUnanswered
<1> QED
  BY <1>1, <1>2, <1>3, <1>4 DEF Queue!Take, Queue!Free, Queue!States, QueueStates

LEMMA EndSettles ==
  ASSUME TimelyInv, TimelyInv', NEW w \in Workers, Drops(w), WritesCurrent(w)
  PROVE  Queue!Settle(w)
<1>1. ASSUME NEW j \in Jobs, copy[w][j] = None
      PROVE  QueueState'[j] = QueueState[j]
  <2>1. job'[j] = job[j] /\ copy'[w][j] = None
    BY <1>1 DEF WritesCurrent, Drops
  <2> QED
    BY <1>1, <2>1, SameState DEF Drops
<1>2. ASSUME NEW j \in Jobs, copy[w][j] # None
      PROVE  \/ QueueState[j] = w
             \/ QueueState[j] = "done" /\ <<w, j>> \in Unanswered
                /\ j = cur[w]
  <2>1. job[j] # None /\ (CopyRuns(w, j) \/ CopyDone(w, j))
    BY <1>2 DEF TimelyInv, IInv, BatchInv, CopiesCurrent
  <2>2. \A v, u \in Workers : copy[v][j] # None /\ copy[u][j] # None => v = u
    BY DEF TimelyInv, ClaimedOnce
  <2>3. CASE CopyRuns(w, j)
    BY <1>2, <2>1, <2>2, <2>3, StateFacts, StateIs DEF CopyRuns
  <2>4. CASE CopyDone(w, j)
    <3>1. job[j].status \in Terminal /\ j = cur[w]
      BY <2>4 DEF CopyDone, Terminal
    <3> QED
      BY <1>2, <2>1, <2>2, <3>1, StateFacts, StateIs, UnansweredIs
  <2> QED
    BY <2>1, <2>3, <2>4
<1>3. ASSUME NEW j \in Jobs, copy[w][j] # None
      PROVE  /\ QueueState'[j] \in {w, "open", "lost", "done"}
             /\ job'[j] # job[j] => QueueState'[j] \in {"open", "done"}
  <2>1. /\ job[j] # None
        /\ \A v \in Workers \ {w} : copy[v][j] = None
    BY <1>3 DEF TimelyInv, IInv, BatchInv, ClaimedOnce
  <2>2. \A v, u \in Workers :
          copy'[v][j] # None /\ copy'[u][j] # None => v = u
    BY DEF TimelyInv, ClaimedOnce
  <2>3. \A v \in Workers \ {w} : copy'[v][j] = None
    BY <2>1 DEF Drops
  <2>4. /\ job'[j] # None
        /\ job'[j].status \in {"pending", "running"} \cup Terminal
        /\ job'[j] # job[j] => job'[j].status \in {"pending"} \cup Terminal
    BY <2>1 DEF WritesCurrent, JobRow
  <2> QED
    BY <2>2, <2>3, <2>4, StateFacts, StateIs
<1>4. ASSUME NEW j \in Jobs, copy[w][j] # None, QueueState[j] = "done",
             <<w, j>> \in Unanswered, job'[j] = job[j]
      PROVE  QueueState'[j] = "done"
  <2>1. job'[j] # None /\ job'[j].status \in Terminal
    BY <1>4, UnansweredIs
  <2>2. \A v, u \in Workers :
          copy'[v][j] # None /\ copy'[u][j] # None => v = u
    BY DEF TimelyInv, ClaimedOnce
  <2> QED
    BY <2>1, <2>2, StateFacts, StateIs
<1>5. \A j \in Jobs : QueueState'[j] # QueueState[j] =>
        \/ QueueState[j] = w /\ QueueState'[j] \in {"open", "lost", "done"}
        \/ <<w, j>> \in Unanswered /\ QueueState'[j] = "open"
  <2> SUFFICES ASSUME NEW j \in Jobs, QueueState'[j] # QueueState[j]
               PROVE  \/ /\ QueueState[j] = w
                         /\ QueueState'[j] \in {"open", "lost", "done"}
                      \/ <<w, j>> \in Unanswered /\ QueueState'[j] = "open"
    OBVIOUS
  <2>1. copy[w][j] # None
    BY <1>1
  <2>2. CASE QueueState[j] = w
    BY <1>3, <2>1, <2>2
  <2>3. CASE QueueState[j] = "done" /\ <<w, j>> \in Unanswered
    <3>1. job'[j] # job[j]
      BY <1>4, <2>1, <2>3
    <3> QED
      BY <1>3, <2>1, <2>3, <3>1
  <2> QED
    BY <1>2, <2>1, <2>2, <2>3
<1>6. ASSUME NEW v \in Workers, NEW j \in Jobs
      PROVE  /\ <<v, j>> \in Unanswered' => <<v, j>> \in Unanswered
             /\ <<v, j>> \in Unanswered /\ <<v, j>> \notin Unanswered' => v = w
  <2>1. CASE v = w
    <3>1. copy'[w][j] # None => copy[w][j] # None /\ job'[j] = job[j]
      BY DEF Drops, WritesCurrent
    <3> QED
      BY <2>1, <3>1, UnansweredIs
  <2>2. CASE v # w
    <3>1. copy'[v] = copy[v]
      BY <2>2 DEF Drops
    <3>2. copy[v][j] # None => job'[j] = job[j]
      BY <2>2 DEF WritesCurrent, TimelyInv, ClaimedOnce
    <3> QED
      BY <2>2, <3>1, <3>2, UnansweredIs
  <2> QED
    BY <2>1, <2>2
<1>7. ASSUME NEW v \in Workers, NEW j \in Jobs, <<v, j>> \in Unanswered'
      PROVE  QueueState'[j] = "done"
  <2>1. job'[j] # None /\ job'[j].status \in Terminal
    BY <1>7, UnansweredIs
  <2>2. \A u, x \in Workers :
          copy'[u][j] # None /\ copy'[x][j] # None => u = x
    BY DEF TimelyInv, ClaimedOnce
  <2> QED
    BY <2>1, <2>2, StateFacts, StateIs
<1>8. /\ Unanswered' \subseteq Unanswered
      /\ \A p \in Unanswered \ Unanswered' : p[1] = w
      /\ \A p \in Unanswered' : QueueState'[p[2]] = "done"
  BY <1>6, <1>7, UnansweredIs
<1>9. QueueState' \in [Jobs -> QueueStates]
  BY StateType
<1> QED
  BY <1>5, <1>8, <1>9 DEF Queue!Settle, Queue!States, QueueStates

LEMMA UnansweredDoubts ==
  ASSUME TimelyInv, TimelyInv', NEW w \in Workers, SucceededUnanswered(w)
  PROVE  Queue!Doubt(w, cur[w])
<1> DEFINE i == cur[w]
<1>1. /\ i \in Jobs /\ copy[w][i] # None /\ job[i] # None /\ pc[w] = "ok"
      /\ copy' = copy /\ \A j \in Jobs \ {i} : job'[j] = job[j]
      /\ job'[i] # None /\ job'[i].status \in Terminal
  BY UnansweredRows DEF TimelyInv, Terminal
<1> HIDE DEF i
<1>2. \A v, u \in Workers : copy[v][i] # None /\ copy[u][i] # None => v = u
  BY <1>1 DEF TimelyInv, ClaimedOnce
<1>3. QueueState[i] = w
  <2>1. job[i].status = "running"
    BY <1>1 DEF TimelyInv, CopiesCurrent, CopyRuns, CopyDone
  <2> QED
    BY <1>1, <1>2, <2>1, StateFacts, StateIs
<1>4. QueueState'[i] = "done"
  BY <1>1, <1>2, StateFacts, StateIs
<1>5. \A j \in Jobs \ {i} : QueueState'[j] = QueueState[j]
  BY <1>1, SameState
<1>6. QueueState' = [QueueState EXCEPT ![i] = "done"]
  BY <1>1, <1>4, <1>5, StateType
<1>7. Unanswered' = Unanswered \cup {<<w, i>>}
  <2>1. \A v \in Workers, j \in Jobs :
          <<v, j>> \in Unanswered' <=>
            <<v, j>> \in Unanswered \/ (v = w /\ j = i)
    BY <1>1, <1>2, UnansweredIs
  <2> QED
    BY <1>1, <2>1, UnansweredIs
<1> QED
  BY <1>3, <1>6, <1>7 DEF Queue!Doubt, i

LEMMA QueueStep ==
  ASSUME TickMax < Stale
  PROVE  TimelyInv /\ TimelyInv' /\ [Next]_vars => 
           [Queue!Next]_<<QueueState, Unanswered>>
<1> SUFFICES ASSUME TimelyInv, TimelyInv', [Next]_vars
             PROVE  Queue!Next \/ UNCHANGED <<QueueState, Unanswered>>
  OBVIOUS
<1>1. CASE UNCHANGED vars
  BY <1>1, Same DEF vars
<1>2. CASE Tick
  <2>1. copy' = copy
    BY <1>2 DEF Tick
  <2> QED
    BY <1>2, <2>1, TickRows, Same DEF TimelyInv
<1>3. ASSUME NEW j \in Jobs,
             \/ Enqueue(j)
             \/ \E w \in Workers, t \in Types : EnqueueDue(w, t, j)
      PROVE  Queue!Next
  <2>1. Inserts(j)
    BY <1>3, StepEnqueueDue DEF Enqueue, Inserts, TimelyInv
  <2> QED
    BY <2>1, InsertPuts DEF Queue!Next
<1>4. ASSUME NEW j \in Jobs, HostPurges(j) PROVE Queue!Next
  BY <1>4, PurgePurges DEF Queue!Next
<1>5. ASSUME NEW t \in Types, RegisterRecurring(t)
      PROVE  UNCHANGED <<QueueState, Unanswered>>
  <2>1. UNCHANGED <<job, copy>>
    BY <1>5 DEF RegisterRecurring
  <2> QED
    BY <2>1, Same
<1>6. ASSUME NEW w \in Workers,
             \/ WorkerStep(w) \/ Crash(w)
             \/ SucceededWriteFails(w) \/ SucceededUnanswered(w)
      PROVE  Queue!Next \/ UNCHANGED <<QueueState, Unanswered>>
  <2>1. ASSUME NEW S, Claim(w, S) PROVE Queue!Next
    BY <2>1, ClaimTakes DEF Queue!Next
  <2>2. CASE \/ TickRecurring(w) \/ AdvanceRecurring(w)
             \/ \E j \in Jobs : StartJob(w, j)
             \/ \E result \in {"ok", "fail"} : HandlerEnds(w, result)
             \/ SucceededWriteFails(w)
    <3>1. UNCHANGED <<job, copy>>
      BY <2>2, StepInside DEF TimelyInv
    <3> QED
      BY <3>1, Same
  <2>3. CASE \/ MarkSucceeded(w) \/ MarkRetry(w) \/ MarkDead(w)
             \/ MarkRaises(w) \/ Crash(w)
    <3>1. Drops(w) /\ WritesCurrent(w)
      BY <2>3, StepEnds DEF TimelyInv
    <3> QED
      BY <3>1, EndSettles DEF Queue!Next
  <2>4. CASE SucceededUnanswered(w)
    <3>1. cur[w] \in Jobs
      BY <2>4, UnansweredRows DEF TimelyInv
    <3> QED
      BY <2>4, <3>1, UnansweredDoubts DEF Queue!Next
  <2> QED
    BY <1>3, <1>6, <2>1, <2>2, <2>3, <2>4 DEF WorkerStep
<1> QED
  BY <1>1, <1>2, <1>3, <1>4, <1>5, <1>6 DEF Next

(* Every execution in which batches end in time is one of WorkQueue: only  *)
(* the worker that has a job settles it, and a finished job is opened      *)
(* again by none but the worker whose success write went unanswered.       *)
THEOREM Refinement ==
  ASSUME TickMax < Stale
  PROVE  Spec => ImplementsQueue
<1>1. Init => Queue!Init
  <2>1. Init => QueueState = [j \in Jobs |-> "absent"]
    BY StateIs DEF Init, StateOf, Empty
  <2>2. Init => Unanswered = {}
    BY DEF Init, Unanswered, Empty
  <2> QED
    BY <2>1, <2>2 DEF Queue!Init
<1>2. TimelyInv /\ TimelyInv' /\ [Next]_vars =>
        [Queue!Next]_<<QueueState, Unanswered>>
  BY QueueStep
<1>3. Spec => []TimelyInv
  BY TimelyInvariance
<1> QED
  BY <1>1, <1>2, <1>3, PTL
     DEF Spec, ImplementsQueue, Queue!Spec, Queue!vars
=============================================================================
