--------------------------- MODULE Webhooks_proofs ---------------------------
(* Proofs about Webhooks, for every number of events, keys, web processes  *)
(* and workers, every configuration and every log level.                   *)
EXTENDS Webhooks, FiniteSetTheorems, TLAPS

(* A worker that is not in process_due_events holds nothing, and one at an *)
(* event has it in its batch; a pending event has an attempt left.         *)
BatchInv ==
  /\ \A w \in Workers :
       /\ pc[w] = "idle" => copy[w] = Empty
       /\ pc[w] \in {"handle", "ok", "fail"} =>
            cur[w] \in Events /\ copy[w][cur[w]] # None
  /\ \A e \in Events :
       event[e] # None /\ event[e].status = "pending" =>
         event[e].attempts < MaxRetries

(* The inductive invariant.  That a claim is exclusive needs that whoever  *)
(* holds a copy holds it of a row that no query returns: "processing", or  *)
(* "succeeded" without the worker's knowing.                               *)
IInv == TypeOK /\ BatchInv /\ ClaimedOnce /\ CopiesCurrent /\ AckedIsPersisted

-----------------------------------------------------------------------------
(* 2^n is the number of subsets of 1..n, so the backoff is a number. *)
LEMMA BackoffNat == \A n \in Nat : Backoff(n) \in Nat
<1> SUFFICES ASSUME NEW n \in Nat PROVE Backoff(n) \in Nat
  OBVIOUS
<1>1. IsFiniteSet(1..n) /\ Cardinality(1..n) = n
  BY FS_Interval
<1>2. 2^n \in Nat
  BY <1>1, FS_SUBSET, FS_CardinalityType
<1>3. Base * 2^n \in Nat
  BY <1>2, WebhooksAssumption
<1> QED
  BY <1>3, WebhooksAssumption DEF Backoff, Least

-----------------------------------------------------------------------------
LEMMA InitInv == Init => IInv
<1> SUFFICES ASSUME Init PROVE IInv
  OBVIOUS
<1> USE WebhooksAssumption DEF Init, Empty
<1>1. TypeOK
  BY DEF TypeOK
<1>2. BatchInv /\ ClaimedOnce /\ CopiesCurrent /\ AckedIsPersisted
  BY DEF BatchInv, ClaimedOnce, CopiesCurrent, AckedIsPersisted
<1> QED
  BY <1>1, <1>2 DEF IInv

-----------------------------------------------------------------------------
(* The end of a mark, and of a crash: worker w gives up its current event, *)
(* perhaps the whole batch, and writes at most the row of that event.      *)

Labels == {"idle", "run", "handle", "ok", "fail"}

Drops(w) ==
  /\ pc' \in [Workers -> Labels]
  /\ copy' \in [Workers -> [Events -> 0..MaxRetries - 1 \cup {None}]]
  /\ cur' \in [Workers -> Events \cup {None}]
  /\ \A v \in Workers \ {w} :
       pc'[v] = pc[v] /\ copy'[v] = copy[v] /\ cur'[v] = cur[v]
  /\ \A e \in Events : copy'[w][e] \in {None, copy[w][e]}
  /\ cur[w] \in Events => copy'[w][cur[w]] = None
  /\ \/ pc'[w] = "idle" /\ copy'[w] = Empty
     \/ pc'[w] = "run"

WritesCurrent(w) ==
  /\ event' \in [Events -> EventRow \cup {None}]
  /\ \A e \in Events : event'[e] # event[e] =>
       /\ e = cur[w] /\ copy[w][e] # None
       /\ event[e] # None /\ event'[e] # None
       /\ event'[e].key = event[e].key
       /\ \/ event'[e].status \in Terminal
          \/ event'[e].status = "pending" /\ event'[e].attempts < MaxRetries

LEMMA LeaveDrops ==
  ASSUME TypeOK, NEW w \in Workers, Leave(w)
  PROVE  Drops(w)
BY WebhooksAssumption DEF TypeOK, Leave, Drops, Empty, Labels

LEMMA NextEventDrops ==
  ASSUME TypeOK, NEW w \in Workers, cur[w] \in Events, NextEvent(w)
  PROVE  Drops(w)
<1>1. CASE Leave(w)
  BY <1>1, LeaveDrops
<1>2. CASE /\ Goto(w, "run")
           /\ copy' = [copy EXCEPT ![w][cur[w]] = None]
           /\ cur' = [cur EXCEPT ![w] = None]
  <2>1. copy' = [copy EXCEPT ![w] = [copy[w] EXCEPT ![cur[w]] = None]]
    BY <1>2
  <2>2. [copy[w] EXCEPT ![cur[w]] = None]
          \in [Events -> 0..MaxRetries - 1 \cup {None}]
    BY DEF TypeOK
  <2> QED
    BY <1>2, <2>1, <2>2 DEF TypeOK, Goto, Drops, Labels
<1> QED
  BY <1>1, <1>2 DEF NextEvent

LEMMA DropKeepsInv ==
  ASSUME IInv, NEW w \in Workers, Drops(w), WritesCurrent(w),
         faults' \in 0..MaxFaults, UNCHANGED <<wants, acked, done, level>>
  PROVE  IInv'
<1> USE WebhooksAssumption
<1>1. TypeOK'
  BY DEF IInv, TypeOK, Drops, WritesCurrent, Labels
<1>2. BatchInv'
  <2>1. \A v \in Workers : pc'[v] = "idle" => copy'[v] = Empty
    BY DEF IInv, BatchInv, Drops
  <2>2. \A v \in Workers : pc'[v] \in {"handle", "ok", "fail"} =>
          cur'[v] \in Events /\ copy'[v][cur'[v]] # None
    BY DEF IInv, BatchInv, Drops
  <2>3. \A e \in Events : event'[e] # None /\ event'[e].status = "pending" =>
          event'[e].attempts < MaxRetries
    BY DEF IInv, BatchInv, WritesCurrent, Terminal
  <2> QED
    BY <2>1, <2>2, <2>3 DEF BatchInv
<1>3. \A v \in Workers, e \in Events :
        copy'[v][e] # None => copy[v][e] # None /\ copy'[v][e] = copy[v][e]
  BY DEF Drops
<1>4. ClaimedOnce'
  BY <1>3 DEF IInv, ClaimedOnce
<1>5. \A v \in Workers, e \in Events :
        copy'[v][e] # None => event'[e] = event[e]
  BY <1>3 DEF IInv, ClaimedOnce, Drops, WritesCurrent
<1>c. /\ \A e \in Events : e = cur[w] => copy'[w][e] = None
      /\ \A v \in Workers \ {w} : pc'[v] = pc[v] /\ cur'[v] = cur[v]
  BY DEF Drops
<1>6. CopiesCurrent'
  BY <1>3, <1>5, <1>c DEF IInv, CopiesCurrent
<1>7. AckedIsPersisted'
  <2> SUFFICES ASSUME NEW k \in acked
               PROVE  \E e \in Events : event'[e] # None /\ event'[e].key = k
    BY DEF AckedIsPersisted
  <2>1. PICK e \in Events : event[e] # None /\ event[e].key = k
    BY DEF IInv, AckedIsPersisted
  <2>2. event'[e] # None /\ event'[e].key = k
    BY <2>1 DEF WritesCurrent
  <2> QED
    BY <2>2
<1> QED
  BY <1>1, <1>2, <1>4, <1>6, <1>7 DEF IInv

(* A worker that is at an event: what the invariant says of the row. *)
LEMMA AtEvent ==
  ASSUME IInv, NEW w \in Workers, pc[w] \in {"handle", "ok", "fail"}
  PROVE  /\ cur[w] \in Events
         /\ copy[w][cur[w]] \in 0..MaxRetries - 1
         /\ event[cur[w]] \in EventRow /\ event[cur[w]] # None
         /\ pc[w] # "fail" => event[cur[w]].status = "processing"
<1>1. cur[w] \in Events /\ copy[w][cur[w]] # None
  BY DEF IInv, BatchInv
<1> QED
  BY <1>1 DEF IInv, TypeOK, CopiesCurrent

(* The three rows the marks write back. *)
LEMMA RowSucceeded ==
  ASSUME NEW old \in EventRow
  PROVE  \E r \in EventRow :
           /\ r = [old EXCEPT !.status = "succeeded", !.age = 0]
           /\ r.key = old.key /\ r.status = "succeeded"
           /\ r.attempts = old.attempts
<1> DEFINE r == [old EXCEPT !.status = "succeeded", !.age = 0]
<1>1. 0 \in 0..Window + 1
  BY WebhooksAssumption
<1>2. /\ r \in EventRow /\ r.key = old.key /\ r.status = "succeeded"
      /\ r.attempts = old.attempts
  BY <1>1 DEF EventRow, Terminal
<1> QED
  BY <1>2

LEMMA RowPending ==
  ASSUME NEW old \in EventRow, NEW n \in 0..MaxRetries, NEW d \in Nat
  PROVE  \E r \in EventRow :
           /\ r = [old EXCEPT !.status = "pending", !.attempts = n, !.wait = d]
           /\ r.key = old.key /\ r.status = "pending" /\ r.attempts = n
<1> DEFINE r == [old EXCEPT !.status = "pending", !.attempts = n, !.wait = d]
<1>1. r \in EventRow /\ r.key = old.key
      /\ r.status = "pending" /\ r.attempts = n
  BY DEF EventRow, Terminal
<1> QED
  BY <1>1

LEMMA RowDead ==
  ASSUME NEW old \in EventRow, NEW n \in 0..MaxRetries
  PROVE  \E r \in EventRow :
           /\ r = [old EXCEPT !.status = "dead_lettered", !.attempts = n]
           /\ r.key = old.key /\ r.status = "dead_lettered"
<1> DEFINE r == [old EXCEPT !.status = "dead_lettered", !.attempts = n]
<1>1. r \in EventRow /\ r.key = old.key /\ r.status = "dead_lettered"
  BY DEF EventRow, Terminal
<1> QED
  BY <1>1

LEMMA WriteBack ==
  ASSUME IInv, NEW w \in Workers, pc[w] \in {"handle", "ok", "fail"},
         NEW r \in EventRow, event' = [event EXCEPT ![cur[w]] = r],
         r.key = event[cur[w]].key,
         \/ r.status \in Terminal
         \/ r.status = "pending" /\ r.attempts < MaxRetries
  PROVE  WritesCurrent(w)
<1>1. /\ cur[w] \in Events /\ copy[w][cur[w]] # None
      /\ event[cur[w]] # None
  BY AtEvent, WebhooksAssumption
<1> QED
  BY <1>1, WebhooksAssumption DEF WritesCurrent, IInv, TypeOK

LEMMA MarkSucceededWrites ==
  ASSUME IInv, NEW w \in Workers, MarkSucceeded(w)
  PROVE  WritesCurrent(w) /\ Drops(w)
<1>1. pc[w] = "ok" /\ cur[w] \in Events /\ event[cur[w]] \in EventRow
  BY AtEvent DEF MarkSucceeded
<1>2. PICK old \in EventRow : old = event[cur[w]]
  BY <1>1
<1>r. PICK r \in EventRow :
        /\ r = [old EXCEPT !.status = "succeeded", !.age = 0]
        /\ r.key = old.key /\ r.status = "succeeded"
  BY RowSucceeded
<1>3. event' = [event EXCEPT ![cur[w]] = r]
  BY <1>2, <1>r DEF MarkSucceeded
<1>4. WritesCurrent(w)
  BY <1>1, <1>2, <1>r, <1>3, WriteBack DEF Terminal
<1>5. Drops(w)
  BY <1>1, LeaveDrops, NextEventDrops DEF MarkSucceeded, IInv
<1> QED
  BY <1>4, <1>5

LEMMA MarkRetryWrites ==
  ASSUME IInv, NEW w \in Workers, MarkRetry(w)
  PROVE  WritesCurrent(w) /\ Drops(w)
<1>1. /\ pc[w] = "fail" /\ cur[w] \in Events
      /\ event[cur[w]] \in EventRow /\ copy[w][cur[w]] \in 0..MaxRetries - 1
  BY AtEvent DEF MarkRetry
<1>2. PICK old \in EventRow, n \in 0..MaxRetries, d \in Nat :
        /\ old = event[cur[w]] /\ n < MaxRetries
        /\ n = copy[w][cur[w]] + 1 /\ d = Backoff(copy[w][cur[w]])
  BY <1>1, BackoffNat, WebhooksAssumption DEF MarkRetry, Retry
<1>r. PICK r \in EventRow :
        /\ r = [old EXCEPT !.status = "pending", !.attempts = n, !.wait = d]
        /\ r.key = old.key /\ r.status = "pending" /\ r.attempts = n
  BY RowPending
<1>3. event' = [event EXCEPT ![cur[w]] = r]
  BY <1>2, <1>r DEF MarkRetry
<1>4. WritesCurrent(w)
  BY <1>1, <1>2, <1>r, <1>3, WriteBack
<1>5. Drops(w)
  BY <1>1, NextEventDrops DEF MarkRetry, IInv
<1> QED
  BY <1>4, <1>5

LEMMA MarkDeadWrites ==
  ASSUME IInv, NEW w \in Workers, MarkDead(w)
  PROVE  WritesCurrent(w) /\ Drops(w)
<1>1. /\ pc[w] = "fail" /\ cur[w] \in Events
      /\ event[cur[w]] \in EventRow /\ copy[w][cur[w]] \in 0..MaxRetries - 1
  BY AtEvent DEF MarkDead
<1>2. PICK old \in EventRow, n \in 0..MaxRetries :
        old = event[cur[w]] /\ n = copy[w][cur[w]] + 1
  BY <1>1, WebhooksAssumption
<1>r. PICK r \in EventRow :
        /\ r = [old EXCEPT !.status = "dead_lettered", !.attempts = n]
        /\ r.key = old.key /\ r.status = "dead_lettered"
  BY RowDead
<1>3. event' = [event EXCEPT ![cur[w]] = r]
  BY <1>2, <1>r DEF MarkDead
<1>4. WritesCurrent(w)
  BY <1>1, <1>2, <1>r, <1>3, WriteBack DEF Terminal
<1>5. Drops(w)
  BY <1>1, NextEventDrops DEF MarkDead, IInv
<1> QED
  BY <1>4, <1>5

-----------------------------------------------------------------------------
(* The other steps that write rows. *)

LEMMA TickRows ==
  ASSUME IInv, Tick
  PROVE  /\ event' \in [Events -> EventRow \cup {None}]
         /\ \A e \in Events :
              /\ event'[e] = None <=> event[e] = None
              /\ event[e] # None =>
                   /\ event'[e].key = event[e].key
                   /\ event'[e].status = event[e].status
                   /\ event'[e].attempts = event[e].attempts
<1> SUFFICES ASSUME NEW e \in Events, event[e] # None
             PROVE  /\ event'[e] \in EventRow
                    /\ event'[e].key = event[e].key
                    /\ event'[e].status = event[e].status
                    /\ event'[e].attempts = event[e].attempts
  <2>1. event' = [e \in Events |-> event'[e]]
    BY DEF Tick
  <2>2. \A e \in Events : event[e] = None => event'[e] = None
    BY DEF Tick
  <2> QED
    BY <2>1, <2>2, WebhooksAssumption
<1>1. PICK old \in EventRow : old = event[e]
  BY DEF IInv, TypeOK
<1>2. PICK wait \in Nat : wait = IF old.wait = 0 THEN 0 ELSE old.wait - 1
  BY DEF EventRow
<1>3. PICK age \in 0..Window + 1 :
        age = IF old.status = "succeeded" THEN Least(old.age + 1, Window + 1)
              ELSE old.age
  <2>1. old.age \in 0..Window + 1 /\ Window \in Nat
    BY WebhooksAssumption DEF EventRow
  <2> QED
    BY <2>1 DEF Least
<1> DEFINE r == [old EXCEPT !.wait = wait, !.age = age]
<1>4. /\ r \in EventRow /\ r.key = old.key
      /\ r.status = old.status /\ r.attempts = old.attempts
  BY DEF EventRow
<1>5. event'[e] = r
  <2>1. event'[e] = [old EXCEPT
          !.wait = IF old.wait = 0 THEN 0 ELSE old.wait - 1,
          !.age = IF old.status = "succeeded"
                  THEN Least(old.age + 1, Window + 1) ELSE old.age]
    BY <1>1 DEF Tick, EventRow
  <2> QED
    BY <1>2, <1>3, <2>1
<1> QED
  BY <1>1, <1>4, <1>5

LEMMA ClaimRows ==
  ASSUME IInv, NEW w \in Workers, NEW S, Claim(w, S)
  PROVE  /\ event' \in [Events -> EventRow \cup {None}]
         /\ \A e \in Events \ S : event'[e] = event[e]
         /\ S \subseteq Events
         /\ \A e \in S : /\ event[e] # None /\ event[e].status = "pending"
                         /\ event[e].attempts < MaxRetries
                         /\ event'[e] # None
                         /\ event'[e].key = event[e].key
                         /\ event'[e].status = "processing"
                         /\ event'[e].attempts = event[e].attempts
<1>1. /\ S \subseteq Events
      /\ \A e \in S : event[e] # None /\ event[e].status = "pending"
                       /\ event[e].attempts < MaxRetries
  BY DEF Claim, Due, IInv, BatchInv
<1>2. ASSUME NEW e \in S
      PROVE  /\ event'[e] \in EventRow
             /\ event'[e].key = event[e].key
             /\ event'[e].status = "processing"
             /\ event'[e].attempts = event[e].attempts
  <2>1. PICK old \in EventRow : old = event[e]
    BY <1>1 DEF IInv, TypeOK
  <2> DEFINE r == [old EXCEPT !.status = "processing"]
  <2>2. /\ r \in EventRow /\ r.key = old.key
        /\ r.status = "processing" /\ r.attempts = old.attempts
    BY DEF EventRow
  <2>3. event'[e] = r
    BY <1>1, <2>1 DEF Claim
  <2> QED
    BY <2>1, <2>2, <2>3
<1>3. \A e \in Events \ S : event'[e] = event[e]
  BY DEF Claim
<1>4. event' \in [Events -> EventRow \cup {None}]
  BY <1>2, <1>3 DEF Claim, IInv, TypeOK
<1> QED
  BY <1>1, <1>2, <1>3, <1>4, WebhooksAssumption

LEMMA ClaimCopies ==
  ASSUME IInv, NEW w \in Workers, NEW S, Claim(w, S)
  PROVE  /\ pc' \in [Workers -> Labels]
         /\ copy' \in [Workers -> [Events -> 0..MaxRetries - 1 \cup {None}]]
         /\ \A v \in Workers \ {w} : pc'[v] = pc[v] /\ copy'[v] = copy[v]
         /\ \/ pc'[w] = "idle" /\ copy'[w] = Empty
            \/ /\ pc'[w] = "run"
               /\ \A e \in Events : copy'[w][e] =
                    IF e \in S THEN event[e].attempts ELSE None
<1>1. \A e \in S : e \in Events /\ event[e].attempts \in 0..MaxRetries - 1
  <2> TAKE e \in S
  <2>1. /\ e \in Events /\ event[e] \in EventRow
        /\ event[e].attempts < MaxRetries
    BY ClaimRows DEF IInv, TypeOK
  <2> QED
    BY <2>1, WebhooksAssumption DEF EventRow
<1>2. pc[w] = "idle" /\ copy[w] = Empty
  BY DEF Claim, IInv, BatchInv
<1>3. CASE Raises(level, "DEBUG")
  BY <1>2, <1>3 DEF Claim, IInv, TypeOK, Labels
<1>4. CASE ~Raises(level, "DEBUG")
  <2> DEFINE b == [e \in Events |->
                     IF e \in S THEN event[e].attempts ELSE None]
  <2>1. b \in [Events -> 0..MaxRetries - 1 \cup {None}]
    BY <1>1
  <2>2. copy' = [copy EXCEPT ![w] = b] /\ pc' = [pc EXCEPT ![w] = "run"]
    BY <1>4 DEF Claim, Goto
  <2>3. \A e \in Events : b[e] = IF e \in S THEN event[e].attempts ELSE None
    OBVIOUS
  <2> HIDE DEF b
  <2> QED
    BY <2>1, <2>2, <2>3 DEF IInv, TypeOK, Labels
<1> QED
  BY <1>3, <1>4

-----------------------------------------------------------------------------
(* The invariant step by step.  Steps of the web processes touch a row     *)
(* only by inserting it; those of a worker inside its batch touch none.    *)

LEMMA StepTick == IInv /\ Tick => IInv'
<1> SUFFICES ASSUME IInv, Tick PROVE IInv'
  OBVIOUS
<1>1. UNCHANGED <<wants, acked, pc, copy, cur, done, level, faults>>
  BY DEF Tick
<1>2. TypeOK'
  BY <1>1, TickRows DEF IInv, TypeOK
<1>3. BatchInv' /\ ClaimedOnce' /\ CopiesCurrent'
  BY <1>1, TickRows DEF IInv, BatchInv, ClaimedOnce, CopiesCurrent
<1>4. AckedIsPersisted'
  BY <1>1, TickRows DEF IInv, AckedIsPersisted
<1> QED
  BY <1>2, <1>3, <1>4 DEF IInv

LEMMA StepWeb ==
  ASSUME IInv, NEW p \in Receivers,
         \/ \E k \in Keys : Receive(p, k) \/ DuplicateIgnored(p, k)
                            \/ CheckFails(p, k)
         \/ InsertFails(p)
  PROVE  IInv' /\ UNCHANGED <<event, copy>>
<1>1. UNCHANGED <<event, pc, copy, cur, done, level>>
  BY DEF Receive, DuplicateIgnored, CheckFails, InsertFails
<1>2. /\ wants' \in [Receivers -> Keys \cup {None}]
      /\ faults' \in 0..MaxFaults
  BY WebhooksAssumption
     DEF Receive, DuplicateIgnored, CheckFails, InsertFails, Answer, IInv,
         TypeOK
<1>3. \A k \in acked' : k \in acked \/ (k \in Keys /\ AlreadyProcessed(k))
  BY DEF Receive, DuplicateIgnored, CheckFails, InsertFails, Answer
<1>4. TypeOK'
  BY <1>1, <1>2, <1>3 DEF IInv, TypeOK
<1>5. BatchInv' /\ ClaimedOnce' /\ CopiesCurrent'
  BY <1>1 DEF IInv, BatchInv, ClaimedOnce, CopiesCurrent
<1>6. AckedIsPersisted'
  BY <1>1, <1>3 DEF IInv, AckedIsPersisted, AlreadyProcessed
<1> QED
  BY <1>1, <1>4, <1>5, <1>6 DEF IInv

LEMMA StepInsert ==
  ASSUME IInv, NEW p \in Receivers, NEW e \in Events,
         Insert(p, e) \/ InsertUnanswered(p, e)
  PROVE  IInv'
<1>1. PICK k \in Keys : wants[p] = k
  BY DEF Insert, InsertUnanswered, IInv, TypeOK
<1> DEFINE r == [key |-> k, status |-> "pending", wait |-> 0, age |-> 0,
                 attempts |-> 0]
<1>2. /\ r \in EventRow /\ r.key = k /\ r.status = "pending"
      /\ r.attempts < MaxRetries
  BY WebhooksAssumption DEF EventRow
<1>3. event' = [event EXCEPT ![e] = r] /\ event[e] = None
  BY <1>1 DEF Insert, InsertUnanswered
<1> HIDE DEF r
<1>4. /\ wants' \in [Receivers -> Keys \cup {None}]
      /\ acked' \subseteq acked \cup {k}
      /\ UNCHANGED <<pc, copy, cur, done, level>>
  BY <1>1 DEF Insert, InsertUnanswered, Answer, IInv, TypeOK
<1>f. faults' \in 0..MaxFaults
  BY WebhooksAssumption DEF Insert, InsertUnanswered, IInv, TypeOK
<1>5. TypeOK'
  BY <1>2, <1>3, <1>4, <1>f DEF IInv, TypeOK
<1>6. BatchInv' /\ ClaimedOnce' /\ CopiesCurrent'
  BY <1>2, <1>3, <1>4
     DEF IInv, TypeOK, BatchInv, ClaimedOnce, CopiesCurrent
<1>7. AckedIsPersisted'
  BY <1>2, <1>3, <1>4, WebhooksAssumption DEF IInv, TypeOK, AckedIsPersisted
<1> QED
  BY <1>5, <1>6, <1>7 DEF IInv

LEMMA StepClaim ==
  ASSUME IInv, NEW w \in Workers, NEW S, Claim(w, S)
  PROVE  IInv'
<1>1. UNCHANGED <<wants, acked, cur, done, level, faults>> /\ pc[w] = "idle"
  BY DEF Claim
<1>2. TypeOK'
  BY <1>1, ClaimRows, ClaimCopies DEF IInv, TypeOK, Labels
<1>3. \A v \in Workers, e \in S : copy[v][e] = None
  BY ClaimRows DEF IInv, CopiesCurrent
<1>4. BatchInv'
  BY <1>1, ClaimRows, ClaimCopies DEF IInv, BatchInv
<1>5. \A v \in Workers, e \in Events : copy'[v][e] # None =>
        \/ e \notin S /\ v # w /\ copy[v][e] = copy'[v][e]
        \/ e \in S /\ v = w /\ copy'[v][e] = event[e].attempts
  BY <1>3, ClaimCopies DEF Empty
<1>6. ClaimedOnce'
  BY <1>5 DEF IInv, ClaimedOnce
<1>7. CopiesCurrent'
  <2> SUFFICES ASSUME NEW v \in Workers, NEW e \in Events,
                      copy'[v][e] # None
               PROVE  /\ event'[e] # None
                      /\ event'[e].attempts = copy'[v][e]
                      /\ \/ event'[e].status = "processing"
                         \/ /\ event'[e].status = "succeeded"
                            /\ pc'[v] = "fail" /\ cur'[v] = e
    BY DEF CopiesCurrent
  <2>1. CASE e \notin S /\ v # w /\ copy[v][e] = copy'[v][e]
    <3>1. event'[e] = event[e] /\ pc'[v] = pc[v] /\ cur'[v] = cur[v]
      BY <1>1, <2>1, ClaimRows, ClaimCopies
    <3> QED
      BY <2>1, <3>1 DEF IInv, CopiesCurrent
  <2>2. CASE e \in S /\ v = w /\ copy'[v][e] = event[e].attempts
    BY <2>2, ClaimRows
  <2> QED
    BY <1>5, <2>1, <2>2
<1>8. AckedIsPersisted'
  <2> SUFFICES ASSUME NEW k \in acked
               PROVE  \E e \in Events : event'[e] # None /\ event'[e].key = k
    BY <1>1 DEF AckedIsPersisted
  <2>1. PICK e \in Events : event[e] # None /\ event[e].key = k
    BY DEF IInv, AckedIsPersisted
  <2>2. event'[e] # None /\ event'[e].key = k
    BY <2>1, ClaimRows
  <2> QED
    BY <2>2
<1> QED
  BY <1>2, <1>4, <1>6, <1>7, <1>8 DEF IInv

(* A worker moves inside its batch. *)
LEMMA StepInside ==
  ASSUME IInv, NEW w \in Workers,
         \/ \E e \in Events : StartEvent(w, e)
         \/ HandlerSucceeds(w) \/ HandlerFails(w) \/ SucceededWriteFails(w)
  PROVE  IInv' /\ UNCHANGED <<event, copy>>
<1>1. UNCHANGED <<event, wants, acked, copy, level>>
  BY DEF StartEvent, HandlerSucceeds, HandlerFails, SucceededWriteFails
<1>2. faults' \in 0..MaxFaults
  BY WebhooksAssumption
     DEF StartEvent, HandlerSucceeds, HandlerFails, SucceededWriteFails, IInv,
         TypeOK
<1>3. done' \in [Keys -> Nat]
  <2>1. CASE HandlerSucceeds(w)
    <3>1. event[cur[w]].key \in Keys
      BY <2>1, AtEvent DEF HandlerSucceeds, EventRow
    <3> QED
      BY <2>1, <3>1 DEF HandlerSucceeds, IInv, TypeOK
  <2>2. CASE ~HandlerSucceeds(w)
    BY <2>2 DEF StartEvent, HandlerFails, SucceededWriteFails, IInv, TypeOK
  <2> QED
    BY <2>1, <2>2
<1>4. /\ pc' \in [Workers -> Labels]
      /\ cur' \in [Workers -> Events \cup {None}]
      /\ \A v \in Workers \ {w} : pc'[v] = pc[v] /\ cur'[v] = cur[v]
      /\ pc'[w] # "idle" /\ cur'[w] \in Events /\ copy[w][cur'[w]] # None
  <2>1. CASE \E e \in Events : StartEvent(w, e)
    BY <2>1 DEF StartEvent, Goto, IInv, TypeOK, Labels
  <2>2. CASE HandlerSucceeds(w) \/ HandlerFails(w) \/ SucceededWriteFails(w)
    <3>1. PICK l \in {"ok", "fail"} : pc' = [pc EXCEPT ![w] = l]
      BY <2>2 DEF HandlerSucceeds, HandlerFails, SucceededWriteFails, Goto
    <3>2. cur' = cur /\ pc[w] \in {"handle", "ok"}
      BY <2>2 DEF HandlerSucceeds, HandlerFails, SucceededWriteFails
    <3>3. cur[w] \in Events /\ copy[w][cur[w]] # None
      BY <3>2, AtEvent, WebhooksAssumption
    <3> QED
      BY <3>1, <3>2, <3>3 DEF IInv, TypeOK, Labels
  <2> QED
    BY <2>1, <2>2
<1>5. TypeOK'
  BY <1>1, <1>2, <1>3, <1>4 DEF IInv, TypeOK, Labels
<1>6. BatchInv'
  BY <1>1, <1>4 DEF IInv, BatchInv
<1>7. ClaimedOnce' /\ AckedIsPersisted'
  BY <1>1 DEF IInv, ClaimedOnce, AckedIsPersisted
<1>8. pc[w] # "fail"
  BY DEF StartEvent, HandlerSucceeds, HandlerFails, SucceededWriteFails
<1>9. CopiesCurrent'
  BY <1>1, <1>4, <1>8 DEF IInv, CopiesCurrent
<1> QED
  BY <1>1, <1>5, <1>6, <1>7, <1>9 DEF IInv

(* The success write is applied and its answer lost. *)
LEMMA UnansweredRows ==
  ASSUME IInv, NEW w \in Workers, SucceededUnanswered(w)
  PROVE  /\ pc[w] = "ok" /\ cur[w] \in Events
         /\ copy[w][cur[w]] # None /\ event[cur[w]] # None
         /\ event[cur[w]].status = "processing"
         /\ event' \in [Events -> EventRow \cup {None}]
         /\ \A e \in Events \ {cur[w]} : event'[e] = event[e]
         /\ event'[cur[w]] # None /\ event'[cur[w]].status = "succeeded"
         /\ event'[cur[w]].key = event[cur[w]].key
         /\ event'[cur[w]].attempts = event[cur[w]].attempts
         /\ UNCHANGED <<wants, acked, copy, cur, done, level>>
         /\ pc' = [pc EXCEPT ![w] = "fail"] /\ pc' \in [Workers -> Labels]
         /\ faults' = faults + 1 /\ faults' \in 0..MaxFaults
<1>1. pc[w] = "ok"
  BY DEF SucceededUnanswered
<1>2. /\ cur[w] \in Events /\ copy[w][cur[w]] # None
      /\ event[cur[w]] \in EventRow /\ event[cur[w]] # None
      /\ event[cur[w]].status = "processing"
  BY <1>1, AtEvent, WebhooksAssumption
<1>3. PICK r \in EventRow :
        /\ r = [event[cur[w]] EXCEPT !.status = "succeeded", !.age = 0]
        /\ r.key = event[cur[w]].key /\ r.status = "succeeded"
        /\ r.attempts = event[cur[w]].attempts
  BY <1>2, RowSucceeded
<1>4. event' = [event EXCEPT ![cur[w]] = r]
  BY <1>3 DEF SucceededUnanswered
<1>5. /\ event' \in [Events -> EventRow \cup {None}]
      /\ \A e \in Events \ {cur[w]} : event'[e] = event[e]
      /\ event'[cur[w]] = r /\ r # None
  BY <1>2, <1>4, WebhooksAssumption DEF IInv, TypeOK
<1>6. /\ UNCHANGED <<wants, acked, copy, cur, done, level>>
      /\ pc' = [pc EXCEPT ![w] = "fail"] /\ faults' = faults + 1
  BY DEF SucceededUnanswered, Goto
<1>7. pc' \in [Workers -> Labels]
  BY <1>6 DEF IInv, TypeOK, Labels
<1>8. faults' \in 0..MaxFaults
  BY WebhooksAssumption DEF SucceededUnanswered, IInv, TypeOK
<1> QED
  BY <1>1, <1>2, <1>3, <1>5, <1>6, <1>7, <1>8

LEMMA StepUnanswered ==
  ASSUME IInv, NEW w \in Workers, SucceededUnanswered(w)
  PROVE  IInv'
<1>1. TypeOK'
  BY UnansweredRows DEF IInv, TypeOK, Labels
<1>2. pc'[w] = "fail" /\ \A v \in Workers \ {w} : pc'[v] = pc[v]
  BY UnansweredRows DEF IInv, TypeOK
<1>3. BatchInv'
  BY <1>2, UnansweredRows DEF IInv, BatchInv
<1>4. ClaimedOnce'
  BY UnansweredRows DEF IInv, ClaimedOnce
<1>5. CopiesCurrent'
  <2> SUFFICES ASSUME NEW v \in Workers, NEW e \in Events,
                      copy'[v][e] # None
               PROVE  /\ event'[e] # None
                      /\ event'[e].attempts = copy'[v][e]
                      /\ \/ event'[e].status = "processing"
                         \/ /\ event'[e].status = "succeeded"
                            /\ pc'[v] = "fail" /\ cur'[v] = e
    BY DEF CopiesCurrent
  <2>1. copy[v][e] # None /\ copy' = copy /\ cur' = cur
    BY UnansweredRows
  <2>2. CASE e = cur[w]
    <3>1. v = w
      BY <2>1, <2>2, UnansweredRows DEF IInv, ClaimedOnce
    <3> QED
      BY <1>2, <2>1, <2>2, <3>1, UnansweredRows DEF IInv, CopiesCurrent
  <2>3. CASE e # cur[w]
    <3>1. event'[e] = event[e]
      BY <2>3, UnansweredRows
    <3>2. pc'[v] = pc[v] \/ v = w
      BY <1>2
    <3> QED
      BY <2>1, <2>3, <3>1, <3>2 DEF IInv, CopiesCurrent
  <2> QED
    BY <2>2, <2>3
<1>6. AckedIsPersisted'
  <2> SUFFICES ASSUME NEW k \in acked
               PROVE  \E e \in Events : event'[e] # None /\ event'[e].key = k
    BY UnansweredRows DEF AckedIsPersisted
  <2>1. PICK e \in Events : event[e] # None /\ event[e].key = k
    BY DEF IInv, AckedIsPersisted
  <2>2. event'[e] # None /\ event'[e].key = k
    BY <2>1, UnansweredRows
  <2> QED
    BY <2>2
<1> QED
  BY <1>1, <1>3, <1>4, <1>5, <1>6 DEF IInv

(* A worker is through with an event, or with everything. *)
LEMMA StepEnds ==
  ASSUME IInv, NEW w \in Workers,
         \/ MarkSucceeded(w) \/ MarkRetry(w) \/ MarkDead(w) \/ MarkRaises(w)
         \/ Crash(w)
  PROVE  IInv' /\ Drops(w) /\ WritesCurrent(w)
<1>1. /\ faults' \in 0..MaxFaults
      /\ UNCHANGED <<wants, acked, done, level>>
  BY WebhooksAssumption
     DEF MarkSucceeded, MarkRetry, MarkDead, MarkRaises, Crash, IInv, TypeOK
<1>2. Drops(w) /\ WritesCurrent(w)
  <2>1. CASE MarkRaises(w) \/ Crash(w)
    <3>1. Drops(w)
      BY <2>1, LeaveDrops DEF MarkRaises, Crash, IInv
    <3>2. event' = event
      BY <2>1 DEF MarkRaises, Crash
    <3>3. WritesCurrent(w)
      BY <3>2 DEF WritesCurrent, IInv, TypeOK
    <3> QED
      BY <3>1, <3>3
  <2> QED
    BY <2>1, MarkSucceededWrites, MarkRetryWrites, MarkDeadWrites
<1> QED
  BY <1>1, <1>2, DropKeepsInv

LEMMA StepInv == IInv /\ [Next]_vars => IInv'
<1> SUFFICES ASSUME IInv, [Next]_vars PROVE IInv'
  OBVIOUS
<1>1. CASE UNCHANGED vars
  BY <1>1 DEF vars, IInv, TypeOK, BatchInv, ClaimedOnce, CopiesCurrent,
              AckedIsPersisted
<1>2. CASE \E w \in Workers : \/ WorkerStep(w) \/ Crash(w)
                              \/ SucceededWriteFails(w)
                              \/ SucceededUnanswered(w)
  BY <1>2, StepClaim, StepInside, StepEnds, StepUnanswered DEF WorkerStep
<1> QED
  BY <1>1, <1>2, StepTick, StepWeb, StepInsert DEF Next

-----------------------------------------------------------------------------
(* The inductive invariant holds in every reachable state. *)
THEOREM Invariance == Spec => []IInv
<1> QED
  BY InitInv, StepInv, PTL DEF Spec

(* Type correctness: among others, an event never has more attempts than   *)
(* max_retries, and every status is one that the queries know.             *)
THEOREM TypeCorrect == Spec => []TypeOK
<1>1. IInv => TypeOK
  BY DEF IInv
<1> QED
  BY <1>1, Invariance, PTL

(* claim_webhook_events gives an event to one worker at a time.            *)
THEOREM ClaimExclusive == Spec => []ClaimedOnce
<1>1. IInv => ClaimedOnce
  BY DEF IInv
<1> QED
  BY <1>1, Invariance, PTL

(* The whole-row updates of the store overwrite nothing of anybody else:   *)
(* what a worker read at its claim is still what the row says, unless the  *)
(* worker's own success write went unanswered.                             *)
THEOREM NoLostRow == Spec => []CopiesCurrent
<1>1. IInv => CopiesCurrent
  BY DEF IInv
<1> QED
  BY <1>1, Invariance, PTL

(* A provider is told 2xx only for a delivery that has a row.              *)
THEOREM AckSafe == Spec => []AckedIsPersisted
<1>1. IInv => AckedIsPersisted
  BY DEF IInv
<1> QED
  BY <1>1, Invariance, PTL

-----------------------------------------------------------------------------
(* How often a handler has ended well.  Counted are the rows of a key that *)
(* are done, with nobody about to write over them, or about to be done: a  *)
(* worker at "ok" has run the handler.  A row is never counted twice and   *)
(* leaves the count by a fault only.                                       *)

Quiet(e) == \A w \in Workers : copy[w][e] = None
Good(k) ==
  {e \in Rows(k) : \/ event[e].status = "succeeded" /\ Quiet(e)
                   \/ \E w \in Workers : pc[w] = "ok" /\ cur[w] = e}

DoneInv ==
  \A k \in Keys : /\ IsFiniteSet(Rows(k))
                  /\ done[k] <= Cardinality(Good(k)) + faults

LEMMA GoodFinite ==
  ASSUME NEW k, IsFiniteSet(Rows(k))
  PROVE  /\ IsFiniteSet(Good(k)) /\ Cardinality(Good(k)) \in Nat
         /\ Cardinality(Good(k)) <= Cardinality(Rows(k))
         /\ Cardinality(Rows(k)) \in Nat
<1>1. Good(k) \in SUBSET Rows(k)
  BY DEF Good
<1>2. IsFiniteSet(Good(k)) /\ Cardinality(Good(k)) <= Cardinality(Rows(k))
  BY <1>1, FS_Subset
<1> QED
  BY <1>2, FS_CardinalityType

(* A row under another worker is not counted for this one. *)
LEMMA NotYetGood ==
  ASSUME IInv, NEW w \in Workers, pc[w] \in {"handle", "fail"}, NEW k \in Keys
  PROVE  cur[w] \notin Good(k)
<1>1. cur[w] \in Events /\ copy[w][cur[w]] # None
  BY AtEvent, WebhooksAssumption
<1>2. ASSUME NEW v \in Workers, pc[v] = "ok", cur[v] = cur[w]  PROVE FALSE
  <2>1. copy[v][cur[w]] # None
    BY <1>2, AtEvent, WebhooksAssumption
  <2>2. v = w
    BY <1>1, <2>1 DEF IInv, ClaimedOnce
  <2> QED
    BY <1>2, <2>2
<1> QED
  BY <1>1, <1>2 DEF Good, Quiet

(* What a step may do to the count: keep what it has, or lose one row in   *)
(* exchange for a fault, or count one more.                                *)
Grows(S, T) == S \subseteq T /\ \E e : T \subseteq S \cup {e}

LEMMA RowsFinite ==
  ASSUME NEW S, NEW T, IsFiniteSet(S), Grows(S, T)
  PROVE  IsFiniteSet(T)
<1>1. PICK e : T \subseteq S \cup {e}
  BY DEF Grows
<1>2. IsFiniteSet(S \cup {e}) /\ T \in SUBSET (S \cup {e})
  BY <1>1, FS_AddElement
<1> QED
  BY <1>2, FS_Subset

LEMMA KeepsDone ==
  ASSUME TypeOK, TypeOK', DoneInv, done' = done, faults' >= faults,
         \A k \in Keys : Grows(Rows(k), Rows(k)') /\ Good(k) \subseteq Good(k)'
  PROVE  DoneInv'
<1> SUFFICES ASSUME NEW k \in Keys
             PROVE  /\ IsFiniteSet(Rows(k)')
                    /\ done'[k] <= Cardinality(Good(k)') + faults'
  BY DEF DoneInv
<1>1. IsFiniteSet(Rows(k)) /\ done[k] <= Cardinality(Good(k)) + faults
  BY DEF DoneInv
<1>2. IsFiniteSet(Rows(k)')
  BY <1>1, RowsFinite
<1>3. IsFiniteSet(Good(k)') /\ Good(k) \in SUBSET Good(k)'
  <2>1. Good(k)' \in SUBSET Rows(k)'
    BY DEF Good
  <2> QED
    BY <1>2, <2>1, FS_Subset
<1>4. /\ Cardinality(Good(k)) <= Cardinality(Good(k)')
      /\ Cardinality(Good(k)) \in Nat /\ Cardinality(Good(k)') \in Nat
  BY <1>1, <1>3, FS_Subset, FS_CardinalityType
<1>5. done[k] \in Nat /\ faults \in Nat /\ faults' \in Nat
  BY DEF TypeOK
<1> QED
  BY <1>1, <1>2, <1>4, <1>5

LEMMA AllButOne ==
  ASSUME NEW S, NEW x, IsFiniteSet(S)
  PROVE  Cardinality(S) - 1 <= Cardinality(S \ {x})
<1>1. Cardinality(S) \in Nat
  BY FS_CardinalityType
<1>2. CASE x \in S
  <2>1. Cardinality(S \ {x}) = Cardinality(S) - 1
    BY <1>2, FS_RemoveElement, Zenon
  <2> QED
    BY <1>1, <2>1
<1>3. CASE x \notin S
  <2>1. S \ {x} = S
    BY <1>3
  <2>2. Cardinality(S) - 1 <= Cardinality(S)
    BY <1>1
  <2> QED
    BY <2>1, <2>2
<1> QED
  BY <1>2, <1>3

LEMMA LosesOne ==
  ASSUME TypeOK, DoneInv, done' = done, faults' = faults + 1, NEW x,
         \A k \in Keys : Rows(k)' = Rows(k) /\ Good(k) \ {x} \subseteq Good(k)'
  PROVE  DoneInv'
<1> SUFFICES ASSUME NEW k \in Keys
             PROVE  /\ IsFiniteSet(Rows(k)')
                    /\ done'[k] <= Cardinality(Good(k)') + faults'
  BY DEF DoneInv
<1>1. IsFiniteSet(Rows(k)) /\ done[k] <= Cardinality(Good(k)) + faults
  BY DEF DoneInv
<1>2. Rows(k)' = Rows(k)
  OBVIOUS
<1>3. IsFiniteSet(Good(k)) /\ Cardinality(Good(k)) \in Nat
  BY <1>1, GoodFinite
<1>4. IsFiniteSet(Good(k)') /\ Cardinality(Good(k)') \in Nat
  <2>1. Good(k)' \in SUBSET Rows(k)
    BY <1>2 DEF Good
  <2> QED
    BY <1>1, <2>1, FS_Subset, FS_CardinalityType
<1>5. Cardinality(Good(k)) - 1 <= Cardinality(Good(k) \ {x})
  BY <1>3, AllButOne
<1>6. Cardinality(Good(k) \ {x}) <= Cardinality(Good(k)')
      /\ Cardinality(Good(k) \ {x}) \in Nat
  <2>1. Good(k) \ {x} \in SUBSET Good(k)'
    OBVIOUS
  <2> QED
    BY <1>4, <2>1, FS_Subset, FS_CardinalityType
<1>7. done[k] \in Nat /\ faults \in Nat
  BY DEF TypeOK
<1> QED
  BY <1>1, <1>2, <1>3, <1>4, <1>5, <1>6, <1>7

LEMMA DoneInit == Init => DoneInv
<1> SUFFICES ASSUME Init, NEW k \in Keys
             PROVE  /\ IsFiniteSet(Rows(k))
                    /\ done[k] <= Cardinality(Good(k)) + faults
  BY DEF DoneInv
<1>1. Rows(k) = {} /\ Good(k) = {}
  BY DEF Init, Empty, Rows, Good
<1> QED
  BY <1>1, FS_EmptySet DEF Init

(* The rows of a key stay, and those that are counted: the steps that end  *)
(* a worker's event write a row that is not counted, or as succeeded.      *)
LEMMA EndsKeep ==
  ASSUME IInv, NEW w \in Workers, Drops(w), WritesCurrent(w),
         \/ pc[w] = "fail"
         \/ pc[w] = "ok" /\ event'[cur[w]].status = "succeeded"
  PROVE  \A k \in Keys :
           Rows(k)' = Rows(k) /\ Good(k) \subseteq Good(k)'
<1> SUFFICES ASSUME NEW k \in Keys
             PROVE  Rows(k)' = Rows(k) /\ Good(k) \subseteq Good(k)'
  OBVIOUS
<1>1. Rows(k)' = Rows(k)
  BY DEF WritesCurrent, Rows
<1>2. ASSUME NEW e \in Good(k)  PROVE e \in Good(k)'
  <2>1. e \in Rows(k) /\ e \in Rows(k)' /\ e \in Events
    BY <1>1, <1>2 DEF Good, Rows
  <2>2. CASE e = cur[w]
    <3>1. pc[w] = "ok" /\ copy[w][e] # None
      BY <1>2, <2>2, NotYetGood, AtEvent, WebhooksAssumption
    <3>2. Quiet(e)'
      BY <2>1, <2>2, <3>1 DEF Quiet, Drops, IInv, ClaimedOnce
    <3> QED
      BY <2>1, <2>2, <3>1, <3>2 DEF Good
  <2>3. CASE e # cur[w]
    <3>1. event'[e] = event[e]
      BY <2>1, <2>3 DEF WritesCurrent
    <3>2. \A v \in Workers : pc[v] = "ok" /\ cur[v] = e =>
            pc'[v] = "ok" /\ cur'[v] = e
      BY <2>3 DEF Drops
    <3>3. Quiet(e) => Quiet(e)'
      BY <2>1 DEF Quiet, Drops
    <3> QED
      BY <1>2, <2>1, <3>1, <3>2, <3>3 DEF Good
  <2> QED
    BY <2>2, <2>3
<1> QED
  BY <1>1, <1>2

LEMMA DoneTick == IInv /\ DoneInv /\ TypeOK' /\ Tick => DoneInv'
<1> SUFFICES ASSUME IInv, DoneInv, TypeOK', Tick  PROVE DoneInv'
  OBVIOUS
<1>1. UNCHANGED <<pc, copy, cur, done, faults>>
  BY DEF Tick
<1>2. \A k \in Keys : Rows(k)' = Rows(k)
  BY TickRows DEF Rows
<1>3. \A k \in Keys : Good(k)' = Good(k)
  BY <1>1, <1>2, TickRows DEF Good, Rows, Quiet
<1>4. \A k \in Keys : Grows(Rows(k), Rows(k)')
  BY <1>2 DEF Grows
<1> QED
  BY <1>1, <1>3, <1>4, KeepsDone DEF IInv, TypeOK

LEMMA DoneWeb ==
  ASSUME IInv, DoneInv, TypeOK', NEW p \in Receivers,
         \/ \E k \in Keys : Receive(p, k) \/ DuplicateIgnored(p, k)
                            \/ CheckFails(p, k)
         \/ InsertFails(p)
  PROVE  DoneInv'
<1>1. UNCHANGED <<event, pc, copy, cur, done>>
  BY DEF Receive, DuplicateIgnored, CheckFails, InsertFails
<1>2. faults' = faults \/ faults' = faults + 1
  BY DEF Receive, DuplicateIgnored, CheckFails, InsertFails
<1>3. \A k \in Keys : Rows(k)' = Rows(k) /\ Good(k)' = Good(k)
  BY <1>1 DEF Rows, Good, Quiet
<1>4. \A k \in Keys : Grows(Rows(k), Rows(k)')
  BY <1>3 DEF Grows
<1>5. faults' >= faults
  BY <1>2 DEF IInv, TypeOK
<1> QED
  BY <1>1, <1>3, <1>4, <1>5, KeepsDone DEF IInv

LEMMA DoneInsert ==
  ASSUME IInv, DoneInv, TypeOK', NEW p \in Receivers, NEW e \in Events,
         Insert(p, e) \/ InsertUnanswered(p, e)
  PROVE  DoneInv'
<1>1. UNCHANGED <<pc, copy, cur, done>>
  BY DEF Insert, InsertUnanswered
<1>2. /\ \A f \in Events \ {e} : event'[f] = event[f]
      /\ event[e] = None
  BY DEF Insert, InsertUnanswered, IInv, TypeOK
<1>3. \A k \in Keys : Rows(k) \subseteq Rows(k)'
                      /\ Rows(k)' \subseteq Rows(k) \cup {e}
  BY <1>2 DEF Rows
<1>4. \A k \in Keys : Good(k) \subseteq Good(k)'
  BY <1>1, <1>2, <1>3 DEF Good, Rows, Quiet
<1>5. \A k \in Keys : Grows(Rows(k), Rows(k)')
  BY <1>3 DEF Grows
<1>6. faults' >= faults
  <2>1. faults' = faults \/ faults' = faults + 1
    BY DEF Insert, InsertUnanswered
  <2> QED
    BY <2>1 DEF IInv, TypeOK
<1> QED
  BY <1>1, <1>4, <1>5, <1>6, KeepsDone DEF IInv

LEMMA DoneClaim ==
  ASSUME IInv, DoneInv, TypeOK', NEW w \in Workers, NEW S, Claim(w, S)
  PROVE  DoneInv'
<1>1. UNCHANGED <<cur, done, faults>> /\ pc[w] = "idle"
  BY DEF Claim
<1>2. \A k \in Keys : Rows(k)' = Rows(k)
  BY ClaimRows DEF Rows
<1>3. ASSUME NEW k \in Keys, NEW e \in Good(k)  PROVE e \in Good(k)'
  <2>1. e \in Rows(k)' /\ e \in Events /\ event[e] # None
    BY <1>2, <1>3 DEF Good, Rows
  <2>2. CASE event[e].status = "succeeded" /\ Quiet(e)
    <3>1. event'[e] = event[e] /\ e \notin S
      BY <2>1, <2>2, ClaimRows
    <3>2. Quiet(e)'
      BY <2>1, <2>2, <3>1, ClaimCopies DEF Quiet, Empty
    <3> QED
      BY <2>1, <2>2, <3>1, <3>2 DEF Good
  <2>3. CASE \E v \in Workers : pc[v] = "ok" /\ cur[v] = e
    <3>1. PICK v \in Workers : pc[v] = "ok" /\ cur[v] = e
      BY <2>3
    <3>2. pc'[v] = "ok" /\ cur'[v] = e
      BY <1>1, <3>1, ClaimCopies
    <3> QED
      BY <2>1, <3>2 DEF Good
  <2> QED
    BY <1>3, <2>2, <2>3 DEF Good
<1>4. \A k \in Keys : Grows(Rows(k), Rows(k)') /\ Good(k) \subseteq Good(k)'
  BY <1>2, <1>3 DEF Grows
<1> QED
  BY <1>1, <1>4, KeepsDone DEF IInv, TypeOK

\* The handler of w ends well: its row is counted from now on.
LEMMA DoneSucceeds ==
  ASSUME IInv, DoneInv, NEW w \in Workers, HandlerSucceeds(w)
  PROVE  DoneInv'
<1>1. UNCHANGED <<event, copy, cur, faults>> /\ pc[w] = "handle"
      /\ pc' = [pc EXCEPT ![w] = "ok"]
  BY DEF HandlerSucceeds, Goto
<1>2. PICK e \in Events :
        e = cur[w] /\ event[e] # None /\ event[e].key \in Keys
  BY <1>1, AtEvent, WebhooksAssumption DEF EventRow
<1>3. done' = [done EXCEPT ![event[e].key] = done[event[e].key] + 1]
  BY <1>2 DEF HandlerSucceeds
<1> SUFFICES ASSUME NEW k \in Keys
             PROVE  /\ IsFiniteSet(Rows(k)')
                    /\ done'[k] <= Cardinality(Good(k)') + faults'
  BY DEF DoneInv
<1>4. IsFiniteSet(Rows(k)) /\ done[k] <= Cardinality(Good(k)) + faults
      /\ IsFiniteSet(Good(k)) /\ Cardinality(Good(k)) \in Nat
  BY GoodFinite DEF DoneInv
<1>5. Rows(k)' = Rows(k)
  BY <1>1 DEF Rows
<1>6. \A v \in Workers : pc'[v] = "ok" <=> pc[v] = "ok" \/ v = w
  BY <1>1 DEF IInv, TypeOK
<1>7. done[k] \in Nat /\ faults \in Nat
  BY DEF IInv, TypeOK
<1>8. CASE event[e].key = k
  <2>1. Good(k)' = Good(k) \cup {e}
    <3>1. e \in Rows(k)
      BY <1>2, <1>8 DEF Rows
    <3> QED
      BY <1>1, <1>2, <1>5, <1>6, <3>1 DEF Good, Quiet
  <2>2. Cardinality(Good(k)') = Cardinality(Good(k)) + 1
    BY <1>1, <1>2, <1>4, <2>1, NotYetGood, FS_AddElement
  <2>3. done'[k] = done[k] + 1
    BY <1>3, <1>8 DEF IInv, TypeOK
  <2> QED
    BY <1>1, <1>4, <1>5, <1>7, <2>2, <2>3
<1>9. CASE event[e].key # k
  <2>1. Good(k)' = Good(k)
    <3>1. e \notin Rows(k)
      BY <1>2, <1>9 DEF Rows
    <3> QED
      BY <1>1, <1>2, <1>5, <1>6, <3>1 DEF Good, Quiet
  <2>2. done'[k] = done[k]
    BY <1>3, <1>9 DEF IInv, TypeOK
  <2> QED
    BY <1>1, <1>4, <1>5, <2>1, <2>2
<1> QED
  BY <1>8, <1>9

LEMMA DoneInside ==
  ASSUME IInv, DoneInv, TypeOK', NEW w \in Workers,
         (\E e \in Events : StartEvent(w, e)) \/ HandlerFails(w)
  PROVE  DoneInv'
<1>1. UNCHANGED <<event, copy, done, faults>> /\ pc[w] # "ok"
  BY DEF StartEvent, HandlerFails
<1>2. \A v \in Workers : pc[v] = "ok" => pc'[v] = "ok" /\ cur'[v] = cur[v]
  BY <1>1 DEF StartEvent, HandlerFails, Goto, IInv, TypeOK
<1>3. \A k \in Keys : Rows(k)' = Rows(k)
  BY <1>1 DEF Rows
<1>4. \A k \in Keys : Grows(Rows(k), Rows(k)') /\ Good(k) \subseteq Good(k)'
  BY <1>1, <1>2, <1>3 DEF Grows, Good, Quiet
<1> QED
  BY <1>1, <1>4, KeepsDone DEF IInv, TypeOK

LEMMA DoneMarks ==
  ASSUME IInv, DoneInv, TypeOK', NEW w \in Workers,
         \/ MarkSucceeded(w) \/ MarkRetry(w) \/ MarkDead(w) \/ MarkRaises(w)
  PROVE  DoneInv'
<1>1. UNCHANGED <<done, faults>>
  BY DEF MarkSucceeded, MarkRetry, MarkDead, MarkRaises
<1>2. \/ pc[w] = "fail"
      \/ pc[w] = "ok" /\ event'[cur[w]].status = "succeeded"
  <2>1. CASE MarkSucceeded(w)
    <3>1. /\ pc[w] = "ok" /\ cur[w] \in Events /\ event[cur[w]] \in EventRow
      BY <2>1, AtEvent DEF MarkSucceeded
    <3>2. PICK old \in EventRow : old = event[cur[w]]
      BY <3>1
    <3>3. event'[cur[w]] = [old EXCEPT !.status = "succeeded", !.age = 0]
      BY <2>1, <3>1, <3>2 DEF MarkSucceeded, IInv, TypeOK
    <3>4. PICK r \in EventRow :
            /\ r = [old EXCEPT !.status = "succeeded", !.age = 0]
            /\ r.status = "succeeded"
      BY RowSucceeded
    <3>5. event'[cur[w]].status = "succeeded"
      BY <3>3, <3>4
    <3> QED
      BY <3>1, <3>5
  <2> QED
    BY <2>1 DEF MarkRetry, MarkDead, MarkRaises
<1>3. \A k \in Keys : Rows(k)' = Rows(k) /\ Good(k) \subseteq Good(k)'
  BY <1>2, StepEnds, EndsKeep
<1>4. \A k \in Keys : Grows(Rows(k), Rows(k)') /\ Good(k) \subseteq Good(k)'
  BY <1>3 DEF Grows
<1> QED
  BY <1>1, <1>4, KeepsDone DEF IInv, TypeOK

LEMMA DoneFaults ==
  ASSUME IInv, DoneInv, NEW w \in Workers,
         SucceededWriteFails(w) \/ SucceededUnanswered(w) \/ Crash(w)
  PROVE  DoneInv'
<1>1. UNCHANGED done /\ faults' = faults + 1
  BY DEF SucceededWriteFails, SucceededUnanswered, Crash
<1>2. \A v \in Workers : v # w /\ pc[v] = "ok" =>
        pc'[v] = "ok" /\ cur'[v] = cur[v]
  BY DEF SucceededWriteFails, SucceededUnanswered, Crash, Goto, Leave, IInv,
         TypeOK
<1>3. \A e \in Events : e # cur[w] => event'[e] = event[e]
  BY UnansweredRows DEF SucceededWriteFails, Crash
<1>4. \A k \in Keys : Rows(k)' = Rows(k)
  <2>1. CASE SucceededUnanswered(w)
    BY <2>1, UnansweredRows DEF Rows
  <2>2. CASE SucceededWriteFails(w) \/ Crash(w)
    BY <2>2 DEF SucceededWriteFails, Crash, Rows
  <2> QED
    BY <2>1, <2>2
<1>5. \A e \in Events : Quiet(e) => Quiet(e)'
  <2>1. copy' = copy \/ copy' = [copy EXCEPT ![w] = Empty]
    BY DEF SucceededWriteFails, SucceededUnanswered, Crash, Leave
  <2> QED
    BY <2>1 DEF Quiet, Empty, IInv, TypeOK
<1>6. \A k \in Keys : Good(k) \ {cur[w]} \subseteq Good(k)'
  <2> SUFFICES ASSUME NEW k \in Keys, NEW e \in Good(k), e # cur[w]
               PROVE  e \in Good(k)'
    OBVIOUS
  <2>1. e \in Rows(k)' /\ e \in Events
    BY <1>4 DEF Good, Rows
  <2> QED
    BY <1>2, <1>3, <1>5, <2>1 DEF Good
<1> QED
  BY <1>1, <1>4, <1>6, LosesOne DEF IInv

(* The handler of a key ends well once per row and once more per fault.    *)
THEOREM HandledOnce == Spec => []DoneOncePerRow
<1>1. Init => IInv /\ DoneInv
  BY InitInv, DoneInit
<1>2. IInv /\ DoneInv /\ [Next]_vars => IInv' /\ DoneInv'
  <2> SUFFICES ASSUME IInv, DoneInv, [Next]_vars  PROVE IInv' /\ DoneInv'
    OBVIOUS
  <2>1. IInv' /\ TypeOK'
    BY StepInv DEF IInv
  <2>2. CASE UNCHANGED vars
    BY <2>1, <2>2 DEF vars, DoneInv, Rows, Good, Quiet
  <2>3. ASSUME NEW w \in Workers,
               \/ WorkerStep(w) \/ Crash(w)
               \/ SucceededWriteFails(w) \/ SucceededUnanswered(w)
        PROVE  DoneInv'
    BY <2>1, <2>3, DoneClaim, DoneSucceeds, DoneInside, DoneMarks, DoneFaults
       DEF WorkerStep
  <2> QED
    BY <2>1, <2>2, <2>3, DoneTick, DoneWeb, DoneInsert DEF Next
<1>3. IInv /\ DoneInv => DoneOncePerRow
  <2> SUFFICES ASSUME IInv, DoneInv, NEW k \in Keys
               PROVE  done[k] <= Cardinality(Rows(k)) + faults
    BY DEF DoneOncePerRow
  <2>1. /\ done[k] <= Cardinality(Good(k)) + faults
        /\ Cardinality(Good(k)) <= Cardinality(Rows(k))
        /\ Cardinality(Good(k)) \in Nat /\ Cardinality(Rows(k)) \in Nat
    BY GoodFinite DEF DoneInv
  <2>2. done[k] \in Nat /\ faults \in Nat
    BY DEF IInv, TypeOK
  <2> QED
    BY <2>1, <2>2
<1> QED
  BY <1>1, <1>2, <1>3, PTL DEF Spec

-----------------------------------------------------------------------------
(* The refinement: the rows and batches of Webhooks behave as WorkQueue.   *)

(* What an event looks like to the queue, from its row and its holder. *)
StateOf(ev, cp) == [e \in Events |->
  IF ev[e] = None THEN "absent"
  ELSE CASE ev[e].status = "pending" -> "open"
         [] ev[e].status \in Terminal -> "done"
         [] OTHER -> IF \E w \in Workers : cp[w][e] # None
                     THEN CHOOSE w \in Workers : cp[w][e] # None
                     ELSE "lost"]

QueueStates == {"absent", "open", "lost", "done"} \cup Workers

LEMMA StateFacts ==
  ASSUME NEW ev, NEW cp, NEW e \in Events,
         \A v, w \in Workers : cp[v][e] # None /\ cp[w][e] # None => v = w
  PROVE  /\ ev[e] = None => StateOf(ev, cp)[e] = "absent"
         /\ ev[e] # None /\ ev[e].status = "pending" =>
              StateOf(ev, cp)[e] = "open"
         /\ ev[e] # None /\ ev[e].status \in Terminal =>
              StateOf(ev, cp)[e] = "done"
         /\ ev[e] # None /\ ev[e].status = "processing" =>
              /\ \A w \in Workers : cp[w][e] # None =>
                   StateOf(ev, cp)[e] = w
              /\ (\A w \in Workers : cp[w][e] = None) =>
                   StateOf(ev, cp)[e] = "lost"
<1> DEFINE st == StateOf(ev, cp)[e]
<1>1. ev[e] = None => st = "absent"
  BY DEF StateOf
<1>2. ev[e] # None /\ ev[e].status = "pending" => st = "open"
  BY DEF StateOf, Terminal
<1>3. ev[e] # None /\ ev[e].status \in Terminal => st = "done"
  BY DEF StateOf, Terminal
<1>4. ASSUME ev[e] # None, ev[e].status = "processing"
      PROVE  st = IF \E w \in Workers : cp[w][e] # None
                  THEN CHOOSE w \in Workers : cp[w][e] # None ELSE "lost"
  BY <1>4 DEF StateOf, Terminal
<1>5. ASSUME ev[e] # None, ev[e].status = "processing",
             NEW w \in Workers, cp[w][e] # None
      PROVE  st = w
  <2>1. st = CHOOSE v \in Workers : cp[v][e] # None
    BY <1>4, <1>5
  <2>2. st \in Workers /\ cp[st][e] # None
    BY <1>5, <2>1
  <2> QED
    BY <1>5, <2>2
<1> QED
  BY <1>1, <1>2, <1>3, <1>4, <1>5

LEMMA StateIs == QueueState = StateOf(event, copy)
                 /\ QueueState' = StateOf(event', copy')
BY DEF QueueState, StateOf

(* Rows that keep existence and status, with the same copies, look alike. *)
LEMMA SameState ==
  ASSUME IInv, IInv', NEW e \in Events,
         event'[e] = None <=> event[e] = None,
         event[e] # None => event'[e].status = event[e].status,
         \A w \in Workers : copy'[w][e] = None <=> copy[w][e] = None
  PROVE  QueueState'[e] = QueueState[e]
<1>1. \A v, w \in Workers : copy[v][e] # None /\ copy[w][e] # None => v = w
  BY DEF IInv, ClaimedOnce
<1>2. \A v, w \in Workers : copy'[v][e] # None /\ copy'[w][e] # None => v = w
  BY DEF IInv, ClaimedOnce
<1>3. event[e] # None =>
        event[e].status \in {"pending", "processing"} \cup Terminal
  BY DEF IInv, TypeOK, EventRow
<1> QED
  BY <1>1, <1>2, <1>3, StateFacts, StateIs

(* Who has still to be told of a finished event. *)
LEMMA UnansweredIs ==
  /\ \A w \in Workers, e \in Events :
       /\ <<w, e>> \in Unanswered <=>
            /\ copy[w][e] # None /\ event[e] # None
            /\ event[e].status \in Terminal
       /\ <<w, e>> \in Unanswered' <=>
            /\ copy'[w][e] # None /\ event'[e] # None
            /\ event'[e].status \in Terminal
  /\ \A p \in Unanswered \cup Unanswered' :
       p[1] \in Workers /\ p[2] \in Events /\ p = <<p[1], p[2]>>
BY DEF Unanswered

LEMMA SameUnanswered ==
  ASSUME \A w \in Workers, e \in Events :
           <<w, e>> \in Unanswered' <=> <<w, e>> \in Unanswered
  PROVE  Unanswered' = Unanswered
BY UnansweredIs

LEMMA Same ==
  ASSUME IInv, IInv',
         \A e \in Events :
           /\ event'[e] = None <=> event[e] = None
           /\ event[e] # None => event'[e].status = event[e].status,
         copy' = copy
  PROVE  UNCHANGED <<QueueState, Unanswered>>
<1>1. \A e \in Events : QueueState'[e] = QueueState[e]
  BY SameState
<1>2. Unanswered' = Unanswered
  BY UnansweredIs, SameUnanswered
<1> QED
  BY <1>1, <1>2, StateIs DEF StateOf

LEMMA StateOfType ==
  ASSUME NEW ev, NEW cp,
         \A e \in Events, v, w \in Workers :
           cp[v][e] # None /\ cp[w][e] # None => v = w,
         ev \in [Events -> EventRow \cup {None}]
  PROVE  StateOf(ev, cp) \in [Events -> QueueStates]
<1> SUFFICES ASSUME NEW e \in Events
             PROVE  StateOf(ev, cp)[e] \in QueueStates
  BY DEF StateOf
<1>1. ev[e] # None =>
        ev[e].status \in {"pending", "processing"} \cup Terminal
  BY DEF EventRow
<1> QED
  BY <1>1, StateFacts DEF QueueStates

LEMMA StateType ==
  /\ IInv => QueueState \in [Events -> QueueStates]
  /\ IInv' => QueueState' \in [Events -> QueueStates]
BY StateOfType, StateIs DEF IInv, TypeOK, ClaimedOnce

LEMMA InsertPuts ==
  ASSUME IInv, IInv', NEW p \in Receivers, NEW e \in Events,
         Insert(p, e) \/ InsertUnanswered(p, e)
  PROVE  Queue!Put(e)
<1>1. event[e] = None /\ copy' = copy
  BY DEF Insert, InsertUnanswered
<1>2. /\ \A x \in Events \ {e} : event'[x] = event[x]
      /\ event'[e] # None /\ event'[e].status = "pending"
  <2>1. event'[e].key \in Keys \cup {None} /\ event'[e].status = "pending"
    BY DEF Insert, InsertUnanswered, IInv, TypeOK
  <2>2. event'[e] # None
    <3>1. PICK k \in Keys : wants[p] = k
      BY DEF Insert, InsertUnanswered, IInv, TypeOK
    <3> DEFINE r == [key |-> k, status |-> "pending", wait |-> 0, age |-> 0,
                     attempts |-> 0]
    <3>2. r \in EventRow
      BY WebhooksAssumption DEF EventRow
    <3>3. event'[e] = r
      BY <3>1 DEF Insert, InsertUnanswered, IInv, TypeOK
    <3> QED
      BY <3>2, <3>3, WebhooksAssumption
  <2> QED
    BY <2>1, <2>2 DEF Insert, InsertUnanswered, IInv, TypeOK
<1>3. QueueState[e] = "absent" /\ QueueState'[e] = "open"
  <2>1. \A v, w \in Workers : copy[v][e] # None /\ copy[w][e] # None => v = w
    BY DEF IInv, ClaimedOnce
  <2> QED
    BY <1>1, <1>2, <2>1, StateFacts, StateIs
<1>4. \A x \in Events \ {e} : QueueState'[x] = QueueState[x]
  BY <1>1, <1>2, SameState
<1>5. Unanswered' = Unanswered
  <2>1. \A w \in Workers : copy[w][e] = None
    BY <1>1 DEF IInv, CopiesCurrent
  <2> QED
    BY <1>1, <1>2, <2>1, UnansweredIs, SameUnanswered
<1> QED
  BY <1>3, <1>4, <1>5, StateType DEF Queue!Put

LEMMA ClaimTakes ==
  ASSUME IInv, IInv', NEW w \in Workers, NEW S, Claim(w, S)
  PROVE  Queue!Take(w)
<1>1. \A x \in Events \ S : QueueState'[x] = QueueState[x]
  <2> TAKE x \in Events \ S
  <2>1. copy[w][x] = None /\ copy'[w][x] = None
    <3>1. copy[w] = Empty
      BY DEF Claim, IInv, BatchInv
    <3> QED
      BY <3>1, ClaimCopies DEF Empty
  <2>2. event'[x] = event[x]
    BY ClaimRows
  <2>3. \A v \in Workers : copy'[v][x] = None <=> copy[v][x] = None
    BY <2>1, ClaimCopies
  <2> QED
    BY <2>2, <2>3, SameState
<1>2. ASSUME NEW x \in S
      PROVE  QueueState[x] = "open" /\ QueueState'[x] \in {w, "lost"}
  <2>1. x \in Events /\ \A v \in Workers : copy[v][x] = None
    BY ClaimRows DEF IInv, CopiesCurrent
  <2>2. /\ \A v, u \in Workers :
               copy[v][x] # None /\ copy[u][x] # None => v = u
        /\ \A v, u \in Workers :
             copy'[v][x] # None /\ copy'[u][x] # None => v = u
    BY <2>1 DEF IInv, ClaimedOnce
  <2>3. \A v \in Workers \ {w} : copy'[v][x] = None
    BY <2>1, ClaimCopies
  <2> QED
    BY <2>1, <2>2, <2>3, ClaimRows, StateFacts, StateIs
<1>3. S \subseteq Events /\ QueueState' \in [Events -> QueueStates]
  BY ClaimRows, StateType
<1>4. Unanswered' = Unanswered
  <2>1. ASSUME NEW v \in Workers, NEW x \in S
        PROVE  <<v, x>> \notin Unanswered /\ <<v, x>> \notin Unanswered'
    <3>1. /\ x \in Events /\ event[x].status = "pending"
          /\ event'[x].status = "processing"
      BY <2>1, ClaimRows
    <3> QED
      BY <3>1, UnansweredIs DEF Terminal
  <2>2. ASSUME NEW v \in Workers, NEW x \in Events \ S
        PROVE  /\ event'[x] = event[x]
               /\ copy'[v][x] = None <=> copy[v][x] = None
    <3>1. copy[w] = Empty
      BY DEF Claim, IInv, BatchInv
    <3> QED
      BY <2>2, <3>1, ClaimRows, ClaimCopies DEF Empty
  <2> QED
    BY <2>1, <2>2, UnansweredIs, SameUnanswered
<1> QED
  BY <1>1, <1>2, <1>3, <1>4
     DEF Queue!Take, Queue!Free, Queue!States, QueueStates

LEMMA EndSettles ==
  ASSUME IInv, IInv', NEW w \in Workers, Drops(w), WritesCurrent(w)
  PROVE  Queue!Settle(w)
<1>1. ASSUME NEW e \in Events, copy[w][e] = None
      PROVE  QueueState'[e] = QueueState[e]
  <2>1. event'[e] = event[e] /\ copy'[w][e] = None
    BY <1>1 DEF WritesCurrent, Drops
  <2> QED
    BY <1>1, <2>1, SameState DEF Drops
<1>2. ASSUME NEW e \in Events, copy[w][e] # None
      PROVE  \/ QueueState[e] = w
             \/ QueueState[e] = "done" /\ <<w, e>> \in Unanswered
                /\ e = cur[w]
  <2>1. /\ event[e] # None
        /\ \/ event[e].status = "processing"
           \/ event[e].status = "succeeded" /\ cur[w] = e
    BY <1>2 DEF IInv, CopiesCurrent
  <2>2. \A v, u \in Workers : copy[v][e] # None /\ copy[u][e] # None => v = u
    BY DEF IInv, ClaimedOnce
  <2>3. CASE event[e].status = "processing"
    BY <1>2, <2>1, <2>2, <2>3, StateFacts, StateIs
  <2>4. CASE event[e].status = "succeeded" /\ cur[w] = e
    <3>1. event[e].status \in Terminal /\ e = cur[w]
      BY <2>4 DEF Terminal
    <3> QED
      BY <1>2, <2>1, <2>2, <3>1, StateFacts, StateIs, UnansweredIs
  <2> QED
    BY <2>1, <2>3, <2>4
<1>3. ASSUME NEW e \in Events, copy[w][e] # None
      PROVE  /\ QueueState'[e] \in {w, "open", "lost", "done"}
             /\ event'[e] # event[e] => QueueState'[e] \in {"open", "done"}
  <2>1. /\ event[e] # None
        /\ \A v \in Workers \ {w} : copy[v][e] = None
    BY <1>3 DEF IInv, CopiesCurrent, ClaimedOnce
  <2>2. \A v, u \in Workers :
          copy'[v][e] # None /\ copy'[u][e] # None => v = u
    BY DEF IInv, ClaimedOnce
  <2>3. \A v \in Workers \ {w} : copy'[v][e] = None
    BY <2>1 DEF Drops
  <2>4. /\ event'[e] # None
        /\ event'[e].status \in {"pending", "processing"} \cup Terminal
        /\ event'[e] # event[e] =>
             event'[e].status \in {"pending"} \cup Terminal
    BY <2>1 DEF WritesCurrent, EventRow
  <2> QED
    BY <2>2, <2>3, <2>4, StateFacts, StateIs
<1>4. ASSUME NEW e \in Events, copy[w][e] # None, QueueState[e] = "done",
             <<w, e>> \in Unanswered, event'[e] = event[e]
      PROVE  QueueState'[e] = "done"
  <2>1. event'[e] # None /\ event'[e].status \in Terminal
    BY <1>4, UnansweredIs
  <2>2. \A v, u \in Workers :
          copy'[v][e] # None /\ copy'[u][e] # None => v = u
    BY DEF IInv, ClaimedOnce
  <2> QED
    BY <2>1, <2>2, StateFacts, StateIs
<1>5. \A e \in Events : QueueState'[e] # QueueState[e] =>
        \/ QueueState[e] = w /\ QueueState'[e] \in {"open", "lost", "done"}
        \/ <<w, e>> \in Unanswered /\ QueueState'[e] = "open"
  <2> SUFFICES ASSUME NEW e \in Events, QueueState'[e] # QueueState[e]
               PROVE  \/ /\ QueueState[e] = w
                         /\ QueueState'[e] \in {"open", "lost", "done"}
                      \/ <<w, e>> \in Unanswered /\ QueueState'[e] = "open"
    OBVIOUS
  <2>1. copy[w][e] # None
    BY <1>1
  <2>2. CASE QueueState[e] = w
    BY <1>3, <2>1, <2>2
  <2>3. CASE QueueState[e] = "done" /\ <<w, e>> \in Unanswered
    <3>1. event'[e] # event[e]
      BY <1>4, <2>1, <2>3
    <3> QED
      BY <1>3, <2>1, <2>3, <3>1
  <2> QED
    BY <1>2, <2>1, <2>2, <2>3
<1>6. ASSUME NEW v \in Workers, NEW e \in Events
      PROVE  /\ <<v, e>> \in Unanswered' => <<v, e>> \in Unanswered
             /\ <<v, e>> \in Unanswered /\ <<v, e>> \notin Unanswered' => v = w
  <2>1. CASE v = w
    <3>1. copy'[w][e] # None => copy[w][e] # None /\ event'[e] = event[e]
      BY DEF Drops, WritesCurrent
    <3> QED
      BY <2>1, <3>1, UnansweredIs
  <2>2. CASE v # w
    <3>1. copy'[v] = copy[v]
      BY <2>2 DEF Drops
    <3>2. copy[v][e] # None => event'[e] = event[e]
      BY <2>2 DEF WritesCurrent, IInv, ClaimedOnce
    <3> QED
      BY <2>2, <3>1, <3>2, UnansweredIs
  <2> QED
    BY <2>1, <2>2
<1>7. ASSUME NEW v \in Workers, NEW e \in Events, <<v, e>> \in Unanswered'
      PROVE  QueueState'[e] = "done"
  <2>1. event'[e] # None /\ event'[e].status \in Terminal
    BY <1>7, UnansweredIs
  <2>2. \A u, x \in Workers :
          copy'[u][e] # None /\ copy'[x][e] # None => u = x
    BY DEF IInv, ClaimedOnce
  <2> QED
    BY <2>1, <2>2, StateFacts, StateIs
<1>8. /\ Unanswered' \subseteq Unanswered
      /\ \A p \in Unanswered \ Unanswered' : p[1] = w
      /\ \A p \in Unanswered' : QueueState'[p[2]] = "done"
  BY <1>6, <1>7, UnansweredIs
<1>9. QueueState' \in [Events -> QueueStates]
  BY StateType
<1> QED
  BY <1>5, <1>8, <1>9 DEF Queue!Settle, Queue!States, QueueStates

LEMMA UnansweredDoubts ==
  ASSUME IInv, IInv', NEW w \in Workers, SucceededUnanswered(w)
  PROVE  Queue!Doubt(w, cur[w])
<1> DEFINE i == cur[w]
<1>1. /\ i \in Events /\ copy[w][i] # None /\ event[i] # None /\ pc[w] = "ok"
      /\ copy' = copy /\ \A e \in Events \ {i} : event'[e] = event[e]
      /\ event'[i] # None /\ event'[i].status \in Terminal
  BY UnansweredRows DEF Terminal
<1> HIDE DEF i
<1>2. \A v, u \in Workers : copy[v][i] # None /\ copy[u][i] # None => v = u
  BY <1>1 DEF IInv, ClaimedOnce
<1>3. QueueState[i] = w
  <2>1. event[i].status = "processing"
    BY UnansweredRows DEF i
  <2> QED
    BY <1>1, <1>2, <2>1, StateFacts, StateIs
<1>4. QueueState'[i] = "done"
  BY <1>1, <1>2, StateFacts, StateIs
<1>5. \A e \in Events \ {i} : QueueState'[e] = QueueState[e]
  BY <1>1, SameState
<1>6. QueueState' = [QueueState EXCEPT ![i] = "done"]
  BY <1>1, <1>4, <1>5, StateType
<1>7. Unanswered' = Unanswered \cup {<<w, i>>}
  <2>1. \A v \in Workers, e \in Events :
          <<v, e>> \in Unanswered' <=>
            <<v, e>> \in Unanswered \/ (v = w /\ e = i)
    BY <1>1, <1>2, UnansweredIs
  <2> QED
    BY <1>1, <2>1, UnansweredIs
<1> QED
  BY <1>3, <1>6, <1>7 DEF Queue!Doubt, i

LEMMA QueueStep ==
  IInv /\ IInv' /\ [Next]_vars => [Queue!Next]_<<QueueState, Unanswered>>
<1> SUFFICES ASSUME IInv, IInv', [Next]_vars
             PROVE  Queue!Next \/ UNCHANGED <<QueueState, Unanswered>>
  OBVIOUS
<1>1. CASE UNCHANGED vars
  BY <1>1, Same DEF vars
<1>2. CASE Tick
  <2>1. copy' = copy
    BY <1>2 DEF Tick
  <2> QED
    BY <1>2, <2>1, TickRows, Same
<1>3. ASSUME NEW p \in Receivers, NEW e \in Events,
             Insert(p, e) \/ InsertUnanswered(p, e)
      PROVE  Queue!Next
  BY <1>3, InsertPuts DEF Queue!Next
<1>4. ASSUME NEW p \in Receivers,
             \/ \E k \in Keys : Receive(p, k) \/ DuplicateIgnored(p, k)
                                \/ CheckFails(p, k)
             \/ InsertFails(p)
      PROVE  UNCHANGED <<QueueState, Unanswered>>
  <2>1. UNCHANGED <<event, copy>>
    BY <1>4, StepWeb
  <2> QED
    BY <2>1, Same
<1>5. ASSUME NEW w \in Workers,
             \/ WorkerStep(w) \/ Crash(w)
             \/ SucceededWriteFails(w) \/ SucceededUnanswered(w)
      PROVE  Queue!Next \/ UNCHANGED <<QueueState, Unanswered>>
  <2>1. ASSUME NEW S, Claim(w, S) PROVE Queue!Next
    BY <2>1, ClaimTakes DEF Queue!Next
  <2>2. CASE \/ \E e \in Events : StartEvent(w, e)
             \/ HandlerSucceeds(w) \/ HandlerFails(w)
             \/ SucceededWriteFails(w)
    <3>1. UNCHANGED <<event, copy>>
      BY <2>2, StepInside
    <3> QED
      BY <3>1, Same
  <2>3. CASE \/ MarkSucceeded(w) \/ MarkRetry(w) \/ MarkDead(w)
             \/ MarkRaises(w) \/ Crash(w)
    <3>1. Drops(w) /\ WritesCurrent(w)
      BY <2>3, StepEnds
    <3> QED
      BY <3>1, EndSettles DEF Queue!Next
  <2>4. CASE SucceededUnanswered(w)
    <3>1. cur[w] \in Events
      BY <2>4, UnansweredRows
    <3> QED
      BY <2>4, <3>1, UnansweredDoubts DEF Queue!Next
  <2> QED
    BY <1>5, <2>1, <2>2, <2>3, <2>4 DEF WorkerStep
<1> QED
  BY <1>1, <1>2, <1>3, <1>4, <1>5 DEF Next

(* Every execution is one of WorkQueue: only the worker that has an event  *)
(* settles it, and a finished event is opened again by none but the worker *)
(* whose success write went unanswered.                                    *)
THEOREM Refinement == Spec => ImplementsQueue
<1>1. Init => Queue!Init
  <2>1. Init => QueueState = [e \in Events |-> "absent"]
    BY StateIs DEF Init, StateOf, Empty
  <2>2. Init => Unanswered = {}
    BY DEF Init, Unanswered, Empty
  <2> QED
    BY <2>1, <2>2 DEF Queue!Init
<1> QED
  BY <1>1, QueueStep, Invariance, PTL
     DEF Spec, ImplementsQueue, Queue!Spec, Queue!vars
=============================================================================
