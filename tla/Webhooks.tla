------------------------------- MODULE Webhooks -------------------------------
(***************************************************************************)
(* webhooks_service: web processes that verify, dedupe and persist the     *)
(* deliveries of providers, and workers that loop over process_due_events. *)
(*                                                                         *)
(* The route calls the synchronous store from its coroutine, so the check  *)
(* and the insert of one delivery are two database calls with nothing of   *)
(* the same process in between: a step is one database or handler call,    *)
(* and the actors are processes.  Times are relative to the clock: how     *)
(* long until next_retry_at, how long since processed_at.                  *)
(***************************************************************************)
EXTENDS LogLevels, Naturals, FiniteSets

CONSTANTS
  Events,      \* rows of webhook_events
  Keys,        \* (provider, idempotency key) pairs
  Receivers,   \* web processes
  Workers,
  None,
  Handled,     \* keys whose provider has a registered handler
  Levels,      \* levels the host may set the store's logger to
  MaxRetries,  \* max_retries of an event
  Limit,       \* `limit` of process_due_events
  Base, Cap,   \* base_backoff_seconds, max_backoff_seconds
  Window,      \* idempotency_window_hours
  MaxFaults    \* bound: crashes and failed database calls

Terminal == {"succeeded", "dead_lettered"}
EventRow == [key : Keys, status : {"pending", "processing"} \cup Terminal,
             wait : Nat, age : 0..Window + 1, attempts : 0..MaxRetries]

ASSUME WebhooksAssumption ==
  /\ Handled \subseteq Keys /\ Levels \subseteq DOMAIN Rank
  /\ {MaxRetries, Limit} \subseteq Nat \ {0}
  /\ {Base, Cap, Window, MaxFaults} \subseteq Nat
  /\ None \notin Events \cup Keys \cup Nat /\ None \notin EventRow

VARIABLES
  event,   \* rows of webhook_events
  wants,   \* the delivery a web process is at (its key)
  acked,   \* keys whose provider has had a 2xx
  pc,      \* where each worker is in process_due_events
  copy,    \* a worker's batch: attempt_count of each event as claimed
  cur,     \* the event a worker is at
  done,    \* auxiliary: handler calls for a key that ended well
  level,   \* the level the host runs with
  faults   \* crashes and failed calls so far

vars == <<event, wants, acked, pc, copy, cur, done, level, faults>>

Least(a, b) == IF a < b THEN a ELSE b
Empty == [e \in Events |-> None]

Init ==
  /\ event = Empty
  /\ wants = [p \in Receivers |-> None]
  /\ acked = {}
  /\ pc = [w \in Workers |-> "idle"]
  /\ copy = [w \in Workers |-> Empty]
  /\ cur = [w \in Workers |-> None]
  /\ done = [k \in Keys |-> 0]
  /\ level \in Levels
  /\ faults = 0

Tick ==
  /\ event' = [e \in Events |->
       IF event[e] = None THEN None
       ELSE [event[e] EXCEPT !.wait = IF @ = 0 THEN 0 ELSE @ - 1,
                             !.age = IF event[e].status = "succeeded"
                                     THEN Least(@ + 1, Window + 1) ELSE @]]
  /\ UNCHANGED <<wants, acked, pc, copy, cur, done, level, faults>>

-----------------------------------------------------------------------------
(* receive_webhook.  A provider may deliver a key at any time, and again. *)

AlreadyProcessed(k) ==
  \E e \in Events : /\ event[e] # None /\ event[e].key = k
                    /\ event[e].status = "succeeded" /\ event[e].age <= Window

Answer(p, k) ==
  /\ wants' = [wants EXCEPT ![p] = None]
  /\ acked' = acked \cup {k}

(* Verified, and the dedupe query found nothing. *)
Receive(p, k) ==
  /\ wants[p] = None
  /\ ~AlreadyProcessed(k)
  /\ wants' = [wants EXCEPT ![p] = k]
  /\ UNCHANGED <<event, acked, pc, copy, cur, done, level, faults>>

DuplicateIgnored(p, k) ==
  /\ wants[p] = None
  /\ AlreadyProcessed(k)
  /\ Answer(p, k)
  /\ UNCHANGED <<event, pc, copy, cur, done, level, faults>>

(* The dedupe query fails: meant to read as "not processed", but the log   *)
(* call of the `except` raises when ERROR is enabled.                      *)
CheckFails(p, k) ==
  /\ wants[p] = None /\ faults < MaxFaults
  /\ faults' = faults + 1
  /\ wants' = IF Raises(level, "ERROR") THEN wants
              ELSE [wants EXCEPT ![p] = k]
  /\ UNCHANGED <<event, acked, pc, copy, cur, done, level>>

(* The insert; with INFO enabled the provider gets an error all the same. *)
Insert(p, e) ==
  /\ wants[p] # None /\ event[e] = None
  /\ event' = [event EXCEPT ![e] =
       [key |-> wants[p], status |-> "pending", wait |-> 0, age |-> 0,
        attempts |-> 0]]
  /\ IF Raises(level, "INFO")
     THEN wants' = [wants EXCEPT ![p] = None] /\ acked' = acked
     ELSE Answer(p, wants[p])
  /\ UNCHANGED <<pc, copy, cur, done, level, faults>>

(* The insert is applied and its answer lost: a row, and an error to the    *)
(* provider.                                                               *)
InsertUnanswered(p, e) ==
  /\ wants[p] # None /\ event[e] = None /\ faults < MaxFaults
  /\ event' = [event EXCEPT ![e] =
       [key |-> wants[p], status |-> "pending", wait |-> 0, age |-> 0,
        attempts |-> 0]]
  /\ wants' = [wants EXCEPT ![p] = None]
  /\ faults' = faults + 1
  /\ UNCHANGED <<acked, pc, copy, cur, done, level>>

InsertFailsQuietly(p) ==                \* slip: the error is swallowed
  /\ wants[p] # None /\ faults < MaxFaults
  /\ Answer(p, wants[p])
  /\ faults' = faults + 1
  /\ UNCHANGED <<event, pc, copy, cur, done, level>>
InsertFails(p) ==
  /\ wants[p] # None /\ faults < MaxFaults
  /\ wants' = [wants EXCEPT ![p] = None]
  /\ faults' = faults + 1
  /\ UNCHANGED <<event, acked, pc, copy, cur, done, level>>

-----------------------------------------------------------------------------
(* process_due_events *)

Leave(w) ==
  /\ pc' = [pc EXCEPT ![w] = "idle"]
  /\ copy' = [copy EXCEPT ![w] = Empty]
  /\ cur' = [cur EXCEPT ![w] = None]

Goto(w, label) == pc' = [pc EXCEPT ![w] = label]

DueAny(e) == event[e] # None            \* slip: no status in the query
             /\ event[e].status # "processing" /\ event[e].wait = 0
Due(e) == event[e] # None /\ event[e].status = "pending" /\ event[e].wait = 0

(* claim_due_events: one UPDATE; which due rows fit under the limit        *)
(* (received_at order) is left open.                                       *)
Claim(w, S) ==
  /\ pc[w] = "idle"
  /\ S \subseteq {e \in Events : Due(e)} /\ S # {}
  /\ Cardinality(S) = Least(Limit, Cardinality({e \in Events : Due(e)}))
  /\ event' = [e \in Events |->
       IF e \in S THEN [event[e] EXCEPT !.status = "processing"] ELSE event[e]]
  /\ IF Raises(level, "DEBUG")
     THEN UNCHANGED <<pc, copy>>
     ELSE /\ Goto(w, "run")
          /\ copy' = [copy EXCEPT ![w] =
               [e \in Events |-> IF e \in S THEN event[e].attempts ELSE None]]
  /\ UNCHANGED <<wants, acked, cur, done, level, faults>>

(* The next event of the batch: its handler starts, or there is none. *)
StartEvent(w, e) ==
  /\ pc[w] = "run" /\ copy[w][e] # None
  /\ Goto(w, IF event[e].key \in Handled THEN "handle" ELSE "fail")
  /\ cur' = [cur EXCEPT ![w] = e]
  /\ UNCHANGED <<event, wants, acked, copy, done, level, faults>>

HandlerSucceeds(w) ==
  /\ pc[w] = "handle"
  /\ Goto(w, "ok")
  /\ done' = [done EXCEPT ![event[cur[w]].key] = @ + 1]
  /\ UNCHANGED <<event, wants, acked, copy, cur, level, faults>>

HandlerFails(w) ==
  /\ pc[w] = "handle"
  /\ Goto(w, "fail")
  /\ UNCHANGED <<event, wants, acked, copy, cur, done, level, faults>>

NextEvent(w) ==
  IF \A e \in Events \ {cur[w]} : copy[w][e] = None
  THEN Leave(w)
  ELSE /\ Goto(w, "run")
       /\ copy' = [copy EXCEPT ![w][cur[w]] = None]
       /\ cur' = [cur EXCEPT ![w] = None]

(* With INFO enabled the log call raises after the update, mark_failed is  *)
(* entered, and its own log call raises out of process_due_events.         *)
MarkSucceeded(w) ==
  /\ pc[w] = "ok"
  /\ event' = [event EXCEPT ![cur[w]] =
                 [@ EXCEPT !.status = "succeeded", !.age = 0]]
  /\ IF Raises(level, "INFO") THEN Leave(w) ELSE NextEvent(w)
  /\ UNCHANGED <<wants, acked, done, level, faults>>

Backoff(n) == Least(Base * 2^n, Cap)

(* Tried again only if it has a handler: without one next_retry_at is None. *)
Retry(w) ==
  event[cur[w]].key \in Handled /\ copy[w][cur[w]] + 1 < MaxRetries

MarkRetry(w) ==
  /\ pc[w] = "fail" /\ Retry(w)
  /\ ~Raises(level, "INFO")
  /\ event' = [event EXCEPT ![cur[w]] =
       [@ EXCEPT !.status = "pending", !.attempts = copy[w][cur[w]] + 1,
                 !.wait = Backoff(copy[w][cur[w]])]]
  /\ NextEvent(w)
  /\ UNCHANGED <<wants, acked, done, level, faults>>

MarkDeadForgotten(w) ==                 \* slip: the row is not written
  /\ pc[w] = "fail" /\ ~Retry(w)
  /\ NextEvent(w)
  /\ UNCHANGED <<event, wants, acked, done, level, faults>>
MarkDead(w) ==
  /\ pc[w] = "fail" /\ ~Retry(w)
  /\ ~Raises(level, "WARNING")
  /\ event' = [event EXCEPT ![cur[w]] =
       [@ EXCEPT !.status = "dead_lettered",
                 !.attempts = copy[w][cur[w]] + 1]]
  /\ NextEvent(w)
  /\ UNCHANGED <<wants, acked, done, level, faults>>

(* mark_failed raises at its log call, before _update. *)
MarkRaises(w) ==
  /\ pc[w] = "fail"
  /\ Raises(level, IF Retry(w) THEN "INFO" ELSE "WARNING")
  /\ Leave(w)
  /\ UNCHANGED <<event, wants, acked, done, level, faults>>

(* A failed update of mark_succeeded runs into the `except` of the         *)
(* handler, whether it was not applied or only its answer was lost: then   *)
(* mark_failed writes over a row that already says "succeeded".            *)
SucceededWriteFails(w) ==
  /\ pc[w] = "ok" /\ faults < MaxFaults
  /\ Goto(w, "fail")
  /\ faults' = faults + 1
  /\ UNCHANGED <<event, wants, acked, copy, cur, done, level>>

SucceededUnanswered(w) ==
  /\ pc[w] = "ok" /\ faults < MaxFaults
  /\ event' = [event EXCEPT ![cur[w]] =
                 [@ EXCEPT !.status = "succeeded", !.age = 0]]
  /\ Goto(w, "fail")
  /\ faults' = faults + 1
  /\ UNCHANGED <<wants, acked, copy, cur, done, level>>

(* A crash, or an update of mark_failed that raises (one that is applied   *)
(* but not answered is the mark and then a crash).                         *)
Crash(w) ==
  /\ pc[w] # "idle" /\ faults < MaxFaults
  /\ Leave(w)
  /\ faults' = faults + 1
  /\ UNCHANGED <<event, wants, acked, done, level>>

WorkerStep(w) ==
  \/ \E S \in SUBSET Events : Claim(w, S)
  \/ \E e \in Events : StartEvent(w, e)
  \/ HandlerSucceeds(w) \/ HandlerFails(w)
  \/ MarkSucceeded(w) \/ MarkRetry(w) \/ MarkDead(w) \/ MarkRaises(w)

Next ==
  \/ Tick
  \/ \E p \in Receivers :
       \/ \E k \in Keys : Receive(p, k) \/ DuplicateIgnored(p, k)
                          \/ CheckFails(p, k)
       \/ \E e \in Events : Insert(p, e) \/ InsertUnanswered(p, e)
       \/ InsertFails(p)
  \/ \E w \in Workers : \/ WorkerStep(w) \/ Crash(w)
                        \/ SucceededWriteFails(w) \/ SucceededUnanswered(w)

Spec == Init /\ [][Next]_vars

(* Workers loop forever and their handlers end; time never stops. *)
FairSpec ==
  Spec /\ WF_vars(Tick) /\ \A w \in Workers : WF_vars(WorkerStep(w))

-----------------------------------------------------------------------------
TypeOK ==
  /\ event \in [Events -> EventRow \cup {None}]
  /\ wants \in [Receivers -> Keys \cup {None}]
  /\ acked \subseteq Keys
  /\ pc \in [Workers -> {"idle", "run", "handle", "ok", "fail"}]
  /\ copy \in [Workers -> [Events -> 0..MaxRetries - 1 \cup {None}]]
  /\ cur \in [Workers -> Events \cup {None}]
  /\ done \in [Keys -> Nat]
  /\ level \in Levels
  /\ faults \in 0..MaxFaults

(* claim_webhook_events: overlapping worker ticks never hold the same row  *)
(* (schema.sql), for any timing, since nothing takes a claim over.         *)
ClaimedOnce ==
  \A v, w \in Workers : \A e \in Events :
    copy[v][e] # None /\ copy[w][e] # None => v = w

(* What the store knows of a claimed row is still so when it is written    *)
(* back, so the whole-row updates overwrite nothing of anybody else: the   *)
(* one write they can undo is the same worker's own "succeeded", when that *)
(* was applied without an answer.                                          *)
CopiesCurrent ==
  \A w \in Workers : \A e \in Events :
    copy[w][e] # None =>
      /\ event[e] # None /\ event[e].attempts = copy[w][e]
      /\ \/ event[e].status = "processing"
         \/ event[e].status = "succeeded" /\ pc[w] = "fail" /\ cur[w] = e

Rows(k) == {e \in Events : event[e] # None /\ event[e].key = k}

(* What is true of "provider retries never double-process" (README): the   *)
(* handler of a key ends well once per row of the key at most, through     *)
(* claims, retries and crashes, and once more for each fault: a failed or  *)
(* unanswered write of that end opens the row again.                       *)
DoneOncePerRow == \A k \in Keys : done[k] <= Cardinality(Rows(k)) + faults

(* "Persists every event" (README): a provider is told 2xx only for a key  *)
(* that has a row, whichever of check, insert or log call failed before.   *)
AckedIsPersisted ==
  \A k \in acked : \E e \in Events : event[e] # None /\ event[e].key = k

(* An event is settled by the worker that has it, and a finished event is  *)
(* opened again only by the worker whose "succeeded" was applied without   *)
(* an answer.                                                              *)
QueueState == [e \in Events |->
  IF event[e] = None THEN "absent"
  ELSE CASE event[e].status = "pending" -> "open"
         [] event[e].status \in Terminal -> "done"
         [] OTHER -> IF \E w \in Workers : copy[w][e] # None
                     THEN CHOOSE w \in Workers : copy[w][e] # None
                     ELSE "lost"]
Unanswered == {p \in Workers \X Events :
  /\ copy[p[1]][p[2]] # None /\ event[p[2]] # None
  /\ event[p[2]].status \in Terminal}
Queue == INSTANCE WorkQueue
           WITH Items <- Events, state <- QueueState, doubt <- Unanswered
ImplementsQueue == Queue!Spec

(* "provider retries never double-process" (README). *)
NeverDoubleProcessed == \A k \in Keys : done[k] <= 1

(* While no worker dies and no call fails, every event gets its outcome    *)
(* once the log call of the dead-letter path is disabled.  (A claim is     *)
(* never taken over: one crash, or that log call, strands the event.)      *)
EventsSettle ==
  \A e \in Events :
    event[e] # None /\ ~Raises(level, "WARNING") ~>
      \/ faults > 0
      \/ event[e] # None /\ event[e].status \in Terminal
=============================================================================
