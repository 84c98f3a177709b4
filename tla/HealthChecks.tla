---------------------------- MODULE HealthChecks ----------------------------
(***************************************************************************)
(* HealthCheckRegistry of health_service and GET /health/deep: coroutines  *)
(* of one event loop that call run_all.  A call runs every registered      *)
(* check, all at once and each for a limited time, and stores the answer   *)
(* for the calls of the next seconds, together with the time it began.  A  *)
(* result is the time it was collected, its status makes no difference.    *)
(***************************************************************************)
EXTENDS Naturals

CONSTANTS Checks,         \* names of checks
          Polls,          \* calls of run_all
          CacheSeconds,   \* DEEP_CHECK_CACHE_SECONDS
          CheckTimeout,   \* CHECK_TIMEOUT_SECONDS
          MaxTime,        \* bound: ticks
          None

VARIABLES time,         \* time.monotonic()
          checks,       \* _checks
          cachedAt,     \* _cached_at
          cached,       \* _cached_response: None or its results
          poll,         \* per call of run_all: where it is and its results
          since         \* history: per check, when it was registered

healthVars == <<time, checks, cachedAt, cached, poll, since>>

Init ==
  /\ time = 0
  /\ checks = {}
  /\ cachedAt = 0
  /\ cached = None
  /\ poll = [p \in Polls |-> [pc |-> "new", now |-> 0, results |-> None]]
  /\ since = [k \in Checks |-> 0]

\* wait_for ends a check after CheckTimeout.
Tick ==
  /\ time < MaxTime
  /\ \A p \in Polls :
       poll[p].pc = "gather" => time < poll[p].now + CheckTimeout
  /\ time' = time + 1
  /\ UNCHANGED <<checks, cachedAt, cached, poll, since>>

\* register, also of a name that is already there.
Register(k) ==
  /\ checks' = checks \cup {k}
  /\ since' = [since EXCEPT ![k] = IF k \in checks THEN @ ELSE time]
  /\ UNCHANGED <<time, cachedAt, cached, poll>>

Unregister(k) ==
  /\ k \in checks
  /\ checks' = checks \ {k}
  /\ UNCHANGED <<time, cachedAt, cached, poll, since>>

(***************************************************************************)
(* run_all.                                                                *)
(***************************************************************************)

IsCached == CacheSeconds > 0 /\ cached # None /\ time < cachedAt + CacheSeconds

\* The stored answer is good enough.
AnswerCached(p) ==
  /\ poll[p].pc = "new"
  /\ IsCached
  /\ poll' = [poll EXCEPT ![p] = [pc |-> "done", now |-> time, results |-> cached]]
  /\ UNCHANGED <<time, checks, cachedAt, cached, since>>

\* gather: the checks that are registered now.
Gather(p, useCache) ==
  /\ poll[p].pc = "new"
  /\ ~useCache \/ ~IsCached
  /\ poll' = [poll EXCEPT ![p] = [pc |-> "gather", now |-> time,
                                  results |-> [k \in checks |-> None]]]
  /\ UNCHANGED <<time, checks, cachedAt, cached, since>>

\* _run_one: the check returns a status, raises or is out of time; whichever,
\* it has a result now.
RunOne(p, k) ==
  /\ poll[p].pc = "gather"
  /\ k \in DOMAIN poll[p].results
  /\ poll[p].results[k] = None
  /\ poll' = [poll EXCEPT ![p].results[k] = time]
  /\ UNCHANGED <<time, checks, cachedAt, cached, since>>

Gathered(p) ==
  /\ poll[p].pc = "gather"
  /\ \A k \in DOMAIN poll[p].results : poll[p].results[k] # None

\* Slip: the answer counts as collected when it is stored.
AnswerStampedLate(p) ==
  /\ Gathered(p)
  /\ cached' = poll[p].results
  /\ cachedAt' = time
  /\ poll' = [poll EXCEPT ![p].pc = "done"]
  /\ UNCHANGED <<time, checks, since>>

\* Calls that overlap store their answers in the order they end, each with
\* the time it began.
Answer(p) ==
  /\ Gathered(p)
  /\ cached' = poll[p].results
  /\ cachedAt' = poll[p].now
  /\ poll' = [poll EXCEPT ![p].pc = "done"]
  /\ UNCHANGED <<time, checks, since>>

Next ==
  \/ Tick
  \/ \E k \in Checks : Register(k) \/ Unregister(k)
  \/ \E p \in Polls :
       \/ AnswerCached(p)
       \/ \E useCache \in BOOLEAN : Gather(p, useCache)
       \/ \E k \in Checks : RunOne(p, k)
       \/ Answer(p)

(***************************************************************************)
(* Properties.                                                             *)
(***************************************************************************)

\* An answer holds no result that was collected CacheSeconds or more before
\* it was asked for, and no stored answer that could still be given is without
\* a check registered for CacheSeconds or more, however long checks take and
\* however calls overlap and registrations come in between.
AnswersFresh ==
  /\ \A p \in Polls :
       poll[p].pc = "done" =>
         \A k \in DOMAIN poll[p].results :
           poll[p].results[k] + CacheSeconds > poll[p].now
  /\ IsCached =>
       \A k \in checks : since[k] + CacheSeconds <= time => k \in DOMAIN cached
=============================================================================
