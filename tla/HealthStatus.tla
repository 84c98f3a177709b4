---------------------------- MODULE HealthStatus ----------------------------
(***************************************************************************)
(* What health_service makes of its dependencies: the built-in checks, the *)
(* overall status and the HTTP status of GET /health/deep.  A dependency   *)
(* is how it behaves when it is asked: it answers after some milliseconds, *)
(* raises, or does not answer within CHECK_TIMEOUT_SECONDS ("hangs").      *)
(***************************************************************************)
EXTENDS Naturals, FiniteSets

Behaviour == {"answers", "raises", "hangs"}
Dependency ==
  [kind: {"redis", "supabase"}, does: Behaviour, ms: Nat,
   degradedAboveMs: Nat]
  \cup [kind: {"cache"}, does: Behaviour, ms: Nat, degradedAboveMs: Nat,
        takesTtl: BOOLEAN, returnsTheValue: BOOLEAN]

Severity == [healthy |-> 0, degraded |-> 1, unhealthy |-> 2]

WorstOf(statuses) ==
  CHOOSE s \in statuses \cup {"healthy"} :
    \A other \in statuses : Severity[other] <= Severity[s]

ByLatency(ms, degradedAboveMs) ==
  IF ms > degradedAboveMs THEN "degraded" ELSE "healthy"

\* The checks of Redis (PING) and of Supabase (a query of one row).
PingCheck(dependency) ==
  IF dependency.does = "raises" THEN "unhealthy"
  ELSE ByLatency(dependency.ms, dependency.degradedAboveMs)

\* A round trip through a cache.  It passes set its time to live as ttl,
\* which a backend may not have, and it awaits what set returns.
CacheCheck(dependency) ==
  IF dependency.does = "raises" \/ ~dependency.takesTtl THEN "unhealthy"
  ELSE IF ~dependency.returnsTheValue THEN "unhealthy"
  ELSE ByLatency(dependency.ms, dependency.degradedAboveMs)

\* _run_one: no check takes longer than its time, none gets an exception out.
RunOne(dependency) ==
  IF dependency.does = "hangs" THEN "unhealthy"
  ELSE IF dependency.kind = "cache" THEN CacheCheck(dependency)
  ELSE PingCheck(dependency)

Overall(dependencies) == WorstOf({RunOne(d) : d \in dependencies})

DeepHealthCode(dependencies, degradedReturns503) ==
  IF \/ Overall(dependencies) = "unhealthy"
     \/ Overall(dependencies) = "degraded" /\ degradedReturns503
    THEN 503
    ELSE 200

(***************************************************************************)
(* The reference: an instance is taken out of rotation exactly when one of *)
(* its dependencies is of no use to it, or is slow and that is configured  *)
(* to count; and a dependency more never brings it back.                   *)
(***************************************************************************)

Useless(d) ==
  \/ d.does # "answers"
  \/ d.kind = "cache" /\ ~(d.takesTtl /\ d.returnsTheValue)

Slow(d) == d.ms > d.degradedAboveMs

OutOfRotation(dependencies, strict) ==
  LET code == DeepHealthCode(dependencies, strict) IN
  /\ code = 503 <=>
       \E d \in dependencies : Useless(d) \/ (strict /\ Slow(d))
  /\ \A d \in dependencies :
       DeepHealthCode(dependencies \ {d}, strict) <= code
=============================================================================
