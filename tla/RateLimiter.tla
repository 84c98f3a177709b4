---------------------------- MODULE RateLimiter ----------------------------
(***************************************************************************)
(* RateLimitService of ratelimit_service: one bucket of tokens, shared by  *)
(* the threads of a process (MemoryBackend, under its lock) or by all      *)
(* processes (RedisBackend, one Lua script).  A caller reads the clock and *)
(* then waits its turn, so the `now' that consume is given may be older    *)
(* than the bucket's last_refill.  Buckets of different keys do not touch. *)
(*                                                                         *)
(* Tokens are counted in units of 1/Window: a token is Window units and    *)
(* one tick refills Capacity units.                                        *)
(***************************************************************************)
EXTENDS Integers, Sequences

CONSTANTS Callers,
          Capacity,    \* tokens in a full bucket
          Window,      \* refill_window_seconds
          MaxClock,    \* bound: ticks
          MaxChecks    \* bound: calls of check

VARIABLES bucket,      \* Empty or the tokens and last_refill of the key
          clock,       \* time.time()
          check,       \* per caller: where it is, its now and its cost
          calls,       \* how many calls of check there have been
          onRedis,     \* the configured backend; it never changes
          touched,     \* when Redis last wrote the key
          granted,     \* history: since the last reset, the grants
          lastNow,     \* history: the now of the last consume
          rewound      \* history: by how much last_refill was moved back

rateVars == <<bucket, clock, check, calls, onRedis, touched, granted, lastNow, rewound>>

Full == Capacity * Window
Missing == [tokens |-> Full, last |-> -1]

Init ==
  /\ bucket = Missing
  /\ clock = 0
  /\ check = [c \in Callers |-> [pc |-> "idle", now |-> 0, cost |-> 0]]
  /\ calls = 0
  /\ onRedis \in BOOLEAN
  /\ touched = 0
  /\ granted = <<>>
  /\ lastNow = 0
  /\ rewound = 0

\* A call takes less than a window from its time.time() to its consume.
Tick ==
  /\ clock < MaxClock
  /\ \A c \in Callers : check[c].pc = "called" => clock - check[c].now < Window - 1
  /\ clock' = clock + 1
  /\ UNCHANGED <<bucket, check, calls, onRedis, touched, granted, lastNow, rewound>>

\* check, up to the arguments of consume.
Check(c, cost) ==
  /\ check[c].pc # "called"
  /\ calls < MaxChecks
  /\ calls' = calls + 1
  /\ check' = [check EXCEPT ![c] = [pc |-> "called", now |-> clock, cost |-> cost]]
  /\ UNCHANGED <<bucket, clock, onRedis, touched, granted, lastNow, rewound>>

LessOf(a, b) == IF a < b THEN a ELSE b
AtLeastZero(a) == IF a < 0 THEN 0 ELSE a

\* Slip: what has been refilled is not capped.
RefilledUncapped(now) ==
  IF bucket = Missing THEN Full
  ELSE bucket.tokens + AtLeastZero(now - bucket.last) * Capacity

\* A missing bucket is a full one.
Refilled(now) ==
  IF bucket = Missing THEN Full
  ELSE LessOf(Full, bucket.tokens + AtLeastZero(now - bucket.last) * Capacity)

\* What the grants cost together.
Total == IF granted = <<>> THEN 0 ELSE granted[Len(granted)].total

\* consume of either backend: both branches write the bucket, and last_refill
\* becomes the caller's now even if that is the older one.
Consume(c) ==
  LET now == check[c].now
      cost == check[c].cost
      tokens == Refilled(now)
      allowed == tokens >= cost * Window
      back == rewound + AtLeastZero(lastNow - now) IN
  /\ check[c].pc = "called"
  /\ bucket' = [tokens |-> IF allowed THEN tokens - cost * Window ELSE tokens,
                last |-> now]
  /\ check' = [check EXCEPT ![c] =
                 [pc |-> IF allowed THEN "allowed" ELSE "exceeded",
                  now |-> 0, cost |-> 0]]
  /\ touched' = clock
  /\ lastNow' = now
  /\ rewound' = back
  /\ granted' = IF allowed
                  THEN Append(granted, [at |-> now + back, cost |-> cost,
                                        total |-> Total + cost])
                  ELSE granted
  /\ UNCHANGED <<clock, calls, onRedis>>

\* Redis drops the key when nobody has written it for two windows.
Expire ==
  /\ onRedis
  /\ bucket # Missing
  /\ clock >= touched + 2 * Window
  /\ bucket' = Missing
  /\ UNCHANGED <<clock, check, calls, onRedis, touched, granted, lastNow, rewound>>

\* reset and clear.
Reset ==
  /\ bucket # Missing
  /\ bucket' = Missing
  /\ granted' = <<>>
  /\ UNCHANGED <<clock, check, calls, onRedis, touched, lastNow, rewound>>

Next ==
  \/ Tick
  \/ \E c \in Callers : (\E cost \in 1..Capacity : Check(c, cost)) \/ Consume(c)
  \/ Expire
  \/ Reset

(***************************************************************************)
(* Between any two grants the bucket has given away no more than a full    *)
(* bucket and what was refilled in the meantime; late callers, who move    *)
(* last_refill back, add at most what is refilled in the time they rewind. *)
(***************************************************************************)
CostOf(i, j) == granted[j].total - granted[i].total + granted[i].cost

RateBound ==
  \A i, j \in DOMAIN granted :
    i <= j => CostOf(i, j) * Window
                <= Full + (granted[j].at - granted[i].at) * Capacity
=============================================================================
