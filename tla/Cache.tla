------------------------------- MODULE Cache -------------------------------
(***************************************************************************)
(* CacheService of caching_service: the results of one decorated function, *)
(* in the memory of one process (whose other processes have caches of      *)
(* their own) or in Redis.  wrapper looks the key up, calls the function   *)
(* and stores the result in three steps; the application changes what the  *)
(* function reads and then invalidates.  On Redis delete_prefix is a SCAN  *)
(* loop of single deletes.                                                 *)
(***************************************************************************)
EXTENDS Naturals, FiniteSets

CONSTANTS Keys,         \* cache keys of the function
          Workers,      \* threads or processes that call it
          Purges,       \* calls of an invalidating method
          MaxVersion,   \* bound: changes of what the function reads
          None

VARIABLES entry,      \* per key: None or the entry of the store
          source,     \* per key: version of what the function reads
          worker,     \* per worker: where its call of the function is
          purge,      \* per invalidation: where it is
          shared,     \* the configured backend is Redis; it never changes
          begun,      \* history: per key, invalidations begun
          ended,      \* history: per key, the last one that has ended
          seen        \* history: per key, source when that one began

cacheVars == <<entry, source, worker, purge, shared, begun, ended, seen>>

Init ==
  /\ entry = [k \in Keys |-> None]
  /\ source = [k \in Keys |-> 0]
  /\ worker = [w \in Workers |-> [pc |-> "idle", key |-> None, ver |-> 0, born |-> 0]]
  /\ purge = [p \in Purges |-> [pc |-> "new", todo |-> {},
                                number |-> [k \in Keys |-> 0],
                                seen |-> [k \in Keys |-> 0]]]
  /\ shared \in BOOLEAN
  /\ begun = [k \in Keys |-> 0]
  /\ ended = [k \in Keys |-> 0]
  /\ seen = [k \in Keys |-> 0]

\* The application changes what the function would return.
Change(k) ==
  /\ source[k] < MaxVersion
  /\ source' = [source EXCEPT ![k] = @ + 1]
  /\ UNCHANGED <<entry, worker, purge, shared, begun, ended, seen>>

(***************************************************************************)
(* wrapper.                                                                *)
(***************************************************************************)

\* An entry is returned, and the call is over; without one the function runs.
Get(w, k) ==
  /\ worker[w].pc = "idle"
  /\ entry[k] = None
  /\ worker' = [worker EXCEPT ![w].pc = "call", ![w].key = k]
  /\ UNCHANGED <<entry, source, purge, shared, begun, ended, seen>>

\* The function reads its source and returns, or raises.
Compute(w) ==
  LET k == worker[w].key IN
  /\ worker[w].pc = "call"
  /\ worker' \in {[worker EXCEPT ![w].pc = "set", ![w].ver = source[k],
                                 ![w].born = begun[k]],
                  [worker EXCEPT ![w].pc = "idle", ![w].key = None]}
  /\ UNCHANGED <<entry, source, purge, shared, begun, ended, seen>>

Set(w) ==
  LET k == worker[w].key IN
  /\ worker[w].pc = "set"
  /\ entry' = [entry EXCEPT ![k] = [ver |-> worker[w].ver,
                                    born |-> worker[w].born, at |-> begun[k]]]
  /\ worker' = [worker EXCEPT ![w] = [pc |-> "idle", key |-> None,
                                      ver |-> 0, born |-> 0]]
  /\ UNCHANGED <<source, purge, shared, begun, ended, seen>>

\* The time to live of an entry is over.
Expire(k) ==
  /\ entry[k] # None
  /\ entry' = [entry EXCEPT ![k] = None]
  /\ UNCHANGED <<source, worker, purge, shared, begun, ended, seen>>

(***************************************************************************)
(* Invalidation.                                                           *)
(***************************************************************************)

\* invalidate_function deletes one key; invalidate_all_for_function and clear
\* delete all of them: in one step in memory, and clear (FLUSHDB) on Redis.
Delete(p, ks) ==
  /\ purge[p].pc = "new"
  /\ purge' = [purge EXCEPT ![p].pc = "done"]
  /\ entry' = [k \in Keys |-> IF k \in ks THEN None ELSE entry[k]]
  /\ begun' = [k \in Keys |-> IF k \in ks THEN begun[k] + 1 ELSE begun[k]]
  /\ ended' = [k \in Keys |-> IF k \in ks THEN begun'[k] ELSE ended[k]]
  /\ seen' = [k \in Keys |-> IF k \in ks THEN source[k] ELSE seen[k]]
  /\ UNCHANGED <<source, worker, shared>>

\* Slip: only the first page of the SCAN is read.
FirstPage == {{k} : k \in Keys} \cup {{}}

\* What SCAN must return: the keys that are there from its first to its last
\* page.  Of the others it may return some.
Scanned == {{k \in Keys : entry[k] # None}}

\* delete_prefix on Redis.
ScanBegin(p) ==
  /\ shared
  /\ purge[p].pc = "new"
  /\ begun' = [k \in Keys |-> begun[k] + 1]
  /\ \E todo \in Scanned :
       purge' = [purge EXCEPT ![p] = [pc |-> "scan", todo |-> todo,
                                      number |-> begun', seen |-> source]]
  /\ UNCHANGED <<entry, source, worker, shared, ended, seen>>

ScanDelete(p, k) ==
  /\ purge[p].pc = "scan"
  /\ k \in purge[p].todo \/ entry[k] # None
  /\ entry' = [entry EXCEPT ![k] = None]
  /\ purge' = [purge EXCEPT ![p].todo = @ \ {k}]
  /\ UNCHANGED <<source, worker, shared, begun, ended, seen>>

ScanEnd(p) ==
  LET later(k) == purge[p].number[k] > ended[k] IN
  /\ purge[p].pc = "scan"
  /\ purge[p].todo = {}
  /\ purge' = [purge EXCEPT ![p].pc = "done"]
  /\ ended' = [k \in Keys |-> IF later(k) THEN purge[p].number[k] ELSE ended[k]]
  /\ seen' = [k \in Keys |-> IF later(k) THEN purge[p].seen[k] ELSE seen[k]]
  /\ UNCHANGED <<entry, source, worker, shared, begun>>

Next ==
  \/ \E k \in Keys : Change(k) \/ Expire(k)
  \/ \E w \in Workers : (\E k \in Keys : Get(w, k)) \/ Compute(w) \/ Set(w)
  \/ \E p \in Purges :
       \/ \E ks \in {{k} : k \in Keys} \cup {Keys} : Delete(p, ks)
       \/ ScanBegin(p)
       \/ \E k \in Keys : ScanDelete(p, k)
       \/ ScanEnd(p)

(***************************************************************************)
(* An invalidation that has ended holds: an entry older than what the      *)
(* source was when that invalidation began comes from a call of the        *)
(* function that overlapped it, computed before it began and stored after. *)
(***************************************************************************)
StaleOnlyByOverlap ==
  \A k \in Keys :
    entry[k] # None /\ entry[k].ver < seen[k] =>
      entry[k].born < ended[k] /\ ended[k] <= entry[k].at
=============================================================================
