------------------------------ MODULE Licensing ------------------------------
(* licensing_service: LicensingStore and validate_license, called by       *)
(* several processes of the host against the tables license_keys,          *)
(* license_key_pool and trial_usage of one product.                        *)
(*                                                                         *)
(* Every statement is a transaction of its own.  claim_pool_key and        *)
(* increment_trial_runs are single UPDATEs; between them, the insert of    *)
(* the license and the reads of a check, anything can happen.  Generated   *)
(* keys are drawn from Keys and may collide, in either table.              *)
(*                                                                         *)
(* The refusals of a check that only look at the license (product,         *)
(* machine, status) are one guard, Usable: none changes state.  The store  *)
(* is taken to have the get_trial_usage and start_trial that               *)
(* validate_license and LicensingService call and LicensingStore lacks.    *)
EXTENDS LogLevels, FiniteSets

CONSTANTS
  Keys,         \* key strings
  Issuers,      \* concurrent calls of issue_license
  Checkers,     \* concurrent calls of validate_license with consume_run
  None,
  Levels,       \* levels the host may set the logger to
  MaxAttempts,  \* max_attempts of issue_license
  MaxRuns,      \* max_runs of a trial
  MaxFaults     \* bound: Supabase calls that fail or whose answer is lost

Source == {"pool", "on_demand"}
License == [status : {"active", "revoked"}, source : Source]

ASSUME LicensingAssumption ==
  /\ IsFiniteSet(Keys) /\ IsFiniteSet(Checkers) /\ Checkers # {}
  /\ None \notin Keys \cup License \cup Nat
  /\ Levels \subseteq DOMAIN Rank
  /\ MaxAttempts \in Nat \ {0} /\ MaxRuns \in Nat /\ MaxFaults \in Nat

VARIABLES
  pool,     \* license_key_pool: no row, unassigned, assigned
  license,  \* license_keys
  runs,     \* run_count of a license's trial_usage row, or None
  over,     \* trials whose days are over
  issued,   \* keys that issue_license has returned
  pc,       \* where each call of issue_license is
  source,   \* its source
  claimed,  \* the pool key it has claimed
  tries,    \* inserts it has tried
  check,    \* the license a check is about, once it has found it usable
  seen,     \* the run_count it has read
  started,  \* runs of a trial that were allowed to start
  level,
  faults

vars == <<pool, license, runs, over, issued, pc, source, claimed, tries, check,
          seen, started, level, faults>>
trials == <<runs, over, check, seen, started>>
calls == <<pc, source, claimed, tries, issued>>

Init ==
  /\ pool = [k \in Keys |-> "none"]
  /\ license = [k \in Keys |-> None]
  /\ runs = [k \in Keys |-> None]
  /\ over = {} /\ issued = {}
  /\ pc = [i \in Issuers |-> "idle"]
  /\ source = [i \in Issuers |-> None]
  /\ claimed = [i \in Issuers |-> None]
  /\ tries = [i \in Issuers |-> 0]
  /\ check = [c \in Checkers |-> None]
  /\ seen = [c \in Checkers |-> None]
  /\ started = [k \in Keys |-> 0]
  /\ level \in Levels
  /\ faults = 0

Fault == faults < MaxFaults /\ faults' = faults + 1

(* issue_license returns or raises. *)
Finish(i) ==
  /\ pc' = [pc EXCEPT ![i] = "idle"]
  /\ source' = [source EXCEPT ![i] = None]
  /\ claimed' = [claimed EXCEPT ![i] = None]
  /\ tries' = [tries EXCEPT ![i] = 0]

-----------------------------------------------------------------------------
(* add_to_pool, one insert; a duplicate changes nothing. *)
AddToPool(k) ==
  /\ pool[k] = "none"
  /\ pool' = [pool EXCEPT ![k] = "free"]
  /\ UNCHANGED <<license, trials, calls, level, faults>>

(* issue_license *)
Issue(i, s) ==
  /\ pc[i] = "idle"
  /\ pc' = [pc EXCEPT ![i] = IF s = "pool" THEN "claim" ELSE "insert"]
  /\ source' = [source EXCEPT ![i] = s]
  /\ UNCHANGED <<claimed, tries, issued, pool, license, trials, level, faults>>

(* _pull_from_pool: claim_pool_key. *)
ClaimTwoSteps(i) ==                     \* slip: a SELECT, then an UPDATE
  /\ pc[i] = "claim"
  /\ \E k \in Keys :
       /\ pool[k] = "free" \/ \E j \in Issuers : claimed[j] = k
       /\ pool' = [pool EXCEPT ![k] = "assigned"]
       /\ claimed' = [claimed EXCEPT ![i] = k]
  /\ pc' = [pc EXCEPT ![i] = "insert"]
  /\ UNCHANGED <<source, tries, issued, license, trials, level, faults>>
Claim(i) ==
  /\ pc[i] = "claim"
  /\ \E k \in Keys :
       /\ pool[k] = "free"
       /\ pool' = [pool EXCEPT ![k] = "assigned"]
       /\ claimed' = [claimed EXCEPT ![i] = k]
  /\ pc' = [pc EXCEPT ![i] = "insert"]
  /\ UNCHANGED <<source, tries, issued, license, trials, level, faults>>

(* PoolEmptyError *)
PoolEmpty(i) ==
  /\ pc[i] = "claim" /\ \A k \in Keys : pool[k] # "free"
  /\ Finish(i)
  /\ UNCHANGED <<pool, license, issued, trials, level, faults>>

(* The claim fails, or is made and its answer is lost. *)
ClaimFails(i) ==
  /\ pc[i] = "claim" /\ Fault
  /\ \/ pool' = pool
     \/ \E k \in Keys : pool[k] = "free"
                        /\ pool' = [pool EXCEPT ![k] = "assigned"]
  /\ Finish(i)
  /\ UNCHANGED <<license, issued, trials, level>>

KeysOf(i) == IF source[i] = "pool" THEN {claimed[i]} ELSE Keys

Inserted(i, k) ==
  license' = [license EXCEPT ![k] =
                [status |-> "active", source |-> source[i]]]

(* With INFO enabled the log call after the insert raises, into the except *)
(* branch, whose own log call raises to the caller.                        *)
InsertWarns(i) ==                       \* slip: the log call is a warning
  /\ pc[i] = "insert"
  /\ \E k \in KeysOf(i) :
       /\ license[k] = None
       /\ Inserted(i, k)
       /\ issued' = IF Raises(level, "WARNING") THEN issued
                    ELSE issued \cup {k}
  /\ Finish(i)
  /\ UNCHANGED <<pool, trials, level, faults>>
Insert(i) ==
  /\ pc[i] = "insert"
  /\ \E k \in KeysOf(i) :
       /\ license[k] = None
       /\ Inserted(i, k)
       /\ issued' = IF Raises(level, "INFO") THEN issued ELSE issued \cup {k}
  /\ Finish(i)
  /\ UNCHANGED <<pool, trials, level, faults>>

(* The except branch: a pool issuance gives up, and so does any whose      *)
(* warning raises; the others try again with a new key.                    *)
Caught(i) ==
  IF \/ source[i] = "pool" \/ Raises(level, "WARNING")
     \/ tries[i] + 1 = MaxAttempts
  THEN Finish(i)
  ELSE /\ tries' = [tries EXCEPT ![i] = @ + 1]
       /\ UNCHANGED <<pc, source, claimed>>

InsertCollides(i) ==
  /\ pc[i] = "insert" /\ \E k \in KeysOf(i) : license[k] # None
  /\ Caught(i)
  /\ UNCHANGED <<pool, license, issued, trials, level, faults>>

InsertFails(i) ==
  /\ pc[i] = "insert" /\ Fault
  /\ \/ license' = license
     \/ \E k \in KeysOf(i) : license[k] = None /\ Inserted(i, k)
  /\ Caught(i)
  /\ UNCHANGED <<pool, issued, trials, level>>

(* revoke writes status and revoked_at of one id. *)
Revoke(k) ==
  /\ license[k] # None
  /\ license' = [license EXCEPT ![k].status = "revoked"]
  /\ UNCHANGED <<pool, calls, trials, level, faults>>

-----------------------------------------------------------------------------
(* start_trial: one row per license. *)
StartTrial(k) ==
  /\ license[k] # None /\ runs[k] = None
  /\ runs' = [runs EXCEPT ![k] = 0]
  /\ UNCHANGED <<pool, license, calls, over, check, seen, started, level,
                 faults>>

DaysPass(k) ==
  /\ runs[k] # None
  /\ over' = over \cup {k}
  /\ UNCHANGED <<pool, license, calls, runs, check, seen, started, level,
                 faults>>

-----------------------------------------------------------------------------
(* validate_license *)

Usable(k) == license[k] # None /\ license[k].status = "active"

(* get_license; a license that is not usable is refused. *)
CheckLicense(c, k) ==
  /\ check[c] = None /\ Usable(k)
  /\ check' = [check EXCEPT ![c] = k]
  /\ UNCHANGED <<pool, license, calls, runs, over, seen, started, level,
                 faults>>

EndCheck(c) ==
  /\ check' = [check EXCEPT ![c] = None]
  /\ seen' = [seen EXCEPT ![c] = None]

Exhausted(k) == runs[k] # None /\ (k \in over \/ runs[k] >= MaxRuns)

(* get_trial_usage; a trial that is not over goes on to be counted. *)
CheckTrial(c) ==
  /\ check[c] # None /\ seen[c] = None
  /\ runs[check[c]] # None /\ ~Exhausted(check[c])
  /\ seen' = [seen EXCEPT ![c] = runs[check[c]]]
  /\ UNCHANGED <<pool, license, calls, runs, over, check, started, level,
                 faults>>

(* No trial at all is VALID, an exhausted one is refused. *)
CheckEnds(c) ==
  /\ check[c] # None /\ seen[c] = None
  /\ runs[check[c]] = None \/ Exhausted(check[c])
  /\ EndCheck(c)
  /\ UNCHANGED <<pool, license, calls, runs, over, started, level, faults>>

(* increment_trial_runs; if its answer is lost the check raises. *)
CountReadRun(c, lost) ==                \* slip: trial.run_count + 1 is written
  /\ seen[c] # None
  /\ runs' = [runs EXCEPT ![check[c]] = seen[c] + 1]
  /\ IF lost THEN Fault /\ started' = started
             ELSE faults' = faults
                  /\ started' = [started EXCEPT ![check[c]] = @ + 1]
  /\ EndCheck(c)
  /\ UNCHANGED <<pool, license, calls, over, level>>
CountRun(c, lost) ==
  /\ seen[c] # None
  /\ runs' = [runs EXCEPT ![check[c]] = @ + 1]
  /\ IF lost THEN Fault /\ started' = started
             ELSE faults' = faults
                  /\ started' = [started EXCEPT ![check[c]] = @ + 1]
  /\ EndCheck(c)
  /\ UNCHANGED <<pool, license, calls, over, level>>

CheckFails(c) ==
  /\ check[c] # None /\ Fault
  /\ EndCheck(c)
  /\ UNCHANGED <<pool, license, calls, runs, over, started, level>>

-----------------------------------------------------------------------------
Next ==
  \/ \E k \in Keys : AddToPool(k) \/ Revoke(k) \/ StartTrial(k) \/ DaysPass(k)
  \/ \E i \in Issuers :
       \/ \E s \in Source : Issue(i, s)
       \/ Claim(i) \/ PoolEmpty(i) \/ ClaimFails(i)
       \/ Insert(i) \/ InsertCollides(i) \/ InsertFails(i)
  \/ \E c \in Checkers :
       \/ \E k \in Keys : CheckLicense(c, k)
       \/ CheckTrial(c) \/ CheckEnds(c) \/ CheckFails(c)
       \/ \E lost \in BOOLEAN : CountRun(c, lost)

Spec == Init /\ [][Next]_vars

-----------------------------------------------------------------------------
TypeOK ==
  /\ pool \in [Keys -> {"none", "free", "assigned"}]
  /\ license \in [Keys -> License \cup {None}]
  /\ runs \in [Keys -> Nat \cup {None}]
  /\ over \subseteq Keys /\ issued \subseteq Keys
  /\ pc \in [Issuers -> {"idle", "claim", "insert"}]
  /\ source \in [Issuers -> Source \cup {None}]
  /\ claimed \in [Issuers -> Keys \cup {None}]
  /\ tries \in [Issuers -> 0..MaxAttempts - 1]
  /\ check \in [Checkers -> Keys \cup {None}]
  /\ seen \in [Checkers -> Nat \cup {None}]
  /\ started \in [Keys -> Nat]
  /\ level \in Levels
  /\ faults \in 0..MaxFaults

Claims(k) == {i \in Issuers : claimed[i] = k}

(* "two simultaneous issuances can never grab the same pooled key"         *)
(* (README): a pool key is with one call at a time, and a key that was     *)
(* issued from the pool is with none and is never given out again.         *)
PoolKeyOnce ==
  \A k \in Keys :
    /\ \A i, j \in Claims(k) : i = j
    /\ Claims(k) # {} => pool[k] = "assigned"
    /\ license[k] # None /\ license[k].source = "pool" =>
         pool[k] = "assigned" /\ Claims(k) = {}

(* Keys taken from the pool that no call holds and no license has, and     *)
(* licenses that no call has returned.                                     *)
Burnt == {k \in Keys : pool[k] = "assigned" /\ license[k] = None
                                            /\ Claims(k) = {}}
Orphans == {k \in Keys : license[k] # None /\ k \notin issued}

(* Nothing is claimed or inserted in vain, except by a Supabase call that  *)
(* failed: one key each.  (With INFO enabled every issuance raises after   *)
(* its insert.)                                                            *)
NothingLost ==
  ~Raises(level, "INFO") => Cardinality(Burnt) + Cardinality(Orphans) <= faults

(* A trial's runs are all counted, and checks that overlap start at most   *)
(* one run each beyond max_runs.                                           *)
RunsBounded ==
  \A k \in Keys :
    /\ runs[k] = None => started[k] = 0
    /\ runs[k] # None =>
         started[k] <= runs[k] /\ runs[k] < MaxRuns + Cardinality(Checkers)
=============================================================================
