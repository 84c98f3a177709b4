---------------------------- MODULE AuthSessions ----------------------------
(***************************************************************************)
(* auth_service: login, refresh-token rotation, replay and logout, as the  *)
(* PostgreSQL transactions that AuthService runs, one AsyncSession (so one *)
(* transaction at a time) per request.                                     *)
(*                                                                         *)
(* A step is what happens between two awaits.  A row read FOR UPDATE stays *)
(* locked until commit or rollback; every other statement works on the     *)
(* snapshot of its own start (READ COMMITTED), waits for the rows another  *)
(* transaction holds, and re-checks its WHERE clause on the version it     *)
(* then finds.  Writes are applied in the commit step.                     *)
(*                                                                         *)
(* Time is one integer clock; a family is named by its first token.        *)
(***************************************************************************)
EXTENDS Integers

CONSTANTS
  Users,       \* accounts a request can name
  Tokens,      \* refresh-token values (their SHA-256 is the row key)
  Requests,    \* concurrent requests, each with its own session
  None,        \* "no row", "nothing held"
  TTL,         \* refresh_token_expire_days
  Retention,   \* refresh_token_retention_days
  MaxFails,    \* max_failed_logins
  Lockout,     \* lockout_minutes
  MaxTime      \* bound on the clock

Account == [active : BOOLEAN, fails : Nat, lockedUntil : Nat]
Row     == [owner : Users, family : Tokens, revoked : BOOLEAN, exp : Nat]

ASSUME NoneAssumption ==
  /\ None \notin Users /\ None \notin Tokens
  /\ None \notin Account /\ None \notin Row
ASSUME ConfigAssumption ==
  /\ TTL \in Nat \ {0} /\ Retention \in Nat
  /\ MaxFails \in Nat \ {0} /\ Lockout \in Nat \ {0} /\ MaxTime \in Nat

VARIABLES
  now,      \* the wall clock
  user,     \* committed auth_users rows
  row,      \* committed auth_refresh_tokens rows
  minted,   \* tokens ever handed out
  pc,       \* the await each request is suspended at
  who,      \* the auth_users row a request has locked
  tgt,      \* the token row a refresh has locked first (`stored`)
  held,     \* every token row a request has locked
  stamp,    \* `now` of the handler; after _issue_tokens, the new expiry
  seen,     \* the account as login read it
  todo,     \* rows a running UPDATE or DELETE has still to reach
  snap,     \* auxiliary: the rows a family UPDATE matched at its start
  misses    \* auxiliary: committed wrong passwords since the last success

vars == <<now, user, row, minted, pc, who, tgt, held, stamp, seen, todo,
          snap, misses>>
db   == <<user, row, minted, misses>>

Exists(t)   == row[t] # None
Live(t)     == Exists(t) /\ ~row[t].revoked
RowFree(t)  == \A r \in Requests : t \notin held[r]
UserFree(u) == \A r \in Requests : who[r] # u
Locked(a, at) == a.lockedUntil > at

-----------------------------------------------------------------------------
Init ==
  /\ now = 0
  /\ user = [u \in Users |-> None]
  /\ row = [t \in Tokens |-> None]
  /\ minted = {}
  /\ pc = [r \in Requests |-> "idle"]
  /\ who = [r \in Requests |-> None]
  /\ tgt = [r \in Requests |-> None]
  /\ held = [r \in Requests |-> {}]
  /\ stamp = [r \in Requests |-> 0]
  /\ seen = [r \in Requests |-> None]
  /\ todo = [r \in Requests |-> {}]
  /\ snap = [r \in Requests |-> {}]
  /\ misses = [u \in Users |-> 0]

(* Commit or rollback: every lock goes, the request returns. *)
Finish(r) ==
  /\ pc' = [pc EXCEPT ![r] = "idle"]
  /\ who' = [who EXCEPT ![r] = None]
  /\ tgt' = [tgt EXCEPT ![r] = None]
  /\ held' = [held EXCEPT ![r] = {}]
  /\ stamp' = [stamp EXCEPT ![r] = 0]
  /\ seen' = [seen EXCEPT ![r] = None]
  /\ todo' = [todo EXCEPT ![r] = {}]
  /\ snap' = [snap EXCEPT ![r] = {}]
  /\ now' = now

Tick == now < MaxTime /\ now' = now + 1
        /\ UNCHANGED <<user, row, minted, pc, who, tgt, held, stamp, seen,
                       todo, snap, misses>>

-----------------------------------------------------------------------------
(* register: the unique indexes make the single INSERT atomic; a second   *)
(* registration of the account rolls back and changes nothing.            *)
Register(u) ==
  /\ user[u] = None
  /\ user' = [user EXCEPT ![u] =
                [active |-> TRUE, fails |-> 0, lockedUntil |-> 0]]
  /\ UNCHANGED <<now, row, minted, pc, who, tgt, held, stamp, seen, todo,
                 snap, misses>>

(* The host disables or enables an account with an UPDATE of its own. *)
HostSetsActive(u) ==
  /\ user[u] # None
  /\ UserFree(u)
  /\ user' = [user EXCEPT ![u].active = ~@]
  /\ UNCHANGED <<now, row, minted, pc, who, tgt, held, stamp, seen, todo,
                 snap, misses>>

-----------------------------------------------------------------------------
(* login *)

LoginSelect(r, u) ==
  /\ pc[r] = "idle"
  /\ user[u] # None
  /\ UserFree(u)
  /\ pc' = [pc EXCEPT ![r] = "verify"]
  /\ who' = [who EXCEPT ![r] = u]
  /\ stamp' = [stamp EXCEPT ![r] = now]
  /\ seen' = [seen EXCEPT ![r] = user[u]]
  /\ UNCHANGED <<now, tgt, held, todo, snap, db>>

RefusedIfDisabled(r) == ~seen[r].active               \* slip: no lockout
RefusedIfLocked(r) == Locked(seen[r], stamp[r])       \* slip: no is_active
Refused(r) == Locked(seen[r], stamp[r]) \/ ~seen[r].active

(* Locked or disabled: rolled back whatever the password was. *)
LoginRefusedOpen(r) ==                  \* slip: no rollback before raising
  pc[r] = "verify" /\ Refused(r) /\ UNCHANGED vars
LoginRefused(r) ==
  /\ pc[r] = "verify"
  /\ Refused(r)
  /\ Finish(r)
  /\ UNCHANGED db

(* Wrong password: the counter read at the SELECT, plus one, is written. *)
LoginMiss(r) ==
  /\ pc[r] = "verify"
  /\ ~Refused(r)
  /\ LET n == seen[r].fails + 1
         until == IF n >= MaxFails THEN stamp[r] + Lockout
                                   ELSE seen[r].lockedUntil
     IN user' = [user EXCEPT ![who[r]].fails = n,
                             ![who[r]].lockedUntil = until]
  /\ misses' = [misses EXCEPT ![who[r]] = @ + 1]
  /\ Finish(r)
  /\ UNCHANGED <<row, minted>>

(* Right password: counters reset, a token of a new family inserted. *)
LoginHitWrites(r, t, counted, expiry) ==
  /\ pc[r] = "verify"
  /\ ~Refused(r)
  /\ t \notin minted
  /\ user' = [user EXCEPT ![who[r]].fails = counted, ![who[r]].lockedUntil = 0]
  /\ row' = [row EXCEPT ![t] = [owner |-> who[r], family |-> t,
                                revoked |-> FALSE, exp |-> expiry]]
  /\ minted' = minted \cup {t}
  /\ misses' = [misses EXCEPT ![who[r]] = 0]
  /\ Finish(r)
LoginHitKeepsCount(r, t) ==             \* slip: only locked_until is reset
  LoginHitWrites(r, t, seen[r].fails, now + TTL)
LoginHit(r, t) == LoginHitWrites(r, t, 0, now + TTL)

-----------------------------------------------------------------------------
(* refresh: SELECT ... FOR UPDATE of the presented token.  A token without *)
(* a row, or expired, is rolled back with no other effect.                 *)
RefreshSelect(r, t, next) ==
  /\ pc[r] = "idle"
  /\ Exists(t)
  /\ RowFree(t)
  /\ pc' = [pc EXCEPT ![r] = next]
  /\ tgt' = [tgt EXCEPT ![r] = t]
  /\ held' = [held EXCEPT ![r] = {t}]
  /\ stamp' = [stamp EXCEPT ![r] = now]
  /\ UNCHANGED <<now, who, seen, todo, snap, db>>

RefreshReplay(r, t) == Exists(t) /\ row[t].revoked
                       /\ RefreshSelect(r, t, "replay")
RefreshAccept(r, t) == Live(t) /\ row[t].exp > now
                       /\ RefreshSelect(r, t, "rotate")

(* The second SELECT ... FOR UPDATE, of the owner; an inactive owner's     *)
(* token is revoked and committed.                                         *)
RotateInactive(r) ==
  /\ pc[r] = "rotate"
  /\ UserFree(row[tgt[r]].owner)
  /\ ~user[row[tgt[r]].owner].active
  /\ row' = [row EXCEPT ![tgt[r]].revoked = TRUE]
  /\ Finish(r)
  /\ UNCHANGED <<user, minted, misses>>

(* Rows of the owner that expired before the retention cutoff. *)
Purgeable(r) ==
  {x \in Tokens : /\ Exists(x) /\ row[x].owner = row[tgt[r]].owner
                  /\ row[x].exp + Retention < stamp[r]}

(* An active owner: revoke `stored` and issue its successor in the         *)
(* session, then start the cleanup DELETE.  The owner's lock keeps every   *)
(* other cleanup of these rows out, so its snapshot can be taken here.     *)
RotateIssue(r) ==
  /\ pc[r] = "rotate"
  /\ UserFree(row[tgt[r]].owner)
  /\ user[row[tgt[r]].owner].active
  /\ pc' = [pc EXCEPT ![r] = "cleanup"]
  /\ who' = [who EXCEPT ![r] = row[tgt[r]].owner]
  /\ todo' = [todo EXCEPT ![r] = Purgeable(r)]
  /\ stamp' = [stamp EXCEPT ![r] = now + TTL]
  /\ UNCHANGED <<now, tgt, held, seen, snap, db>>

(* The DELETE locks one matched row, waiting while another holds it. *)
CleanupRow(r, x) ==
  /\ pc[r] = "cleanup"
  /\ x \in todo[r]
  /\ RowFree(x)
  /\ todo' = [todo EXCEPT ![r] = @ \ {x}]
  /\ held' = [held EXCEPT ![r] = @ \cup {x}]
  /\ UNCHANGED <<now, pc, who, tgt, stamp, seen, snap, db>>

RotateCommitWrites(r, n, old, family) ==
  /\ pc[r] = "cleanup"
  /\ todo[r] = {}
  /\ n \notin minted
  /\ row' = [x \in Tokens |->
       CASE x = n -> [owner |-> who[r], family |-> family,
                      revoked |-> FALSE, exp |-> stamp[r]]
         [] x = tgt[r] -> old
         [] x \in held[r] \ {n, tgt[r]} -> None
         [] OTHER -> row[x]]
  /\ minted' = minted \cup {n}
  /\ Finish(r)
  /\ UNCHANGED <<user, misses>>
RotateCommitKeepsOld(r, n) ==           \* slip: `stored` is not revoked
  RotateCommitWrites(r, n, row[tgt[r]], row[tgt[r]].family)
RotateCommitNewFamily(r, n) ==          \* slip: a family of its own
  RotateCommitWrites(r, n, [row[tgt[r]] EXCEPT !.revoked = TRUE], n)
RotateCommit(r, n) ==
  RotateCommitWrites(r, n, [row[tgt[r]] EXCEPT !.revoked = TRUE],
                     row[tgt[r]].family)

-----------------------------------------------------------------------------
(* refresh with a revoked token: _revoke_family, one UPDATE. *)

(* The statement's snapshot: tokens inserted later are invisible to it. *)
ReplaySnapshot(r) ==
  /\ pc[r] = "replay"
  /\ LET family == {x \in Tokens : /\ Live(x)
                                   /\ row[x].owner = row[tgt[r]].owner
                                   /\ row[x].family = row[tgt[r]].family}
     IN /\ todo' = [todo EXCEPT ![r] = family]
        /\ snap' = [snap EXCEPT ![r] = family]
  /\ pc' = [pc EXCEPT ![r] = "revoke"]
  /\ UNCHANGED <<now, who, tgt, held, stamp, seen, db>>

(* Reach one matched row, waiting for its holder, and re-check revoked. *)
RevokeRowUnlessLocked(r, x) ==          \* slip: SKIP LOCKED
  /\ pc[r] = "revoke"
  /\ x \in todo[r]
  /\ todo' = [todo EXCEPT ![r] = @ \ {x}]
  /\ held' = IF Live(x) /\ RowFree(x) THEN [held EXCEPT ![r] = @ \cup {x}]
             ELSE held
  /\ UNCHANGED <<now, pc, who, tgt, stamp, seen, snap, db>>
RevokeRow(r, x) ==
  /\ pc[r] = "revoke"
  /\ x \in todo[r]
  /\ RowFree(x)
  /\ todo' = [todo EXCEPT ![r] = @ \ {x}]
  /\ held' = IF Live(x) THEN [held EXCEPT ![r] = @ \cup {x}] ELSE held
  /\ UNCHANGED <<now, pc, who, tgt, stamp, seen, snap, db>>

ReplayCommit(r) ==
  /\ pc[r] = "revoke"
  /\ todo[r] = {}
  /\ row' = [x \in Tokens |-> IF x \in held[r] /\ Exists(x)
                              THEN [row[x] EXCEPT !.revoked = TRUE]
                              ELSE row[x]]
  /\ Finish(r)
  /\ UNCHANGED <<user, minted, misses>>

-----------------------------------------------------------------------------
(* logout: lock, check, revoke and commit; nothing else is read, so the    *)
(* transaction is one step.                                                *)
Logout(t) ==
  /\ Live(t)
  /\ RowFree(t)
  /\ row' = [row EXCEPT ![t].revoked = TRUE]
  /\ UNCHANGED <<now, user, minted, pc, who, tgt, held, stamp, seen, todo,
                 snap, misses>>

(* Any await may fail (connection lost, cancelled request, statement       *)
(* timeout, deadlock victim): the session rolls back.                      *)
Abort(r) ==
  /\ pc[r] # "idle"
  /\ Finish(r)
  /\ UNCHANGED db

-----------------------------------------------------------------------------
Next ==
  \/ Tick
  \/ \E u \in Users : Register(u) \/ HostSetsActive(u)
  \/ \E t \in Tokens : Logout(t)
  \/ \E r \in Requests :
       \/ \E u \in Users : LoginSelect(r, u)
       \/ LoginRefused(r) \/ LoginMiss(r)
       \/ RotateInactive(r) \/ RotateIssue(r)
       \/ ReplaySnapshot(r) \/ ReplayCommit(r)
       \/ Abort(r)
       \/ \E t \in Tokens :
            \/ LoginHit(r, t)
            \/ RefreshReplay(r, t) \/ RefreshAccept(r, t)
            \/ CleanupRow(r, t) \/ RotateCommit(r, t)
            \/ RevokeRow(r, t)

Spec == Init /\ [][Next]_vars

-----------------------------------------------------------------------------
(* Fairness.  A request runs on (WF); PostgreSQL queues lock waiters, so a *)
(* waiter is served even when the row is taken again and again (SF); the   *)
(* deadlock detector cancels a transaction of a wait cycle (WF).           *)

WaitsFor(r, s) ==
  \/ pc[r] = "rotate" /\ who[s] = row[tgt[r]].owner
  \/ \E x \in todo[r] : x \in held[s] /\ r # s

DeadlockVictim(r) ==
  /\ \/ \E s \in Requests : WaitsFor(r, s) /\ WaitsFor(s, r)
     \/ \E s, q \in Requests : WaitsFor(r, s) /\ WaitsFor(s, q)
                               /\ WaitsFor(q, r)
  /\ Abort(r)

Proceed(r) ==
  \/ LoginRefused(r) \/ LoginMiss(r) \/ ReplaySnapshot(r) \/ ReplayCommit(r)
  \/ \E t \in Tokens : LoginHit(r, t) \/ RotateCommit(r, t)

Acquire(r) ==
  \/ RotateInactive(r) \/ RotateIssue(r)
  \/ \E t \in Tokens : CleanupRow(r, t) \/ RevokeRow(r, t)

Fairness ==
  \A r \in Requests :
    WF_vars(Proceed(r)) /\ SF_vars(Acquire(r)) /\ WF_vars(DeadlockVictim(r))

FairSpec == Spec /\ Fairness

-----------------------------------------------------------------------------
TypeOK ==
  /\ now \in Nat
  /\ user \in [Users -> Account \cup {None}]
  /\ row \in [Tokens -> Row \cup {None}]
  /\ minted \in SUBSET Tokens
  /\ pc \in [Requests -> {"idle", "verify", "rotate", "cleanup", "replay",
                          "revoke"}]
  /\ who \in [Requests -> Users \cup {None}]
  /\ tgt \in [Requests -> Tokens \cup {None}]
  /\ held \in [Requests -> SUBSET Tokens]
  /\ stamp \in [Requests -> Nat]
  /\ seen \in [Requests -> Account \cup {None}]
  /\ todo \in [Requests -> SUBSET Tokens]
  /\ snap \in [Requests -> SUBSET Tokens]
  /\ misses \in [Users -> Nat]

(* "double rotation" (README, Security behavior): rotating the same token  *)
(* twice would leave two unrevoked tokens in its family.                   *)
OneLivePerFamily ==
  \A a, b \in Tokens :
    Live(a) /\ Live(b) /\ row[a].family = row[b].family => a = b

(* The lock discipline the properties rest on: whoever has read a row FOR   *)
(* UPDATE still sees it unchanged at its commit.                           *)
LockInv ==
  /\ \A r, s \in Requests : r # s => held[r] \cap held[s] = {}
  /\ \A r, s \in Requests : who[r] = who[s] /\ who[r] # None => r = s
  /\ \A r \in Requests :
       /\ pc[r] \in {"idle", "verify"} => held[r] = {}
       /\ pc[r] \in {"rotate", "cleanup"} =>
            tgt[r] \in held[r] /\ Live(tgt[r])
       /\ pc[r] \in {"replay", "revoke"} =>
            tgt[r] \in held[r] /\ Exists(tgt[r]) /\ row[tgt[r]].revoked
       /\ pc[r] = "verify" =>
            /\ who[r] # None /\ seen[r] # None /\ seen[r] = user[who[r]]
            /\ stamp[r] <= now
       /\ pc[r] = "cleanup" =>
            who[r] = row[tgt[r]].owner /\ user[who[r]].active

(* Every row was minted, in a family that was, for an existing account. *)
RowInv ==
  \A t \in Tokens : Exists(t) =>
    t \in minted /\ row[t].family \in minted /\ user[row[t].owner] # None

(* A replay writes inside its family only, and a row its UPDATE matched is *)
(* still to be reached, locked, or revoked or deleted by the transaction   *)
(* that the statement waited for.                                          *)
SnapInv ==
  \A r \in Requests :
    /\ pc[r] = "replay" => held[r] = {tgt[r]}
    /\ pc[r] = "revoke" =>
         /\ todo[r] \subseteq snap[r]
         /\ held[r] \subseteq snap[r] \cup {tgt[r]}
         /\ \A x \in snap[r] :
              /\ x \in minted
              /\ x \in todo[r] \/ x \in held[r] \/ ~Live(x)
              /\ Live(x) => row[x].family = row[tgt[r]].family

(* "lost updates" (same line): the stored counter is exactly the number of *)
(* wrong passwords committed since the last successful login.              *)
CounterExact ==
  \A u \in Users : misses[u] = IF user[u] = None THEN 0 ELSE user[u].fails

(* No login opens a session while the account's lock is running, whatever  *)
(* other logins of the account commit in between.                          *)
LockoutHolds ==
  [][\A t \in minted' \ minted :
       row'[t].family = t =>
         ~Locked(user[row'[t].owner], now)]_vars

(* A token, by login or rotation, is only ever issued to an account that   *)
(* is active at the commit, though `is_active` was read awaits earlier.    *)
IssueToActive ==
  [][\A t \in minted' \ minted : user[row'[t].owner].active]_vars

(* A replay revokes every token its UPDATE matched, including those other  *)
(* transactions held when the statement reached them.                      *)
ReplayKillsMatched ==
  [][\A r \in Requests : ReplayCommit(r) =>
       \A x \in snap[r] : row'[x] = None \/ row'[x].revoked]_vars

(* The README's contract: reusing a rotated token revokes all remaining    *)
(* live tokens of its family.                                              *)
ReplayKillsFamily ==
  [][\A r \in Requests : ReplayCommit(r) =>
       \A x \in Tokens : Live(x)' => row'[x].family # row[tgt[r]].family]_vars

(* The rows, read through "unrevoked", behave as token families. *)
Families == INSTANCE TokenFamilies WITH
  live <- {<<row[t].family, t>> : t \in {x \in Tokens : Live(x)}}
ImplementsFamilies == Families!Spec

(* Every request that holds locks gives them back, even in the wait cycle  *)
(* of a replay and a cleanup; `Tokens` bounds the supply of fresh tokens.  *)
RequestsReturn ==
  \A r \in Requests : pc[r] # "idle" ~> pc[r] = "idle" \/ minted = Tokens
=============================================================================
