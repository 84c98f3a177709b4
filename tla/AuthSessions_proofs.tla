------------------------ MODULE AuthSessions_proofs ------------------------
(* Proofs about AuthSessions, for every set of accounts, tokens and        *)
(* requests and every configuration.                                       *)
EXTENDS AuthSessions, TLAPS

(* The inductive invariant: the types, what the locks guarantee, and the   *)
(* two promises of the README.  Neither promise is inductive alone: that a *)
(* family keeps one live token needs that a rotating request still sees    *)
(* its token live at the commit, which is LockInv.                         *)
IInv ==
  TypeOK /\ LockInv /\ RowInv /\ SnapInv /\ OneLivePerFamily /\ CounterExact

-----------------------------------------------------------------------------
(* Initially nothing exists and nothing is locked. *)
LEMMA InitInv == Init => IInv
<1> SUFFICES ASSUME Init PROVE IInv
  OBVIOUS
<1> USE NoneAssumption DEF Init, Exists, Live
<1>1. TypeOK
  BY DEF TypeOK, Account, Row
<1>2. LockInv
  BY DEF LockInv
<1>3. RowInv /\ SnapInv /\ OneLivePerFamily /\ CounterExact
  BY DEF RowInv, SnapInv, OneLivePerFamily, CounterExact
<1> QED
  BY <1>1, <1>2, <1>3 DEF IInv

-----------------------------------------------------------------------------
(* What the three writes of an account do to it, as one record each. *)

LEMMA HostWrites ==
  ASSUME TypeOK, NEW u \in Users, HostSetsActive(u)
  PROVE  \E a \in Account :
           /\ user' = [user EXCEPT ![u] = a]
           /\ user[u] \in Account /\ a.fails = user[u].fails
           /\ UserFree(u)
           /\ UNCHANGED <<now, row, minted, pc, who, tgt, held, stamp, seen,
                          todo, snap, misses>>
<1>1. user[u] \in Account
  BY NoneAssumption DEF HostSetsActive, TypeOK
<1> DEFINE a == [user[u] EXCEPT !.active = ~@]
<1>2. a \in Account /\ a.fails = user[u].fails
  BY <1>1 DEF Account
<1>3. user' = [user EXCEPT ![u] = a]
  BY <1>1 DEF HostSetsActive, TypeOK
<1> QED
  BY <1>1, <1>2, <1>3 DEF HostSetsActive

LEMMA MissWrites ==
  ASSUME TypeOK, LockInv, NEW r \in Requests, LoginMiss(r)
  PROVE  /\ who[r] \in Users
         /\ \E a \in Account :
              /\ user' = [user EXCEPT ![who[r]] = a]
              /\ user[who[r]] \in Account
              /\ a.fails = user[who[r]].fails + 1
         /\ pc[r] = "verify" /\ Finish(r)
         /\ misses' = [misses EXCEPT ![who[r]] = @ + 1]
         /\ UNCHANGED <<row, minted>>
<1>1. who[r] \in Users /\ seen[r] = user[who[r]] /\ seen[r] \in Account
  BY NoneAssumption DEF LoginMiss, TypeOK, LockInv
<1> DEFINE n == seen[r].fails + 1
           until == IF n >= MaxFails THEN stamp[r] + Lockout
                                     ELSE seen[r].lockedUntil
           a == [user[who[r]] EXCEPT !.fails = n, !.lockedUntil = until]
<1>2. n \in Nat /\ until \in Nat
  BY <1>1, ConfigAssumption DEF Account, TypeOK
<1>3. a \in Account /\ a.fails = user[who[r]].fails + 1
  BY <1>1, <1>2 DEF Account
<1>4. user' = [user EXCEPT ![who[r]] = a]
  BY <1>1 DEF LoginMiss, TypeOK
<1> QED
  BY <1>1, <1>3, <1>4 DEF LoginMiss

LEMMA HitWrites ==
  ASSUME TypeOK, LockInv, NEW r \in Requests, NEW t \in Tokens, LoginHit(r, t)
  PROVE  /\ who[r] \in Users
         /\ \E a \in Account :
              /\ user' = [user EXCEPT ![who[r]] = a]
              /\ user[who[r]] \in Account
              /\ a.fails = 0
         /\ pc[r] = "verify" /\ Finish(r)
         /\ t \notin minted /\ minted' = minted \cup {t}
         /\ \E w \in Row : row' = [row EXCEPT ![t] = w] /\ w.family = t
                              /\ w.owner = who[r] /\ ~w.revoked
         /\ misses' = [misses EXCEPT ![who[r]] = 0]
<1>1. who[r] \in Users /\ user[who[r]] \in Account
  BY NoneAssumption DEF LoginHit, LoginHitWrites, TypeOK, LockInv
<1> DEFINE a == [user[who[r]] EXCEPT !.fails = 0, !.lockedUntil = 0]
<1>2. a \in Account /\ a.fails = 0
  BY <1>1 DEF Account
<1>3. user' = [user EXCEPT ![who[r]] = a]
  BY <1>1 DEF LoginHit, LoginHitWrites, TypeOK
<1> DEFINE w == [owner |-> who[r], family |-> t, revoked |-> FALSE,
                 exp |-> now + TTL]
<1>4. w \in Row /\ w.family = t /\ w.owner = who[r] /\ ~w.revoked
  BY <1>1, ConfigAssumption DEF TypeOK, Row
<1>5. row' = [row EXCEPT ![t] = w]
  BY DEF LoginHit, LoginHitWrites
<1> QED
  BY <1>1, <1>2, <1>3, <1>4, <1>5 DEF LoginHit, LoginHitWrites

-----------------------------------------------------------------------------
(* Type correctness, one case per action. *)
LEMMA StepType == IInv /\ [Next]_vars => TypeOK'
<1> SUFFICES ASSUME IInv, [Next]_vars PROVE TypeOK'
  OBVIOUS
<1> USE NoneAssumption, ConfigAssumption
<1>t. TypeOK /\ LockInv /\ RowInv
  BY DEF IInv
<1> USE DEF TypeOK
<1>1. CASE Tick
  BY <1>1, <1>t DEF Tick
<1>2. ASSUME NEW u \in Users, Register(u) PROVE TypeOK'
  BY <1>2, <1>t DEF Register, Account
<1>3. ASSUME NEW u \in Users, HostSetsActive(u) PROVE TypeOK'
  <2>1. PICK a \in Account :
          /\ user' = [user EXCEPT ![u] = a]
          /\ user[u] \in Account /\ a.fails = user[u].fails
          /\ UserFree(u)
          /\ UNCHANGED <<now, row, minted, pc, who, tgt, held, stamp, seen,
                         todo, snap, misses>>
    BY <1>3, <1>t, HostWrites
  <2> QED
    BY <2>1, <1>t
<1>4. ASSUME NEW t \in Tokens, Logout(t) PROVE TypeOK'
  <2>1. row[t] \in Row
    BY <1>4, <1>t DEF Logout, Live, Exists
  <2>2. [row[t] EXCEPT !.revoked = TRUE] \in Row
    BY <2>1 DEF Row
  <2> QED
    BY <2>2, <1>4, <1>t DEF Logout
<1>5. ASSUME NEW r \in Requests, NEW u \in Users, LoginSelect(r, u)
      PROVE TypeOK'
  BY <1>5, <1>t DEF LoginSelect, db
<1>6. ASSUME NEW r \in Requests, LoginRefused(r) PROVE TypeOK'
  BY <1>6, <1>t DEF LoginRefused, Finish, db
<1>7. ASSUME NEW r \in Requests, LoginMiss(r) PROVE TypeOK'
  <2>1. who[r] \in Users
    BY <1>7, <1>t, MissWrites
  <2>2. PICK a \in Account :
          /\ user' = [user EXCEPT ![who[r]] = a]
          /\ user[who[r]] \in Account
          /\ a.fails = user[who[r]].fails + 1
    BY <1>7, <1>t, MissWrites
  <2>3. /\ pc[r] = "verify" /\ Finish(r)
        /\ misses' = [misses EXCEPT ![who[r]] = @ + 1]
        /\ UNCHANGED <<row, minted>>
    BY <1>7, <1>t, MissWrites
  <2> QED
    BY <2>1, <2>2, <2>3, <1>t DEF Finish
<1>8. ASSUME NEW r \in Requests, NEW t \in Tokens, LoginHit(r, t)
      PROVE TypeOK'
  <2>1. user' \in [Users -> Account \cup {None}] /\ who[r] \in Users
    BY <1>8, <1>t, HitWrites
  <2>2. PICK a \in Account :
          /\ user' = [user EXCEPT ![who[r]] = a]
          /\ user[who[r]] \in Account /\ a.fails = 0
    BY <1>8, <1>t, HitWrites
  <2>3. PICK w \in Row : row' = [row EXCEPT ![t] = w] /\ w.family = t
                          /\ w.owner = who[r] /\ ~w.revoked
    BY <1>8, <1>t, HitWrites
  <2>4. /\ pc[r] = "verify" /\ Finish(r)
        /\ t \notin minted /\ minted' = minted \cup {t}
        /\ misses' = [misses EXCEPT ![who[r]] = 0]
    BY <1>8, <1>t, HitWrites
  <2> QED
    BY <2>1, <2>2, <2>3, <2>4, <1>t DEF Finish
<1>9. ASSUME NEW r \in Requests, RotateInactive(r) PROVE TypeOK'
  <2>1. tgt[r] \in Tokens /\ row[tgt[r]] \in Row
    BY <1>9, <1>t DEF RotateInactive, LockInv, Live, Exists
  <2>2. [row[tgt[r]] EXCEPT !.revoked = TRUE] \in Row
    BY <2>1 DEF Row
  <2> QED
    BY <2>1, <2>2, <1>9, <1>t DEF RotateInactive, Finish
<1>10. ASSUME NEW r \in Requests, RotateIssue(r) PROVE TypeOK'
  <2>1. tgt[r] \in Tokens /\ row[tgt[r]].owner \in Users
    BY <1>10, <1>t DEF RotateIssue, LockInv, Live, Exists, Row
  <2> QED
    BY <2>1, <1>10, <1>t DEF RotateIssue, Purgeable, db
<1>11. ASSUME NEW r \in Requests, ReplaySnapshot(r) PROVE TypeOK'
  BY <1>11, <1>t DEF ReplaySnapshot, db
<1>12. ASSUME NEW r \in Requests, ReplayCommit(r) PROVE TypeOK'
  <2>1. ASSUME NEW x \in Tokens, Exists(x)
        PROVE [row[x] EXCEPT !.revoked = TRUE] \in Row
    <3>1. row[x] \in Row
      BY <2>1, <1>t DEF Exists
    <3> QED
      BY <3>1 DEF Row
  <2>2. ASSUME NEW x \in Tokens
        PROVE (IF x \in held[r] /\ Exists(x)
               THEN [row[x] EXCEPT !.revoked = TRUE]
               ELSE row[x]) \in Row \cup {None}
    BY <2>1, <1>t DEF Exists
  <2>3. row' \in [Tokens -> Row \cup {None}]
    BY <2>2, <1>12 DEF ReplayCommit
  <2> QED
    BY <2>3, <1>12, <1>t DEF ReplayCommit, Finish
<1>13. ASSUME NEW r \in Requests, Abort(r) PROVE TypeOK'
  BY <1>13, <1>t DEF Abort, Finish, db
<1>14. ASSUME NEW r \in Requests, NEW t \in Tokens,
              RefreshReplay(r, t) \/ RefreshAccept(r, t)
       PROVE TypeOK'
  BY <1>14, <1>t DEF RefreshReplay, RefreshAccept, RefreshSelect, db
<1>15. ASSUME NEW r \in Requests, NEW t \in Tokens, CleanupRow(r, t)
       PROVE TypeOK'
  BY <1>15, <1>t DEF CleanupRow, db
<1>16. ASSUME NEW r \in Requests, NEW t \in Tokens, RevokeRow(r, t)
       PROVE TypeOK'
  BY <1>16, <1>t DEF RevokeRow, db
<1>17. ASSUME NEW r \in Requests, NEW n \in Tokens, RotateCommit(r, n)
       PROVE TypeOK'
  <2>1. /\ tgt[r] \in Tokens /\ row[tgt[r]] \in Row
        /\ who[r] \in Users /\ stamp[r] \in Nat
    BY <1>17, <1>t
    DEF RotateCommit, RotateCommitWrites, LockInv, Live, Exists, Row
  <2>2. row' \in [Tokens -> Row \cup {None}]
    BY <2>1, <1>17, <1>t DEF RotateCommit, RotateCommitWrites, Row
  <2> QED
    BY <2>2, <1>17, <1>t DEF RotateCommit, RotateCommitWrites, Finish
<1>18. CASE UNCHANGED vars
  BY <1>18, <1>t DEF vars
<1> QED
  BY <1>1, <1>2, <1>3, <1>4, <1>5, <1>6, <1>7, <1>8, <1>9, <1>10, <1>11,
     <1>12, <1>13, <1>14, <1>15, <1>16, <1>17, <1>18 DEF Next

-----------------------------------------------------------------------------
(* What the locks give.  A step that changes the rows is a commit of one   *)
(* request: it writes rows that request holds, a row nobody holds, or the  *)
(* row of a fresh token; and the locks of every other request stay.        *)

(* The lock invariant, one case per action. *)
LEMMA StepLock == IInv /\ [Next]_vars => LockInv'
<1> SUFFICES ASSUME IInv, [Next]_vars PROVE LockInv'
  OBVIOUS
<1> USE NoneAssumption
<1>t. TypeOK /\ LockInv /\ RowInv /\ TypeOK'
  BY StepType DEF IInv
<1> USE DEF TypeOK, LockInv
<1>1. CASE Tick
  BY <1>1, <1>t DEF Tick, Live, Exists
<1>2. ASSUME NEW u \in Users, Register(u) PROVE LockInv'
  BY <1>2, <1>t DEF Register, Live, Exists
<1>3. ASSUME NEW u \in Users, HostSetsActive(u) PROVE LockInv'
  <2>1. PICK a \in Account :
          /\ user' = [user EXCEPT ![u] = a]
          /\ user[u] \in Account /\ a.fails = user[u].fails
          /\ UserFree(u)
          /\ UNCHANGED <<now, row, minted, pc, who, tgt, held, stamp, seen,
                         todo, snap, misses>>
    BY <1>3, <1>t, HostWrites
  <2> QED
    BY <2>1, <1>t DEF UserFree, Live, Exists
<1>4. ASSUME NEW t \in Tokens, Logout(t) PROVE LockInv'
  BY <1>4, <1>t DEF Logout, RowFree, Live, Exists
<1>5. ASSUME NEW r \in Requests, NEW u \in Users, LoginSelect(r, u)
      PROVE LockInv'
  BY <1>5, <1>t DEF LoginSelect, UserFree, db, Live, Exists
<1>6. ASSUME NEW r \in Requests, LoginRefused(r) PROVE LockInv'
  BY <1>6, <1>t DEF LoginRefused, Finish, db, Live, Exists
<1>7. ASSUME NEW r \in Requests, LoginMiss(r) PROVE LockInv'
  <2>1. who[r] \in Users
    BY <1>7, <1>t, MissWrites
  <2>2. PICK a \in Account :
          /\ user' = [user EXCEPT ![who[r]] = a]
          /\ user[who[r]] \in Account
          /\ a.fails = user[who[r]].fails + 1
    BY <1>7, <1>t, MissWrites
  <2>3. /\ pc[r] = "verify" /\ Finish(r)
        /\ misses' = [misses EXCEPT ![who[r]] = @ + 1]
        /\ UNCHANGED <<row, minted>>
    BY <1>7, <1>t, MissWrites
  <2> QED
    BY <2>1, <2>2, <2>3, <1>t DEF Finish, Live, Exists
<1>8. ASSUME NEW r \in Requests, NEW t \in Tokens, LoginHit(r, t)
      PROVE LockInv'
  <2>1. who[r] \in Users
    BY <1>8, <1>t, HitWrites
  <2>2. PICK a \in Account :
          /\ user' = [user EXCEPT ![who[r]] = a]
          /\ user[who[r]] \in Account /\ a.fails = 0
    BY <1>8, <1>t, HitWrites
  <2>3. PICK w \in Row : row' = [row EXCEPT ![t] = w] /\ w.family = t
                          /\ w.owner = who[r] /\ ~w.revoked
    BY <1>8, <1>t, HitWrites
  <2>4. /\ pc[r] = "verify" /\ Finish(r)
        /\ t \notin minted /\ minted' = minted \cup {t}
        /\ misses' = [misses EXCEPT ![who[r]] = 0]
    BY <1>8, <1>t, HitWrites
  <2> QED
    BY <2>1, <2>2, <2>3, <2>4, <1>t DEF Finish, RowInv, Live, Exists
<1>9. ASSUME NEW r \in Requests, RotateInactive(r) PROVE LockInv'
  BY <1>9, <1>t DEF RotateInactive, Finish, Live, Exists
<1>10. ASSUME NEW r \in Requests, RotateIssue(r) PROVE LockInv'
  BY <1>10, <1>t DEF RotateIssue, UserFree, db, Live, Exists
<1>11. ASSUME NEW r \in Requests, ReplaySnapshot(r) PROVE LockInv'
  BY <1>11, <1>t DEF ReplaySnapshot, db, Live, Exists
<1>12. ASSUME NEW r \in Requests, ReplayCommit(r) PROVE LockInv'
  BY <1>12, <1>t DEF ReplayCommit, Finish, Live, Exists
<1>13. ASSUME NEW r \in Requests, Abort(r) PROVE LockInv'
  BY <1>13, <1>t DEF Abort, Finish, db, Live, Exists
<1>14. ASSUME NEW r \in Requests, NEW t \in Tokens,
              RefreshReplay(r, t) \/ RefreshAccept(r, t)
       PROVE LockInv'
  BY <1>14, <1>t
     DEF RefreshReplay, RefreshAccept, RefreshSelect, RowFree, db, Live, Exists
<1>15. ASSUME NEW r \in Requests, NEW t \in Tokens, CleanupRow(r, t)
       PROVE LockInv'
  BY <1>15, <1>t DEF CleanupRow, RowFree, db, Live, Exists
<1>16. ASSUME NEW r \in Requests, NEW t \in Tokens, RevokeRow(r, t)
       PROVE LockInv'
  BY <1>16, <1>t DEF RevokeRow, RowFree, db, Live, Exists
<1>17. ASSUME NEW r \in Requests, NEW n \in Tokens, RotateCommit(r, n)
       PROVE LockInv'
  BY <1>17, <1>t
  DEF RotateCommit, RotateCommitWrites, Finish, RowInv, Live, Exists
<1>18. CASE UNCHANGED vars
  BY <1>18, <1>t DEF vars, Live, Exists
<1> QED
  BY <1>1, <1>2, <1>3, <1>4, <1>5, <1>6, <1>7, <1>8, <1>9, <1>10, <1>11,
     <1>12, <1>13, <1>14, <1>15, <1>16, <1>17, <1>18 DEF Next

-----------------------------------------------------------------------------
(* Rows only ever name minted tokens and registered accounts. *)
LEMMA StepRow == IInv /\ [Next]_vars => RowInv'
<1> SUFFICES ASSUME IInv, [Next]_vars PROVE RowInv'
  OBVIOUS
<1> USE NoneAssumption
<1>t. TypeOK /\ LockInv /\ RowInv
  BY DEF IInv
<1> USE DEF TypeOK, RowInv, Exists
<1>1. ASSUME NEW u \in Users, Register(u) PROVE RowInv'
  BY <1>1, <1>t DEF Register
<1>2. ASSUME NEW u \in Users, HostSetsActive(u) PROVE RowInv'
  <2>1. PICK a \in Account :
          /\ user' = [user EXCEPT ![u] = a]
          /\ user[u] \in Account /\ a.fails = user[u].fails
          /\ UserFree(u)
          /\ UNCHANGED <<now, row, minted, pc, who, tgt, held, stamp, seen,
                         todo, snap, misses>>
    BY <1>2, <1>t, HostWrites
  <2> QED
    BY <2>1, <1>t
<1>3. ASSUME NEW t \in Tokens, Logout(t) PROVE RowInv'
  BY <1>3, <1>t DEF Logout, Live, Row
<1>4. ASSUME NEW r \in Requests, LoginMiss(r) PROVE RowInv'
  <2>1. who[r] \in Users
    BY <1>4, <1>t, MissWrites
  <2>2. PICK a \in Account :
          /\ user' = [user EXCEPT ![who[r]] = a]
          /\ user[who[r]] \in Account
          /\ a.fails = user[who[r]].fails + 1
    BY <1>4, <1>t, MissWrites
  <2>3. /\ pc[r] = "verify" /\ Finish(r)
        /\ misses' = [misses EXCEPT ![who[r]] = @ + 1]
        /\ UNCHANGED <<row, minted>>
    BY <1>4, <1>t, MissWrites
  <2> QED
    BY <2>1, <2>2, <2>3, <1>t
<1>5. ASSUME NEW r \in Requests, NEW t \in Tokens, LoginHit(r, t)
      PROVE RowInv'
  <2>1. who[r] \in Users
    BY <1>5, <1>t, HitWrites
  <2>2. PICK a \in Account :
          /\ user' = [user EXCEPT ![who[r]] = a]
          /\ user[who[r]] \in Account /\ a.fails = 0
    BY <1>5, <1>t, HitWrites
  <2>3. PICK w \in Row : row' = [row EXCEPT ![t] = w] /\ w.family = t
                          /\ w.owner = who[r] /\ ~w.revoked
    BY <1>5, <1>t, HitWrites
  <2>4. /\ pc[r] = "verify" /\ Finish(r)
        /\ t \notin minted /\ minted' = minted \cup {t}
        /\ misses' = [misses EXCEPT ![who[r]] = 0]
    BY <1>5, <1>t, HitWrites
  <2> QED
    BY <2>1, <2>2, <2>3, <2>4, <1>t
<1>6. ASSUME NEW r \in Requests, RotateInactive(r) PROVE RowInv'
  BY <1>6, <1>t DEF RotateInactive, LockInv, Live, Row
<1>7. ASSUME NEW r \in Requests, ReplayCommit(r) PROVE RowInv'
  BY <1>7, <1>t DEF ReplayCommit, Row
<1>8. ASSUME NEW r \in Requests, NEW n \in Tokens, RotateCommit(r, n)
      PROVE RowInv'
  BY <1>8, <1>t DEF RotateCommit, RotateCommitWrites, LockInv, Live, Row
<1>9. ASSUME UNCHANGED <<user, row, minted>> PROVE RowInv'
  BY <1>9, <1>t
<1> QED
  BY <1>1, <1>2, <1>3, <1>4, <1>5, <1>6, <1>7, <1>8, <1>9
     DEF Next, vars, db, Tick, LoginSelect, LoginRefused, RotateIssue,
         ReplaySnapshot, Abort, RefreshReplay, RefreshAccept, RefreshSelect,
         CleanupRow, RevokeRow

(* A matched row leaves the snapshot's account only by being dealt with. *)
LEMMA StepSnap == IInv /\ [Next]_vars => SnapInv'
<1> SUFFICES ASSUME IInv, [Next]_vars PROVE SnapInv'
  OBVIOUS
<1> USE NoneAssumption
<1>t. TypeOK /\ LockInv /\ RowInv /\ SnapInv
  BY DEF IInv
<1> USE DEF TypeOK, SnapInv, Live, Exists
<1>1. ASSUME NEW t \in Tokens, Logout(t) PROVE SnapInv'
  BY <1>1, <1>t DEF Logout, RowFree
<1>2. ASSUME NEW r \in Requests, LoginMiss(r) PROVE SnapInv'
  BY <1>2, <1>t DEF LoginMiss, Finish
<1>3. ASSUME NEW r \in Requests, NEW t \in Tokens, LoginHit(r, t)
      PROVE SnapInv'
  <2>1. PICK w \in Row : row' = [row EXCEPT ![t] = w]
    BY <1>3, <1>t, HitWrites
  <2>2. t \notin minted /\ minted' = minted \cup {t} /\ Finish(r)
    BY <1>3 DEF LoginHit, LoginHitWrites
  <2>3. \A s \in Requests : pc[s] = "revoke" =>
          tgt[s] \in Tokens /\ row'[tgt[s]] = row[tgt[s]]
    BY <2>1, <2>2, <1>t DEF LockInv, RowInv
  <2>4. \A x \in minted : row'[x] = row[x]
    BY <2>1, <2>2, <1>t
  <2> QED
    BY <2>2, <2>3, <2>4, <1>t DEF Finish
<1>4. ASSUME NEW r \in Requests, RotateInactive(r) PROVE SnapInv'
  BY <1>4, <1>t DEF RotateInactive, Finish, LockInv
<1>5. ASSUME NEW r \in Requests, ReplayCommit(r) PROVE SnapInv'
  <2>1. \A s \in Requests \ {r} : pc[s] = "revoke" =>
          tgt[s] \in Tokens /\ row'[tgt[s]] = row[tgt[s]]
    BY <1>5, <1>t DEF ReplayCommit, LockInv
  <2>2. ASSUME NEW x \in Tokens
        PROVE  Live(x)' => Live(x) /\ row'[x].family = row[x].family
    <3>1. row[x] \in Row \cup {None}
      BY <1>t
    <3> QED
      BY <3>1, <1>5 DEF ReplayCommit, Row
  <2>3. minted' = minted /\ Finish(r)
    BY <1>5 DEF ReplayCommit
  <2> QED
    BY <2>1, <2>2, <2>3, <1>t DEF Finish
<1>6. ASSUME NEW r \in Requests, NEW n \in Tokens, RotateCommit(r, n)
      PROVE SnapInv'
  <2>1. /\ n \notin minted /\ minted' = minted \cup {n} /\ Finish(r)
        /\ tgt[r] \in Tokens /\ tgt[r] \in held[r] /\ n # tgt[r]
        /\ row[tgt[r]] \in Row
    BY <1>6, <1>t DEF RotateCommit, RotateCommitWrites, LockInv, RowInv
  <2>2. \A s \in Requests \ {r} : pc[s] = "revoke" =>
          tgt[s] \in Tokens /\ row'[tgt[s]] = row[tgt[s]]
    BY <2>1, <1>6, <1>t DEF RotateCommit, RotateCommitWrites, LockInv, RowInv
  <2>3. /\ row'[tgt[r]] = [row[tgt[r]] EXCEPT !.revoked = TRUE]
        /\ \A x \in Tokens \ {n, tgt[r]} : row'[x] = None \/ row'[x] = row[x]
    BY <2>1, <1>6 DEF RotateCommit, RotateCommitWrites
  <2>4. ASSUME NEW x \in minted
        PROVE  Live(x)' => Live(x) /\ row'[x].family = row[x].family
    BY <2>1, <2>3, <1>t DEF Row
  <2> QED
    BY <2>1, <2>2, <2>4, <1>t DEF Finish
<1>7. ASSUME NEW r \in Requests, ReplaySnapshot(r) PROVE SnapInv'
  BY <1>7, <1>t DEF ReplaySnapshot, db, RowInv
<1>8. ASSUME NEW r \in Requests, NEW t \in Tokens, RevokeRow(r, t)
      PROVE SnapInv'
  BY <1>8, <1>t DEF RevokeRow, db
<1>9. ASSUME NEW r \in Requests, NEW t \in Tokens, CleanupRow(r, t)
      PROVE SnapInv'
  BY <1>9, <1>t DEF CleanupRow, db
<1>10. ASSUME NEW r \in Requests, NEW t \in Tokens,
              RefreshReplay(r, t) \/ RefreshAccept(r, t)
       PROVE SnapInv'
  BY <1>10, <1>t DEF RefreshReplay, RefreshAccept, RefreshSelect, db
<1>11. ASSUME NEW r \in Requests, LoginRefused(r) \/ Abort(r) PROVE SnapInv'
  BY <1>11, <1>t DEF LoginRefused, Abort, Finish, db
<1>12. ASSUME NEW r \in Requests, RotateIssue(r) PROVE SnapInv'
  BY <1>12, <1>t DEF RotateIssue, db
<1>13. ASSUME NEW r \in Requests, NEW u \in Users, LoginSelect(r, u)
       PROVE SnapInv'
  BY <1>13, <1>t DEF LoginSelect, db
<1>14. ASSUME UNCHANGED <<row, minted, pc, tgt, held, todo, snap>>
       PROVE SnapInv'
  BY <1>14, <1>t
<1> QED
  BY <1>1, <1>2, <1>3, <1>4, <1>5, <1>6, <1>7, <1>8, <1>9, <1>10, <1>11,
     <1>12, <1>13, <1>14 DEF Next, vars, Tick, Register, HostSetsActive

-----------------------------------------------------------------------------
(* One live token per family: only login and rotation create a live row,   *)
(* one in a fresh family, the other in place of the token it revokes.      *)
LEMMA StepOneLive == IInv /\ [Next]_vars => OneLivePerFamily'
<1> SUFFICES ASSUME IInv, [Next]_vars PROVE OneLivePerFamily'
  OBVIOUS
<1> USE NoneAssumption
<1>t. TypeOK /\ LockInv /\ RowInv /\ OneLivePerFamily
  BY DEF IInv
<1> USE DEF OneLivePerFamily, Live, Exists
<1>1. ASSUME NEW t \in Tokens, Logout(t) PROVE OneLivePerFamily'
  BY <1>1, <1>t DEF Logout, TypeOK, Row
<1>2. ASSUME NEW r \in Requests, NEW t \in Tokens, LoginHit(r, t)
      PROVE OneLivePerFamily'
  BY <1>2, <1>t DEF LoginHit, LoginHitWrites, TypeOK, RowInv
<1>3. ASSUME NEW r \in Requests, RotateInactive(r) PROVE OneLivePerFamily'
  BY <1>3, <1>t DEF RotateInactive, TypeOK, LockInv, Row
<1>4. ASSUME NEW r \in Requests, ReplayCommit(r) PROVE OneLivePerFamily'
  BY <1>4, <1>t DEF ReplayCommit, TypeOK, Row
<1>5. ASSUME NEW r \in Requests, NEW n \in Tokens, RotateCommit(r, n)
      PROVE OneLivePerFamily'
  BY <1>5, <1>t DEF RotateCommit, RotateCommitWrites, TypeOK, LockInv, Row
<1>6. ASSUME UNCHANGED row PROVE OneLivePerFamily'
  BY <1>6, <1>t
<1> QED
  BY <1>1, <1>2, <1>3, <1>4, <1>5, <1>6
     DEF Next, vars, db, Tick, Register, HostSetsActive, LoginSelect,
         LoginRefused, LoginMiss, RotateIssue, ReplaySnapshot, Abort,
         RefreshReplay, RefreshAccept, RefreshSelect, CleanupRow, RevokeRow

(* The stored counter: login writes back what it read, plus one or zero,   *)
(* and LockInv says that what it read is still there.                      *)
LEMMA StepCounter == IInv /\ [Next]_vars => CounterExact'
<1> SUFFICES ASSUME IInv, [Next]_vars PROVE CounterExact'
  OBVIOUS
<1> USE NoneAssumption
<1>t. TypeOK /\ LockInv /\ CounterExact
  BY DEF IInv
<1> USE DEF CounterExact
<1>1. ASSUME NEW u \in Users, Register(u) PROVE CounterExact'
  BY <1>1, <1>t DEF Register, TypeOK
<1>2. ASSUME NEW u \in Users, HostSetsActive(u) PROVE CounterExact'
  <2>1. PICK a \in Account :
          /\ user' = [user EXCEPT ![u] = a]
          /\ user[u] \in Account /\ a.fails = user[u].fails
          /\ UserFree(u)
          /\ UNCHANGED <<now, row, minted, pc, who, tgt, held, stamp, seen,
                         todo, snap, misses>>
    BY <1>2, <1>t, HostWrites
  <2> QED
    BY <2>1, <1>t DEF TypeOK
<1>3. ASSUME NEW r \in Requests, LoginMiss(r) PROVE CounterExact'
  <2>1. who[r] \in Users
    BY <1>3, <1>t, MissWrites
  <2>2. PICK a \in Account :
          /\ user' = [user EXCEPT ![who[r]] = a]
          /\ user[who[r]] \in Account
          /\ a.fails = user[who[r]].fails + 1
    BY <1>3, <1>t, MissWrites
  <2>3. /\ pc[r] = "verify" /\ Finish(r)
        /\ misses' = [misses EXCEPT ![who[r]] = @ + 1]
        /\ UNCHANGED <<row, minted>>
    BY <1>3, <1>t, MissWrites
  <2> QED
    BY <2>1, <2>2, <2>3, <1>t DEF TypeOK
<1>4. ASSUME NEW r \in Requests, NEW t \in Tokens, LoginHit(r, t)
      PROVE CounterExact'
  <2>1. who[r] \in Users
    BY <1>4, <1>t, HitWrites
  <2>2. PICK a \in Account :
          /\ user' = [user EXCEPT ![who[r]] = a]
          /\ user[who[r]] \in Account /\ a.fails = 0
    BY <1>4, <1>t, HitWrites
  <2>3. PICK w \in Row : row' = [row EXCEPT ![t] = w] /\ w.family = t
                          /\ w.owner = who[r] /\ ~w.revoked
    BY <1>4, <1>t, HitWrites
  <2>4. /\ pc[r] = "verify" /\ Finish(r)
        /\ t \notin minted /\ minted' = minted \cup {t}
        /\ misses' = [misses EXCEPT ![who[r]] = 0]
    BY <1>4, <1>t, HitWrites
  <2> QED
    BY <2>1, <2>2, <2>3, <2>4, <1>t DEF TypeOK
<1>5. ASSUME UNCHANGED <<user, misses>> PROVE CounterExact'
  BY <1>5, <1>t
<1>6. ASSUME NEW r \in Requests, NEW t \in Tokens, RotateCommit(r, t)
      PROVE UNCHANGED <<user, misses>>
  BY <1>6 DEF RotateCommit, RotateCommitWrites
<1>7. ASSUME NEW r \in Requests, RotateInactive(r) \/ ReplayCommit(r)
      PROVE UNCHANGED <<user, misses>>
  BY <1>7 DEF RotateInactive, ReplayCommit
<1> QED
  BY <1>1, <1>2, <1>3, <1>4, <1>5, <1>6, <1>7
     DEF Next, vars, db, Tick, Logout, LoginSelect, LoginRefused, RotateIssue,
         ReplaySnapshot, Abort, RefreshReplay, RefreshAccept, RefreshSelect,
         CleanupRow, RevokeRow

-----------------------------------------------------------------------------
(* The inductive invariant holds in every reachable state. *)
THEOREM Invariance == Spec => []IInv
<1>1. IInv /\ [Next]_vars => IInv'
  BY StepType, StepLock, StepRow, StepSnap, StepOneLive, StepCounter DEF IInv
<1> QED
  BY InitInv, <1>1, PTL DEF Spec

(* Type correctness of every reachable state. *)
THEOREM TypeCorrect == Spec => []TypeOK
BY Invariance, PTL DEF IInv

(* A row has one locker, and what a request has read FOR UPDATE is what    *)
(* the row still holds, until the request commits.                         *)
THEOREM LocksHeld == Spec => []LockInv
BY Invariance, PTL DEF IInv

(* README, Security behavior: row locks prevent double rotation, so a      *)
(* family never has two tokens that can be rotated.                        *)
THEOREM NoDoubleRotation == Spec => []OneLivePerFamily
BY Invariance, PTL DEF IInv

(* Same line: row locks prevent lost updates of the failed-login counter.  *)
THEOREM NoLostMiss == Spec => []CounterExact
BY Invariance, PTL DEF IInv

-----------------------------------------------------------------------------
(* Whoever is issued a token was not locked out, and is active, at the     *)
(* commit: both were read under the account's lock, which is still held.   *)

LEMMA IssueStep ==
  ASSUME IInv, [Next]_vars, NEW t \in minted' \ minted
  PROVE  /\ row'[t].family = t => ~Locked(user[row'[t].owner], now)
         /\ user[row'[t].owner].active
<1> USE NoneAssumption
<1>t. TypeOK /\ LockInv /\ RowInv
  BY DEF IInv
<1>1. ASSUME NEW r \in Requests, NEW x \in Tokens, LoginHit(r, x)
      PROVE  /\ ~Locked(user[row'[t].owner], now)
             /\ user[row'[t].owner].active
  <2>1. /\ pc[r] = "verify" /\ ~Refused(r) /\ t = x
        /\ row'[x].owner = who[r]
    BY <1>1, <1>t DEF LoginHit, LoginHitWrites, TypeOK
  <2>2. seen[r] = user[who[r]] /\ seen[r] \in Account /\ stamp[r] <= now
    BY <2>1, <1>t DEF LockInv, TypeOK
  <2> QED
    BY <2>1, <2>2, <1>t DEF Refused, Locked, Account, TypeOK
<1>2. ASSUME NEW r \in Requests, NEW n \in Tokens, RotateCommit(r, n)
      PROVE  row'[t].family # t /\ user[row'[t].owner].active
  <2>0. row'[n] = [owner |-> who[r], family |-> row[tgt[r]].family,
                   revoked |-> FALSE, exp |-> stamp[r]]
    <3>1. n \notin minted /\ n # tgt[r]
      BY <1>2, <1>t
      DEF RotateCommit, RotateCommitWrites, LockInv, RowInv, TypeOK, Live
    <3> QED
      BY <3>1, <1>2 DEF RotateCommit, RotateCommitWrites
  <2>1. /\ pc[r] = "cleanup" /\ t = n /\ n \notin minted
        /\ row'[n].owner = who[r] /\ row'[n].family = row[tgt[r]].family
    BY <2>0, <1>2 DEF RotateCommit, RotateCommitWrites
  <2>2. row[tgt[r]].family \in minted /\ user[who[r]].active
    BY <2>1, <1>t DEF LockInv, RowInv, TypeOK, Live
  <2> QED
    BY <2>1, <2>2
<1>3. CASE \E r \in Requests, x \in Tokens : LoginHit(r, x)
  BY <1>3, <1>1
<1>4. CASE \E r \in Requests, n \in Tokens : RotateCommit(r, n)
  BY <1>4, <1>2
<1>5. ASSUME NEW r \in Requests, RotateInactive(r) \/ ReplayCommit(r)
      PROVE  minted' = minted
  BY <1>5 DEF RotateInactive, ReplayCommit
<1> QED
  BY <1>3, <1>4, <1>5
     DEF Next, vars, db, Tick, Register, HostSetsActive, Logout, LoginSelect,
         LoginRefused, LoginMiss, RotateIssue, ReplaySnapshot, Abort,
         RefreshReplay, RefreshAccept, RefreshSelect, CleanupRow, RevokeRow

(* No login commits while the account's lockout runs. *)
THEOREM LockoutSafe == Spec => LockoutHolds
<1>1. IInv /\ [Next]_vars =>
        [\A t \in minted' \ minted : row'[t].family = t =>
           ~Locked(user[row'[t].owner], now)]_vars
  BY IssueStep
<1> QED
  BY <1>1, Invariance, PTL DEF Spec, LockoutHolds

(* No token is issued to an account that is disabled by then. *)
THEOREM IssueSafe == Spec => IssueToActive
<1>1. IInv /\ [Next]_vars =>
        [\A t \in minted' \ minted : user[row'[t].owner].active]_vars
  BY IssueStep
<1> QED
  BY <1>1, Invariance, PTL DEF Spec, IssueToActive

(* A replay commits only when every row its UPDATE matched is dead. *)
THEOREM ReplaySafe == Spec => ReplayKillsMatched
<1>1. ASSUME IInv, NEW r \in Requests, ReplayCommit(r), NEW x \in snap[r]
      PROVE  row'[x] = None \/ row'[x].revoked
  <2>1. /\ x \in Tokens /\ row[x] \in Row \cup {None}
        /\ x \in held[r] \/ ~Live(x)
        /\ row'[x] = IF x \in held[r] /\ Exists(x)
                      THEN [row[x] EXCEPT !.revoked = TRUE] ELSE row[x]
    BY <1>1 DEF IInv, TypeOK, SnapInv, ReplayCommit
  <2> QED
    BY <2>1 DEF Live, Exists, Row
<1>2. IInv /\ [Next]_vars =>
        [\A r \in Requests : ReplayCommit(r) =>
           \A x \in snap[r] : row'[x] = None \/ row'[x].revoked]_vars
  BY <1>1
<1> QED
  BY <1>2, Invariance, PTL DEF Spec, ReplayKillsMatched

-----------------------------------------------------------------------------
(* Refinement: the commits of login, rotation, logout and replay are the   *)
(* steps of TokenFamilies, and every other step leaves the live set alone. *)

LiveSet == {<<row[t].family, t>> : t \in {x \in Tokens : Live(x)}}

LEMMA LiveMember ==
  \A p : p \in LiveSet <=>
    \E t \in Tokens : Live(t) /\ p = <<row[t].family, t>>
BY DEF LiveSet

LEMMA LiveMemberNext ==
  \A p : p \in LiveSet' <=>
    \E t \in Tokens : Live(t)' /\ p = <<row'[t].family, t>>
BY DEF LiveSet

(* A step that only takes tokens of one family out of the live set. *)
LEMMA ClosesFamily ==
  ASSUME IInv, NEW f \in Tokens, minted' = minted,
         \A x \in Tokens :
           Live(x)' => Live(x) /\ row'[x].family = row[x].family,
         \A x \in Tokens : Live(x) /\ ~Live(x)' => row[x].family = f
  PROVE  Families!Close(f)
<1>1. LiveSet' \subseteq LiveSet
  BY LiveMember, LiveMemberNext
<1>2. LiveSet \ LiveSet' \subseteq {f} \X Tokens
  <2> SUFFICES ASSUME NEW p \in LiveSet, p \notin LiveSet'
               PROVE  p \in {f} \X Tokens
    OBVIOUS
  <2>1. PICK t \in Tokens : Live(t) /\ p = <<row[t].family, t>>
    BY LiveMember
  <2>2. ~Live(t)'
    BY <2>1, LiveMemberNext
  <2> QED
    BY <2>1, <2>2
<1> QED
  BY <1>1, <1>2 DEF Families!Close, LiveSet

LEMMA LoginOpens ==
  ASSUME IInv, NEW r \in Requests, NEW t \in Tokens, LoginHit(r, t)
  PROVE  Families!Open(t)
<1>1. PICK w \in Row : row' = [row EXCEPT ![t] = w] /\ w.family = t
                        /\ ~w.revoked
  BY HitWrites DEF IInv
<1>2. t \notin minted /\ minted' = minted \cup {t} /\ ~Live(t)
  BY DEF LoginHit, LoginHitWrites, IInv, RowInv, Live
<1>3. Live(t)' /\ row'[t].family = t
  BY <1>1, NoneAssumption DEF IInv, TypeOK, Live, Exists
<1>4. \A x \in Tokens \ {t} : row'[x] = row[x]
  BY <1>1 DEF IInv, TypeOK
<1>5. LiveSet' = LiveSet \cup {<<t, t>>}
  <2>1. ASSUME NEW p \in LiveSet' PROVE p \in LiveSet \cup {<<t, t>>}
    BY <1>3, <1>4, LiveMember, LiveMemberNext DEF Live, Exists
  <2>2. ASSUME NEW p \in LiveSet PROVE p \in LiveSet'
    BY <1>2, <1>4, LiveMember, LiveMemberNext DEF Live, Exists
  <2>3. <<t, t>> \in LiveSet'
    BY <1>3, LiveMemberNext
  <2> QED
    BY <2>1, <2>2, <2>3
<1> QED
  BY <1>2, <1>5 DEF Families!Open, LiveSet

LEMMA RotationRotates ==
  ASSUME IInv, NEW r \in Requests, NEW n \in Tokens, RotateCommit(r, n)
  PROVE  \E f, t \in Tokens : Families!Rotate(f, t, n)
<1>0. PICK t \in Tokens, f \in Tokens : t = tgt[r] /\ f = row[t].family
  BY NoneAssumption
     DEF RotateCommit, RotateCommitWrites, IInv, TypeOK, LockInv, Live,
         Exists, Row
<1>1. /\ t \in Tokens /\ t \in held[r] /\ Live(t) /\ row[t] \in Row
      /\ n \notin minted /\ n # t /\ minted' = minted \cup {n}
  BY <1>0, NoneAssumption
     DEF RotateCommit, RotateCommitWrites, IInv, TypeOK, LockInv, RowInv,
         Live, Exists
<1>2. /\ row'[n] = [owner |-> who[r], family |-> f, revoked |-> FALSE,
                    exp |-> stamp[r]]
      /\ row'[t] = [row[t] EXCEPT !.revoked = TRUE]
      /\ \A x \in Tokens \ {n, t} : row'[x] = None \/ row'[x] = row[x]
  BY <1>0, <1>1 DEF RotateCommit, RotateCommitWrites
<1>3. Live(n)' /\ row'[n].family = f
  <2>1. who[r] \in Users /\ stamp[r] \in Nat
    BY NoneAssumption, <1>0, <1>1
    DEF RotateCommit, RotateCommitWrites, IInv, TypeOK, LockInv, Row
  <2>2. row'[n] \in Row /\ ~row'[n].revoked /\ row'[n].family = f
    BY <2>1, <1>2 DEF Row
  <2>3. row'[n] # None
    BY <2>2, NoneAssumption
  <2> QED
    BY <2>2, <2>3 DEF Live, Exists
<1>4. ~Live(t)'
  <2>1. row'[t].revoked
    BY <1>1, <1>2 DEF Row
  <2> QED
    BY <2>1 DEF Live
<1>5. ASSUME NEW p \in LiveSet' PROVE p \in LiveSet \cup {<<f, n>>}
  <2>1. PICK x \in Tokens : Live(x)' /\ p = <<row'[x].family, x>>
    BY LiveMemberNext
  <2>2. CASE x = n
    BY <2>1, <2>2, <1>3
  <2>3. CASE x # n
    <3>1. row'[x] = row[x]
      BY <2>1, <2>3, <1>2, <1>4 DEF Live, Exists
    <3>2. Live(x) /\ p = <<row[x].family, x>>
      BY <2>1, <3>1 DEF Live, Exists
    <3> QED
      BY <3>2, LiveMember
  <2> QED
    BY <2>2, <2>3
<1>6. <<f, n>> \in LiveSet' /\ <<f, t>> \in LiveSet
  BY <1>0, <1>1, <1>3, LiveMember, LiveMemberNext
<1>7. <<f, t>> \notin LiveSet'
  BY <1>4, LiveMemberNext
<1>8. LiveSet' = (LiveSet \ ((LiveSet \ LiveSet') \cup {<<f, t>>}))
                   \cup {<<f, n>>}
  BY <1>5, <1>6, <1>7
<1>9. \E dropped \in SUBSET LiveSet :
        LiveSet' = (LiveSet \ (dropped \cup {<<f, t>>})) \cup {<<f, n>>}
  BY <1>8
<1> QED
  BY <1>1, <1>6, <1>9 DEF Families!Rotate, LiveSet

LEMMA RefinementStep ==
  IInv /\ [Next]_vars => [Families!Next]_<<minted, LiveSet>>
<1> SUFFICES ASSUME IInv, [Next]_vars
             PROVE  Families!Next \/ UNCHANGED <<minted, LiveSet>>
  OBVIOUS
<1>1. ASSUME NEW t \in Tokens, Logout(t) PROVE Families!Next
  <2>1. PICK f \in Tokens : row[t] \in Row /\ row[t].family = f
    BY <1>1 DEF Logout, Live, Exists, IInv, TypeOK, Row
  <2>2. /\ \A x \in Tokens \ {t} : row'[x] = row[x]
        /\ row'[t].revoked /\ minted' = minted
    BY <1>1, <2>1 DEF Logout, IInv, TypeOK, Row
  <2>3. /\ \A x \in Tokens :
             Live(x)' => Live(x) /\ row'[x].family = row[x].family
        /\ \A x \in Tokens : Live(x) /\ ~Live(x)' => row[x].family = f
    BY <2>1, <2>2 DEF Live, Exists
  <2>4. Families!Close(f)
    BY <2>2, <2>3, ClosesFamily
  <2> QED
    BY <2>4 DEF Families!Next
<1>2. ASSUME NEW r \in Requests, RotateInactive(r) PROVE Families!Next
  <2>1. PICK f \in Tokens :
          tgt[r] \in Tokens /\ row[tgt[r]] \in Row /\ row[tgt[r]].family = f
    BY <1>2, NoneAssumption
       DEF RotateInactive, Live, Exists, IInv, TypeOK, LockInv, Row
  <2>2. /\ \A x \in Tokens \ {tgt[r]} : row'[x] = row[x]
        /\ row'[tgt[r]].revoked /\ minted' = minted
    BY <1>2, <2>1 DEF RotateInactive, IInv, TypeOK, Row
  <2>3. /\ \A x \in Tokens :
             Live(x)' => Live(x) /\ row'[x].family = row[x].family
        /\ \A x \in Tokens : Live(x) /\ ~Live(x)' => row[x].family = f
    BY <2>1, <2>2 DEF Live, Exists
  <2>4. Families!Close(f)
    BY <2>2, <2>3, ClosesFamily
  <2> QED
    BY <2>4 DEF Families!Next
<1>3. ASSUME NEW r \in Requests, ReplayCommit(r) PROVE Families!Next
  <2>1. PICK f \in Tokens :
          /\ tgt[r] \in Tokens /\ row[tgt[r]] \in Row /\ ~Live(tgt[r])
          /\ row[tgt[r]].family = f
    BY <1>3, NoneAssumption
       DEF ReplayCommit, Live, Exists, IInv, TypeOK, LockInv, Row
  <2>2. \A x \in Tokens \ held[r] : row'[x] = row[x]
    BY <1>3 DEF ReplayCommit
  <2>3. ASSUME NEW x \in held[r], x \in Tokens
        PROVE ~Live(x)'
    <3>1. row[x] \in Row \cup {None}
      BY <2>3 DEF IInv, TypeOK
    <3> QED
      BY <1>3, <2>3, <3>1 DEF ReplayCommit, Live, Exists, Row
  <2>4. \A x \in held[r] : Live(x) => row[x].family = f
    BY <1>3, <2>1 DEF ReplayCommit, IInv, SnapInv
  <2>5. minted' = minted
    BY <1>3 DEF ReplayCommit
  <2>6. /\ \A x \in Tokens :
             Live(x)' => Live(x) /\ row'[x].family = row[x].family
        /\ \A x \in Tokens : Live(x) /\ ~Live(x)' => row[x].family = f
    BY <2>2, <2>3, <2>4 DEF Live, Exists
  <2>7. Families!Close(f)
    BY <2>5, <2>6, ClosesFamily
  <2> QED
    BY <2>7 DEF Families!Next
<1>4. ASSUME NEW r \in Requests, NEW t \in Tokens, LoginHit(r, t)
      PROVE Families!Next
  BY <1>4, LoginOpens DEF Families!Next
<1>5. ASSUME NEW r \in Requests, NEW n \in Tokens, RotateCommit(r, n)
      PROVE Families!Next
  BY <1>5, RotationRotates DEF Families!Next
<1>6. ASSUME UNCHANGED <<row, minted>> PROVE UNCHANGED <<minted, LiveSet>>
  BY <1>6 DEF LiveSet, Live, Exists
<1> QED
  BY <1>1, <1>2, <1>3, <1>4, <1>5, <1>6
     DEF Next, vars, db, Tick, Register, HostSetsActive, LoginSelect,
         LoginRefused, LoginMiss, RotateIssue, ReplaySnapshot, Abort,
         RefreshReplay, RefreshAccept, RefreshSelect, CleanupRow, RevokeRow

(* Login, rotation, logout and replay implement token families. *)
THEOREM Refinement == Spec => ImplementsFamilies
<1>1. Init => Families!Init
  BY DEF Init, Families!Init, Live, Exists
<1>2. IInv /\ [Next]_vars => [Families!Next]_<<minted, LiveSet>>
  BY RefinementStep
<1> QED
  BY <1>1, <1>2, Invariance, PTL
     DEF Spec, ImplementsFamilies, Families!Spec, LiveSet
=============================================================================
