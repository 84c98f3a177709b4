--------------------------- MODULE Licensing_proofs ---------------------------
(* Proofs about Licensing, for every finite set of keys and of checks, any *)
(* number of issuances, and every bound, level and number of faults.       *)
EXTENDS Licensing, FiniteSetTheorems, TLAPS

(* What issue_license may rely on between two calls of the store. *)
AtIssue(i) ==
  /\ pc[i] = "insert" => source[i] \in Source
  /\ pc[i] = "claim" => source[i] = "pool" /\ claimed[i] = None
  /\ pc[i] = "idle" => claimed[i] = None
  /\ claimed[i] # None => pc[i] = "insert" /\ source[i] = "pool"
  /\ pc[i] = "insert" /\ source[i] = "pool" => claimed[i] # None
IssueInv == \A i \in Issuers : AtIssue(i)

(* Checks that have seen a trial with a run left and have not counted it.  *)
Counting(k) == {c \in Checkers : check[c] = k /\ seen[c] # None}

(* Each of them may still count a run. *)
TrialInv(k) ==
  /\ Counting(k) # {} => runs[k] # None
  /\ runs[k] = None => started[k] = 0
  /\ runs[k] # None =>
       /\ started[k] <= runs[k]
       /\ runs[k] + Cardinality(Counting(k)) < MaxRuns + Cardinality(Checkers)
CheckInv ==
  /\ \A c \in Checkers : seen[c] # None => check[c] # None
  /\ \A k \in Keys : TrialInv(k)

(* The inductive invariant. *)
IInv == TypeOK /\ IssueInv /\ PoolKeyOnce /\ NothingLost /\ CheckInv

-----------------------------------------------------------------------------
LEMMA InitInv == Init => IInv
<1> SUFFICES ASSUME Init PROVE IInv
  OBVIOUS
<1> USE LicensingAssumption DEF Init
<1>1. TypeOK
  <2>1. 0 \in 0..MaxFaults /\ 0 \in 0..MaxAttempts - 1
    OBVIOUS
  <2>2. /\ runs \in [Keys -> Nat \cup {None}]
        /\ seen \in [Checkers -> Nat \cup {None}]
        /\ started \in [Keys -> Nat]
        /\ tries \in [Issuers -> 0..MaxAttempts - 1]
    BY <2>1
  <2> QED
    BY <2>1, <2>2 DEF TypeOK
<1>2. IssueInv
  BY DEF IssueInv, AtIssue
<1>3. PoolKeyOnce
  <2>1. \A k \in Keys : Claims(k) = {}
    BY DEF Claims
  <2> QED
    BY <2>1 DEF PoolKeyOnce
<1>4. NothingLost
  <2>1. Burnt = {} /\ Orphans = {}
    BY DEF Burnt, Orphans
  <2>2. Cardinality(Burnt) = 0 /\ Cardinality(Orphans) = 0
    BY <2>1, FS_EmptySet
  <2> QED
    BY <2>2 DEF NothingLost
<1>5. CheckInv
  <2>1. \A k \in Keys : Counting(k) = {}
    BY DEF Counting
  <2> QED
    BY <2>1 DEF CheckInv, TrialInv
<1> QED
  BY <1>1, <1>2, <1>3, <1>4, <1>5 DEF IInv

-----------------------------------------------------------------------------
(* What a step may do to the keys that are lost. *)

LEMMA LostFinite ==
  /\ IsFiniteSet(Burnt) /\ IsFiniteSet(Orphans)
  /\ Cardinality(Burnt) \in Nat /\ Cardinality(Orphans) \in Nat
BY LicensingAssumption, FS_Subset, FS_CardinalityType DEF Burnt, Orphans

LEMMA NoMoreLost ==
  ASSUME IInv, Burnt' \subseteq Burnt, Orphans' \subseteq Orphans,
         level' = level, faults' = faults
  PROVE  NothingLost'
<1>1. /\ Cardinality(Burnt') <= Cardinality(Burnt)
      /\ Cardinality(Orphans') <= Cardinality(Orphans)
      /\ Cardinality(Burnt') \in Nat /\ Cardinality(Orphans') \in Nat
  BY LostFinite, FS_Subset, FS_CardinalityType
<1> QED
  BY <1>1, LostFinite DEF IInv, TypeOK, NothingLost

LEMMA OneMore ==
  ASSUME NEW S, NEW T, NEW k, IsFiniteSet(S), T \subseteq S \cup {k}
  PROVE  /\ IsFiniteSet(T) /\ Cardinality(T) \in Nat
         /\ Cardinality(T) <= Cardinality(S) + 1
<1>1. /\ IsFiniteSet(S \cup {k}) /\ Cardinality(S) \in Nat
      /\ Cardinality(S \cup {k}) <= Cardinality(S) + 1
  BY FS_AddElement, FS_CardinalityType
<1>2. /\ IsFiniteSet(T) /\ Cardinality(T) \in Nat
      /\ Cardinality(S \cup {k}) \in Nat
      /\ Cardinality(T) <= Cardinality(S \cup {k})
  BY <1>1, FS_Subset, FS_CardinalityType
<1> QED
  BY <1>1, <1>2

LEMMA OneLost ==
  ASSUME IInv, Fault, level' = level, NEW k,
         \/ Burnt' \subseteq Burnt \cup {k} /\ Orphans' \subseteq Orphans
         \/ Burnt' \subseteq Burnt /\ Orphans' \subseteq Orphans \cup {k}
  PROVE  NothingLost'
<1>1. /\ Cardinality(Burnt') \in Nat /\ Cardinality(Orphans') \in Nat
      /\ \/ /\ Cardinality(Burnt') <= Cardinality(Burnt) + 1
            /\ Cardinality(Orphans') <= Cardinality(Orphans)
         \/ /\ Cardinality(Burnt') <= Cardinality(Burnt)
            /\ Cardinality(Orphans') <= Cardinality(Orphans) + 1
  <2>1. CASE Burnt' \subseteq Burnt \cup {k} /\ Orphans' \subseteq Orphans
    BY <2>1, LostFinite, OneMore, FS_Subset, FS_CardinalityType
  <2>2. CASE Burnt' \subseteq Burnt /\ Orphans' \subseteq Orphans \cup {k}
    BY <2>2, LostFinite, OneMore, FS_Subset, FS_CardinalityType
  <2> QED
    BY <2>1, <2>2
<1> QED
  BY <1>1, LostFinite DEF IInv, TypeOK, NothingLost, Fault

-----------------------------------------------------------------------------
(* What steps leave alone. *)

LEMMA LostKeep ==
  ASSUME IInv, UNCHANGED <<pool, license, claimed, issued, level, faults>>
  PROVE  NothingLost'
BY NoMoreLost DEF Burnt, Orphans, Claims

LEMMA TrialsKeep ==
  ASSUME IInv, UNCHANGED trials
  PROVE  CheckInv'
<1> USE DEF trials
<1>1. ASSUME NEW k \in Keys PROVE TrialInv(k)'
  <2>1. TrialInv(k) /\ Counting(k)' = Counting(k)
    BY DEF IInv, CheckInv, Counting
  <2> QED
    BY <2>1 DEF TrialInv
<1> QED
  BY <1>1 DEF CheckInv, IInv

LEMMA CallsKeep ==
  ASSUME IInv, UNCHANGED <<pool, license, calls, level, faults>>
  PROVE  IssueInv' /\ PoolKeyOnce' /\ NothingLost'
<1> USE DEF calls
<1>1. IssueInv'
  BY DEF IInv, IssueInv, AtIssue
<1>2. PoolKeyOnce'
  BY DEF IInv, PoolKeyOnce, Claims
<1> QED
  BY <1>1, <1>2, LostKeep

(* A call of issue_license that ends has no claim any more. *)
LEMMA Ended ==
  ASSUME IInv, NEW i \in Issuers, Finish(i)
  PROVE  /\ pc' \in [Issuers -> {"idle", "claim", "insert"}]
         /\ source' \in [Issuers -> Source \cup {None}]
         /\ claimed' \in [Issuers -> Keys \cup {None}]
         /\ tries' \in [Issuers -> 0..MaxAttempts - 1]
         /\ IssueInv'
         /\ \A k \in Keys : Claims(k)' = Claims(k) \ {i}
<1> USE DEF Finish
<1>1. /\ pc' \in [Issuers -> {"idle", "claim", "insert"}]
      /\ source' \in [Issuers -> Source \cup {None}]
      /\ claimed' \in [Issuers -> Keys \cup {None}]
  BY DEF IInv, TypeOK
<1>2. tries' \in [Issuers -> 0..MaxAttempts - 1]
  <2>1. 0 \in 0..MaxAttempts - 1
    BY LicensingAssumption
  <2> QED
    BY <2>1 DEF IInv, TypeOK
<1>3. IssueInv'
  BY DEF IInv, TypeOK, IssueInv, AtIssue
<1>4. \A k \in Keys : Claims(k)' = Claims(k) \ {i}
  BY LicensingAssumption DEF IInv, TypeOK, Claims
<1> QED
  BY <1>1, <1>2, <1>3, <1>4

(* Claims are given back, pool keys stay assigned, and a new license from  *)
(* the pool has the key of a claim that is given back.                     *)
LEMMA Released ==
  ASSUME IInv, NEW i \in Issuers,
         \A k \in Keys : Claims(k)' = Claims(k) \ {i},
         \A k \in Keys : pool[k] = "assigned" => pool'[k] = "assigned",
         \A k \in Keys : license'[k] # None /\ license'[k].source = "pool" =>
           \/ license[k] # None /\ license[k].source = "pool"
           \/ i \in Claims(k)
  PROVE  PoolKeyOnce'
<1> SUFFICES ASSUME NEW k \in Keys
             PROVE  /\ \A h, j \in Claims(k)' : h = j
                    /\ Claims(k)' # {} => pool'[k] = "assigned"
                    /\ license'[k] # None /\ license'[k].source = "pool" =>
                         pool'[k] = "assigned" /\ Claims(k)' = {}
  BY DEF PoolKeyOnce
<1>1. /\ \A h, j \in Claims(k) : h = j
      /\ Claims(k) # {} => pool[k] = "assigned"
      /\ license[k] # None /\ license[k].source = "pool" =>
           pool[k] = "assigned" /\ Claims(k) = {}
  BY DEF IInv, PoolKeyOnce
<1>2. Claims(k)' = Claims(k) \ {i}
  OBVIOUS
<1>3. license'[k] # None /\ license'[k].source = "pool" =>
        pool'[k] = "assigned" /\ Claims(k)' = {}
  BY <1>1, <1>2
<1> QED
  BY <1>1, <1>2, <1>3

-----------------------------------------------------------------------------
(* Each action. *)

LEMMA AddToPoolStep ==
  ASSUME IInv, NEW k \in Keys, AddToPool(k)
  PROVE  IInv'
<1> USE DEF AddToPool, trials, calls
<1>1. TypeOK'
  BY DEF IInv, TypeOK
<1>2. \A j \in Keys : pool[j] = "assigned" <=> pool'[j] = "assigned"
  BY DEF IInv, TypeOK
<1>3. \A j \in Keys : Claims(j)' = Claims(j)
  BY DEF Claims
<1>4. PoolKeyOnce'
  BY <1>2, <1>3 DEF IInv, PoolKeyOnce
<1>5. Burnt' \subseteq Burnt /\ Orphans' \subseteq Orphans
  BY <1>2, <1>3 DEF Burnt, Orphans
<1>6. IssueInv'
  BY DEF IInv, IssueInv, AtIssue
<1> QED
  BY <1>1, <1>4, <1>5, <1>6, NoMoreLost, TrialsKeep DEF IInv

LEMMA IssueStep ==
  ASSUME IInv, NEW i \in Issuers, NEW s \in Source, Issue(i, s)
  PROVE  IInv'
<1> USE DEF Issue, trials
<1>1. TypeOK'
  BY DEF IInv, TypeOK
<1>2. claimed' = claimed /\ claimed[i] = None
  BY DEF IInv, IssueInv, AtIssue
<1>3. \A j \in Issuers : AtIssue(j)'
  <2> SUFFICES ASSUME NEW j \in Issuers PROVE AtIssue(j)'
    OBVIOUS
  <2>1. AtIssue(j)
    BY DEF IInv, IssueInv
  <2>2. CASE j = i
    BY <1>2, <2>2 DEF AtIssue, Source, IInv, TypeOK
  <2>3. CASE j # i
    BY <2>1, <2>3 DEF AtIssue, IInv, TypeOK
  <2> QED
    BY <2>2, <2>3
<1>4. PoolKeyOnce'
  BY <1>2 DEF IInv, PoolKeyOnce, Claims
<1> QED
  BY <1>1, <1>2, <1>3, <1>4, LostKeep, TrialsKeep DEF IInv, IssueInv

LEMMA ClaimStep ==
  ASSUME IInv, NEW i \in Issuers, Claim(i)
  PROVE  IInv'
<1> USE DEF Claim, trials
<1>1. PICK k \in Keys :
        /\ pool[k] = "free"
        /\ pool' = [pool EXCEPT ![k] = "assigned"]
        /\ claimed' = [claimed EXCEPT ![i] = k]
  OBVIOUS
<1>2. TypeOK'
  BY <1>1 DEF IInv, TypeOK
<1>3. claimed[i] = None /\ source[i] = "pool" /\ k # None
  BY LicensingAssumption DEF IInv, IssueInv, AtIssue
<1>4. \A j \in Issuers : AtIssue(j)'
  <2> SUFFICES ASSUME NEW j \in Issuers PROVE AtIssue(j)'
    OBVIOUS
  <2>1. AtIssue(j)
    BY DEF IInv, IssueInv
  <2>2. CASE j = i
    BY <1>1, <1>3, <2>2 DEF AtIssue, Source, IInv, TypeOK
  <2>3. CASE j # i
    BY <1>1, <2>1, <2>3 DEF AtIssue, IInv, TypeOK
  <2> QED
    BY <2>2, <2>3
<1>5. /\ pool'[k] = "assigned" /\ Claims(k) = {} /\ Claims(k)' = {i}
      /\ license[k] # None => license[k].source # "pool"
  <2>1. Claims(k) = {} /\ (license[k] # None => license[k].source # "pool")
    BY <1>1 DEF IInv, PoolKeyOnce
  <2> QED
    BY <1>1, <2>1 DEF Claims, IInv, TypeOK
<1>6. \A j \in Keys \ {k} : pool'[j] = pool[j] /\ Claims(j)' = Claims(j)
  BY <1>1, <1>3, LicensingAssumption DEF Claims, IInv, TypeOK
<1>7. PoolKeyOnce'
  BY <1>5, <1>6 DEF IInv, PoolKeyOnce
<1>8. Burnt' \subseteq Burnt /\ Orphans' \subseteq Orphans
  BY <1>5, <1>6 DEF Burnt, Orphans
<1> QED
  BY <1>2, <1>4, <1>7, <1>8, NoMoreLost, TrialsKeep DEF IInv, IssueInv

LEMMA PoolEmptyStep ==
  ASSUME IInv, NEW i \in Issuers, PoolEmpty(i)
  PROVE  IInv'
<1> USE DEF PoolEmpty, trials
<1>1. TypeOK' /\ IssueInv'
  BY Ended DEF IInv, TypeOK
<1>2. claimed[i] = None
  BY DEF IInv, IssueInv, AtIssue
<1>3. \A k \in Keys : Claims(k)' = Claims(k) \ {i} /\ i \notin Claims(k)
  BY <1>2, Ended, LicensingAssumption DEF Claims
<1>4. PoolKeyOnce'
  BY <1>3, Released
<1>5. Burnt' \subseteq Burnt /\ Orphans' \subseteq Orphans
  BY <1>3 DEF Burnt, Orphans
<1> QED
  BY <1>1, <1>4, <1>5, NoMoreLost, TrialsKeep DEF IInv

LEMMA ClaimFailsStep ==
  ASSUME IInv, NEW i \in Issuers, ClaimFails(i)
  PROVE  IInv'
<1> USE DEF ClaimFails, trials
<1>1. PICK k : \/ pool' = pool
               \/ /\ k \in Keys /\ pool[k] = "free"
                  /\ pool' = [pool EXCEPT ![k] = "assigned"]
  OBVIOUS
<1>2. faults' \in 0..MaxFaults
  BY LicensingAssumption DEF Fault, IInv, TypeOK
<1>3. /\ pool' \in [Keys -> {"none", "free", "assigned"}]
      /\ \A j \in Keys : pool[j] = "assigned" => pool'[j] = "assigned"
      /\ \A j \in Keys : pool'[j] = "assigned" => pool[j] = "assigned" \/ j = k
  BY <1>1 DEF IInv, TypeOK
<1>4. TypeOK' /\ IssueInv'
  BY <1>2, <1>3, Ended DEF IInv, TypeOK
<1>5. claimed[i] = None
  BY DEF IInv, IssueInv, AtIssue
<1>6. \A j \in Keys : Claims(j)' = Claims(j) \ {i} /\ i \notin Claims(j)
  BY <1>5, Ended, LicensingAssumption DEF Claims
<1>7. PoolKeyOnce'
  BY <1>3, <1>6, Released
<1>8. Burnt' \subseteq Burnt \cup {k} /\ Orphans' \subseteq Orphans
  BY <1>3, <1>6 DEF Burnt, Orphans
<1> QED
  BY <1>4, <1>7, <1>8, OneLost, TrialsKeep DEF IInv

(* The key that a call inserts is the one it has claimed, or it has none.  *)
LEMMA InsertKey ==
  ASSUME IInv, NEW i \in Issuers, pc[i] = "insert", NEW k \in KeysOf(i)
  PROVE  /\ k \in Keys /\ source[i] \in Source
         /\ source[i] = "pool" => claimed[i] = k /\ i \in Claims(k)
         /\ source[i] # "pool" => claimed[i] = None
         /\ \A j \in Keys \ {k} : i \notin Claims(j)
<1>1. AtIssue(i) /\ claimed[i] \in Keys \cup {None}
  BY DEF IInv, IssueInv, TypeOK
<1>2. /\ k \in Keys /\ source[i] \in Source
      /\ source[i] = "pool" => claimed[i] = k
      /\ source[i] # "pool" => claimed[i] = None
  BY <1>1 DEF KeysOf, AtIssue
<1> QED
  BY <1>2, LicensingAssumption DEF Claims

LEMMA InsertedRow ==
  ASSUME IInv, NEW i \in Issuers, NEW k \in Keys, source[i] \in Source,
         Inserted(i, k)
  PROVE  /\ license' \in [Keys -> License \cup {None}]
         /\ license'[k] # None /\ license'[k].source = source[i]
         /\ \A j \in Keys \ {k} : license'[j] = license[j]
<1> DEFINE new == [status |-> "active", source |-> source[i]]
<1>1. new \in License /\ new # None
  BY LicensingAssumption DEF License
<1>2. license' = [license EXCEPT ![k] = new]
  BY DEF Inserted
<1> HIDE DEF new
<1>3. /\ license' \in [Keys -> License \cup {None}]
      /\ license'[k] = new
      /\ \A j \in Keys \ {k} : license'[j] = license[j]
  BY <1>1, <1>2 DEF IInv, TypeOK
<1>4. new.source = source[i]
  BY DEF new
<1> QED
  BY <1>1, <1>3, <1>4

LEMMA InsertStep ==
  ASSUME IInv, NEW i \in Issuers, Insert(i)
  PROVE  IInv'
<1> USE DEF Insert, trials
<1>1. PICK k \in KeysOf(i) :
        /\ license[k] = None /\ Inserted(i, k)
        /\ issued' = IF Raises(level, "INFO") THEN issued ELSE issued \cup {k}
  OBVIOUS
<1>2. /\ k \in Keys /\ source[i] \in Source
      /\ source[i] = "pool" => i \in Claims(k)
      /\ \A j \in Keys \ {k} : i \notin Claims(j)
  BY InsertKey
<1>3. /\ license' \in [Keys -> License \cup {None}]
      /\ license'[k] # None /\ license'[k].source = source[i]
      /\ \A j \in Keys \ {k} : license'[j] = license[j]
  BY <1>1, <1>2, InsertedRow
<1>4. TypeOK' /\ IssueInv'
  BY <1>1, <1>2, <1>3, Ended DEF IInv, TypeOK
<1>5. \A j \in Keys : Claims(j)' = Claims(j) \ {i}
  BY Ended
<1>6. PoolKeyOnce'
  BY <1>2, <1>3, <1>5, Released
<1>7. NothingLost'
  <2>1. CASE Raises(level, "INFO")
    BY <2>1 DEF NothingLost
  <2>2. CASE ~Raises(level, "INFO")
    <3>1. Burnt' \subseteq Burnt
      BY <1>2, <1>3, <1>5 DEF Burnt
    <3>2. issued' = issued \cup {k}
      BY <1>1, <2>2
    <3>3. Orphans' \subseteq Orphans
      BY <1>3, <3>2 DEF Orphans
    <3> QED
      BY <3>1, <3>3, NoMoreLost
  <2> QED
    BY <2>1, <2>2
<1> QED
  BY <1>4, <1>6, <1>7, TrialsKeep DEF IInv

(* The except branch keeps the call as it is, or ends it. *)
LEMMA CaughtCall ==
  ASSUME IInv, NEW i \in Issuers, pc[i] = "insert", Caught(i)
  PROVE  \/ Finish(i)
         \/ /\ source[i] # "pool" /\ UNCHANGED <<pc, source, claimed>>
            /\ tries' \in [Issuers -> 0..MaxAttempts - 1]
            /\ IssueInv'
<1>1. CASE \/ source[i] = "pool" \/ Raises(level, "WARNING")
           \/ tries[i] + 1 = MaxAttempts
  BY <1>1 DEF Caught
<1>2. CASE ~(\/ source[i] = "pool" \/ Raises(level, "WARNING")
             \/ tries[i] + 1 = MaxAttempts)
  <2>1. /\ tries' = [tries EXCEPT ![i] = @ + 1]
        /\ UNCHANGED <<pc, source, claimed>>
    BY <1>2 DEF Caught
  <2>2. tries[i] + 1 \in 0..MaxAttempts - 1
    BY <1>2, LicensingAssumption DEF IInv, TypeOK
  <2>3. tries' \in [Issuers -> 0..MaxAttempts - 1]
    BY <2>1, <2>2 DEF IInv, TypeOK
  <2>4. IssueInv'
    BY <2>1 DEF IInv, IssueInv, AtIssue
  <2> QED
    BY <1>2, <2>1, <2>3, <2>4
<1> QED
  BY <1>1, <1>2

LEMMA CaughtTypes ==
  ASSUME IInv, NEW i \in Issuers, pc[i] = "insert", Caught(i)
  PROVE  /\ pc' \in [Issuers -> {"idle", "claim", "insert"}]
         /\ source' \in [Issuers -> Source \cup {None}]
         /\ claimed' \in [Issuers -> Keys \cup {None}]
         /\ tries' \in [Issuers -> 0..MaxAttempts - 1]
         /\ IssueInv'
         /\ \A k \in Keys : Claims(k)' = Claims(k) \ {i}
<1>1. CASE Finish(i)
  BY <1>1, Ended
<1>2. CASE /\ source[i] # "pool" /\ UNCHANGED <<pc, source, claimed>>
           /\ tries' \in [Issuers -> 0..MaxAttempts - 1]
           /\ IssueInv'
  <2>1. AtIssue(i)
    BY DEF IInv, IssueInv
  <2>2. claimed[i] = None
    BY <1>2, <2>1 DEF AtIssue
  <2>3. \A k \in Keys : Claims(k)' = Claims(k) \ {i}
    BY <1>2, <2>2, LicensingAssumption DEF Claims
  <2> QED
    BY <1>2, <2>3 DEF IInv, TypeOK
<1> QED
  BY <1>1, <1>2, CaughtCall

LEMMA InsertCollidesStep ==
  ASSUME IInv, NEW i \in Issuers, InsertCollides(i)
  PROVE  IInv'
<1> USE DEF InsertCollides, trials
<1>1. PICK k \in KeysOf(i) : license[k] # None
  OBVIOUS
<1>2. k \in Keys /\ \A j \in Keys \ {k} : i \notin Claims(j)
  BY InsertKey
<1>3. TypeOK' /\ IssueInv'
  BY CaughtTypes DEF IInv, TypeOK
<1>4. \A j \in Keys : Claims(j)' = Claims(j) \ {i}
  BY CaughtTypes
<1>5. PoolKeyOnce'
  BY <1>4, Released
<1>6. Burnt' \subseteq Burnt /\ Orphans' \subseteq Orphans
  BY <1>1, <1>2, <1>4 DEF Burnt, Orphans
<1> QED
  BY <1>3, <1>5, <1>6, NoMoreLost, TrialsKeep DEF IInv

LEMMA InsertFailsStep ==
  ASSUME IInv, NEW i \in Issuers, InsertFails(i)
  PROVE  IInv'
<1> USE DEF InsertFails, trials
<1>1. faults' \in 0..MaxFaults
  BY LicensingAssumption DEF Fault, IInv, TypeOK
<1>2. \A j \in Keys : Claims(j)' = Claims(j) \ {i}
  BY CaughtTypes
<1>3. CASE license' = license
  <2>1. TypeOK' /\ IssueInv'
    BY <1>1, <1>3, CaughtTypes DEF IInv, TypeOK
  <2>2. PoolKeyOnce'
    BY <1>2, <1>3, Released
  <2>3. PICK k : \A j \in Keys : j # k => i \notin Claims(j)
    BY DEF Claims
  <2>4. Burnt' \subseteq Burnt \cup {k} /\ Orphans' \subseteq Orphans
    BY <1>2, <1>3, <2>3 DEF Burnt, Orphans
  <2> QED
    BY <2>1, <2>2, <2>4, OneLost, TrialsKeep DEF IInv
<1>4. CASE \E k \in KeysOf(i) : license[k] = None /\ Inserted(i, k)
  <2>1. PICK k \in KeysOf(i) : license[k] = None /\ Inserted(i, k)
    BY <1>4
  <2>2. /\ k \in Keys /\ source[i] \in Source
        /\ source[i] = "pool" => i \in Claims(k)
        /\ \A j \in Keys \ {k} : i \notin Claims(j)
    BY InsertKey
  <2>3. /\ license' \in [Keys -> License \cup {None}]
        /\ license'[k] # None /\ license'[k].source = source[i]
        /\ \A j \in Keys \ {k} : license'[j] = license[j]
    BY <2>1, <2>2, InsertedRow
  <2>4. TypeOK' /\ IssueInv'
    BY <1>1, <2>3, CaughtTypes DEF IInv, TypeOK
  <2>5. PoolKeyOnce'
    BY <1>2, <2>2, <2>3, Released
  <2>6. Burnt' \subseteq Burnt /\ Orphans' \subseteq Orphans \cup {k}
    BY <1>2, <2>2, <2>3 DEF Burnt, Orphans
  <2> QED
    BY <2>4, <2>5, <2>6, OneLost, TrialsKeep DEF IInv
<1> QED
  BY <1>3, <1>4

LEMMA RevokeStep ==
  ASSUME IInv, NEW k \in Keys, Revoke(k)
  PROVE  IInv'
<1> USE DEF Revoke, trials, calls
<1> DEFINE new == [license[k] EXCEPT !.status = "revoked"]
<1>1. license[k] \in License
  BY DEF IInv, TypeOK
<1>2. new \in License /\ new # None /\ new.source = license[k].source
  BY <1>1, LicensingAssumption DEF License
<1>3. license' = [license EXCEPT ![k] = new]
  BY DEF IInv, TypeOK
<1> HIDE DEF new
<1>4. /\ license' \in [Keys -> License \cup {None}]
      /\ license'[k] = new
      /\ \A j \in Keys \ {k} : license'[j] = license[j]
  BY <1>2, <1>3 DEF IInv, TypeOK
<1>5. \A j \in Keys : /\ license'[j] # None <=> license[j] # None
                      /\ license[j] # None =>
                           license'[j].source = license[j].source
                      /\ Claims(j)' = Claims(j)
  BY <1>2, <1>4 DEF Claims
<1>6. TypeOK' /\ IssueInv'
  BY <1>4 DEF IInv, TypeOK, IssueInv, AtIssue
<1>7. PoolKeyOnce'
  BY <1>5 DEF IInv, PoolKeyOnce
<1>8. Burnt' \subseteq Burnt /\ Orphans' \subseteq Orphans
  BY <1>5 DEF Burnt, Orphans
<1> QED
  BY <1>6, <1>7, <1>8, NoMoreLost, TrialsKeep DEF IInv

-----------------------------------------------------------------------------
(* Trials and checks. *)

LEMMA CountingFinite ==
  ASSUME NEW k
  PROVE  /\ IsFiniteSet(Counting(k)) /\ Cardinality(Counting(k)) \in Nat
         /\ Cardinality(Counting(k)) <= Cardinality(Checkers)
         /\ Cardinality(Checkers) \in Nat \ {0}
<1>1. IsFiniteSet(Checkers) /\ Counting(k) \subseteq Checkers
  BY LicensingAssumption DEF Counting
<1> QED
  BY <1>1, LicensingAssumption, FS_Subset, FS_CardinalityType, FS_EmptySet

(* A trial nothing is counted on, and that no more checks are counting on. *)
LEMMA TrialKeeps ==
  ASSUME IInv, NEW k \in Keys, runs'[k] = runs[k], started'[k] = started[k],
         Counting(k)' \subseteq Counting(k)
  PROVE  TrialInv(k)'
<1>1. TrialInv(k) /\ runs[k] \in Nat \cup {None} /\ MaxRuns \in Nat
  BY LicensingAssumption DEF IInv, CheckInv, TypeOK
<1>2. /\ Cardinality(Counting(k)') \in Nat
      /\ Cardinality(Counting(k)') <= Cardinality(Counting(k))
  BY CountingFinite, FS_Subset, FS_CardinalityType
<1>3. runs[k] # None =>
        runs[k] + Cardinality(Counting(k)') < MaxRuns + Cardinality(Checkers)
  BY <1>1, <1>2, CountingFinite DEF TrialInv
<1> QED
  BY <1>1, <1>3 DEF TrialInv

LEMMA StartTrialStep ==
  ASSUME IInv, NEW k \in Keys, StartTrial(k)
  PROVE  IInv'
<1> USE DEF StartTrial
<1>1. TypeOK'
  BY DEF calls, IInv, TypeOK
<1>2. \A j \in Keys : Counting(j)' = Counting(j)
  BY DEF Counting
<1>3. ASSUME NEW j \in Keys PROVE TrialInv(j)'
  <2>1. CASE j = k
    <3>1. Counting(j) = {} /\ started[j] = 0 /\ runs'[j] = 0
      BY <2>1 DEF IInv, CheckInv, TrialInv, TypeOK
    <3>2. Cardinality(Counting(j)') = 0
      BY <1>2, <3>1, FS_EmptySet
    <3>3. 0 # None => 0 + 0 < MaxRuns + Cardinality(Checkers)
      BY CountingFinite, LicensingAssumption
    <3> QED
      BY <1>2, <3>1, <3>2, <3>3 DEF TrialInv
  <2>2. CASE j # k
    BY <1>2, <2>2, TrialKeeps DEF IInv, TypeOK
  <2> QED
    BY <2>1, <2>2
<1>4. CheckInv'
  BY <1>3 DEF CheckInv, IInv
<1> QED
  BY <1>1, <1>4, CallsKeep DEF IInv

LEMMA DaysPassStep ==
  ASSUME IInv, NEW k \in Keys, DaysPass(k)
  PROVE  IInv'
<1> USE DEF DaysPass
<1>1. TypeOK'
  BY DEF calls, IInv, TypeOK
<1>2. ASSUME NEW j \in Keys PROVE TrialInv(j)'
  BY TrialKeeps DEF Counting
<1>3. CheckInv'
  BY <1>2 DEF CheckInv, IInv
<1> QED
  BY <1>1, <1>3, CallsKeep DEF IInv

LEMMA CheckLicenseStep ==
  ASSUME IInv, NEW c \in Checkers, NEW k \in Keys, CheckLicense(c, k)
  PROVE  IInv'
<1> USE DEF CheckLicense
<1>1. TypeOK'
  BY DEF calls, IInv, TypeOK
<1>2. seen[c] = None
  BY DEF IInv, CheckInv
<1>3. ASSUME NEW j \in Keys PROVE TrialInv(j)'
  <2>1. Counting(j)' \subseteq Counting(j)
    BY <1>2 DEF Counting, IInv, TypeOK
  <2> QED
    BY <2>1, TrialKeeps
<1>4. CheckInv'
  BY <1>2, <1>3 DEF CheckInv, IInv, TypeOK
<1> QED
  BY <1>1, <1>4, CallsKeep DEF IInv

(* A check that ends is not counting any more. *)
LEMMA CheckEnded ==
  ASSUME IInv, NEW c \in Checkers, EndCheck(c)
  PROVE  /\ check' \in [Checkers -> Keys \cup {None}]
         /\ seen' \in [Checkers -> Nat \cup {None}]
         /\ \A d \in Checkers : seen'[d] # None => check'[d] # None
         /\ \A k \in Keys : Counting(k)' = Counting(k) \ {c}
<1> USE DEF EndCheck
<1>1. /\ check' \in [Checkers -> Keys \cup {None}]
      /\ seen' \in [Checkers -> Nat \cup {None}]
  BY DEF IInv, TypeOK
<1>2. /\ check'[c] = None /\ seen'[c] = None
      /\ \A d \in Checkers \ {c} : check'[d] = check[d] /\ seen'[d] = seen[d]
  BY DEF IInv, TypeOK
<1>3. \A d \in Checkers : seen'[d] # None => check'[d] # None
  BY <1>2 DEF IInv, CheckInv
<1>4. \A k \in Keys : Counting(k)' = Counting(k) \ {c}
  BY <1>2 DEF Counting
<1> QED
  BY <1>1, <1>3, <1>4

LEMMA CheckEndsStep ==
  ASSUME IInv, NEW c \in Checkers, CheckEnds(c)
  PROVE  IInv'
<1> USE DEF CheckEnds
<1>1. TypeOK'
  BY CheckEnded DEF calls, IInv, TypeOK
<1>2. ASSUME NEW j \in Keys PROVE TrialInv(j)'
  <2>1. Counting(j)' \subseteq Counting(j)
    BY CheckEnded
  <2> QED
    BY <2>1, TrialKeeps
<1>3. CheckInv'
  BY <1>2, CheckEnded DEF CheckInv
<1> QED
  BY <1>1, <1>3, CallsKeep DEF IInv

LEMMA CheckFailsStep ==
  ASSUME IInv, NEW c \in Checkers, CheckFails(c)
  PROVE  IInv'
<1> USE DEF CheckFails
<1>1. faults' \in 0..MaxFaults
  BY LicensingAssumption DEF Fault, IInv, TypeOK
<1>2. TypeOK'
  BY <1>1, CheckEnded DEF calls, IInv, TypeOK
<1>3. ASSUME NEW j \in Keys PROVE TrialInv(j)'
  <2>1. Counting(j)' \subseteq Counting(j)
    BY CheckEnded
  <2> QED
    BY <2>1, TrialKeeps
<1>4. CheckInv'
  BY <1>3, CheckEnded DEF CheckInv
<1>5. IssueInv' /\ PoolKeyOnce'
  BY DEF calls, IInv, IssueInv, AtIssue, PoolKeyOnce, Claims
<1>6. NothingLost'
  <2>1. Burnt' \subseteq Burnt \cup {c} /\ Orphans' \subseteq Orphans
    BY DEF calls, Burnt, Orphans, Claims
  <2> QED
    BY <2>1, OneLost
<1> QED
  BY <1>2, <1>4, <1>5, <1>6 DEF IInv

LEMMA CheckTrialStep ==
  ASSUME IInv, NEW c \in Checkers, CheckTrial(c)
  PROVE  IInv'
<1> USE DEF CheckTrial
<1> DEFINE k == check[c]
<1>1. k \in Keys /\ runs[k] \in Nat /\ runs[k] < MaxRuns
  BY LicensingAssumption DEF Exhausted, IInv, TypeOK
<1>2. TypeOK'
  BY <1>1 DEF calls, IInv, TypeOK
<1>3. ASSUME NEW j \in Keys PROVE TrialInv(j)'
  <2>1. CASE j = k
    <3>1. TrialInv(j)
      BY DEF IInv, CheckInv
    <3>2. /\ Cardinality(Counting(j)') \in Nat
          /\ Cardinality(Counting(j)') <= Cardinality(Checkers)
          /\ Cardinality(Checkers) \in Nat
      <4>1. Counting(j)' \subseteq Checkers
        BY DEF Counting
      <4> QED
        BY <4>1, LicensingAssumption, FS_Subset, FS_CardinalityType
    <3>3. runs[j] + Cardinality(Counting(j)') < MaxRuns + Cardinality(Checkers)
      BY <1>1, <2>1, <3>2, LicensingAssumption
    <3> QED
      BY <2>1, <3>1, <3>3 DEF TrialInv
  <2>2. CASE j # k
    <3>1. Counting(j)' \subseteq Counting(j)
      BY <2>2 DEF Counting, IInv, TypeOK
    <3> QED
      BY <3>1, TrialKeeps
  <2> QED
    BY <2>1, <2>2
<1>4. CheckInv'
  BY <1>3 DEF CheckInv, IInv, TypeOK
<1> QED
  BY <1>2, <1>4, CallsKeep DEF IInv

LEMMA CountRunStep ==
  ASSUME IInv, NEW c \in Checkers, NEW lost \in BOOLEAN, CountRun(c, lost)
  PROVE  IInv'
<1> USE DEF CountRun
<1> DEFINE k == check[c]
<1>1. k \in Keys /\ c \in Counting(k)
  BY DEF IInv, CheckInv, TypeOK, Counting
<1>2. TrialInv(k) /\ runs[k] \in Nat
  BY <1>1 DEF IInv, CheckInv, TrialInv, TypeOK
<1>3. /\ runs'[k] = runs[k] + 1
      /\ \A j \in Keys \ {k} : runs'[j] = runs[j]
      /\ runs' \in [Keys -> Nat \cup {None}]
  BY <1>1, <1>2 DEF IInv, TypeOK
<1>4. /\ started' \in [Keys -> Nat]
      /\ started'[k] <= started[k] + 1
      /\ \A j \in Keys \ {k} : started'[j] = started[j]
      /\ faults' \in 0..MaxFaults /\ faults <= faults'
      /\ faults' = faults \/ Fault
  <2>1. CASE lost
    BY <1>1, <2>1, LicensingAssumption DEF Fault, IInv, TypeOK
  <2>2. CASE ~lost
    BY <1>1, <2>2, LicensingAssumption DEF IInv, TypeOK
  <2> QED
    BY <2>1, <2>2
<1>5. TypeOK'
  BY <1>3, <1>4, CheckEnded DEF calls, IInv, TypeOK
<1>6. ASSUME NEW j \in Keys PROVE TrialInv(j)'
  <2>1. CASE j = k
    <3>1. Cardinality(Counting(j)') = Cardinality(Counting(j)) - 1
      <4>1. Counting(j)' = Counting(j) \ {c} /\ c \in Counting(j)
        BY <1>1, <2>1, CheckEnded
      <4> QED
        BY <4>1, CountingFinite, FS_RemoveElement
    <3>2. started'[j] <= runs'[j]
      BY <1>1, <1>2, <1>3, <1>4, <2>1 DEF TrialInv, IInv, TypeOK
    <3>3. runs'[j] + Cardinality(Counting(j)')
            < MaxRuns + Cardinality(Checkers)
      BY <1>2, <1>3, <2>1, <3>1, CountingFinite, LicensingAssumption
      DEF TrialInv
    <3>4. runs'[j] # None
      BY <1>2, <1>3, <2>1, LicensingAssumption
    <3> QED
      BY <3>2, <3>3, <3>4 DEF TrialInv
  <2>2. CASE j # k
    <3>1. Counting(j)' \subseteq Counting(j)
      BY CheckEnded
    <3> QED
      BY <1>3, <1>4, <2>2, <3>1, TrialKeeps
  <2> QED
    BY <2>1, <2>2
<1>7. CheckInv'
  BY <1>6, CheckEnded DEF CheckInv
<1>8. IssueInv' /\ PoolKeyOnce'
  BY DEF calls, IInv, IssueInv, AtIssue, PoolKeyOnce, Claims
<1>9. NothingLost'
  <2>1. Burnt' \subseteq Burnt /\ Orphans' \subseteq Orphans
    BY DEF calls, Burnt, Orphans, Claims
  <2> QED
    BY <1>4, <2>1, NoMoreLost, OneLost
<1> QED
  BY <1>5, <1>7, <1>8, <1>9 DEF IInv

-----------------------------------------------------------------------------
LEMMA StutterInv == IInv /\ UNCHANGED vars => IInv'
<1> SUFFICES ASSUME IInv, UNCHANGED vars PROVE IInv'
  OBVIOUS
<1> USE DEF vars
<1>1. TypeOK'
  BY DEF IInv, TypeOK
<1> QED
  BY <1>1, CallsKeep, TrialsKeep DEF IInv, calls, trials

LEMMA StepInv == IInv /\ [Next]_vars => IInv'
<1> SUFFICES ASSUME IInv, [Next]_vars PROVE IInv'
  OBVIOUS
<1>1. CASE UNCHANGED vars
  BY <1>1, StutterInv
<1>2. ASSUME NEW k \in Keys,
             AddToPool(k) \/ Revoke(k) \/ StartTrial(k) \/ DaysPass(k)
      PROVE  IInv'
  BY <1>2, AddToPoolStep, RevokeStep, StartTrialStep, DaysPassStep
<1>3. ASSUME NEW i \in Issuers, NEW s \in Source, Issue(i, s)
      PROVE  IInv'
  BY <1>3, IssueStep
<1>4. ASSUME NEW i \in Issuers, Claim(i) \/ PoolEmpty(i) \/ ClaimFails(i)
      PROVE  IInv'
  BY <1>4, ClaimStep, PoolEmptyStep, ClaimFailsStep
<1>5. ASSUME NEW i \in Issuers,
             Insert(i) \/ InsertCollides(i) \/ InsertFails(i)
      PROVE  IInv'
  BY <1>5, InsertStep, InsertCollidesStep, InsertFailsStep
<1>6. ASSUME NEW c \in Checkers, NEW k \in Keys, CheckLicense(c, k)
      PROVE  IInv'
  BY <1>6, CheckLicenseStep
<1>7. ASSUME NEW c \in Checkers, CheckTrial(c) \/ CheckEnds(c) \/ CheckFails(c)
      PROVE  IInv'
  BY <1>7, CheckTrialStep, CheckEndsStep, CheckFailsStep
<1>8. ASSUME NEW c \in Checkers, NEW lost \in BOOLEAN, CountRun(c, lost)
      PROVE  IInv'
  BY <1>8, CountRunStep
<1> QED
  BY <1>1, <1>2, <1>3, <1>4, <1>5, <1>6, <1>7, <1>8 DEF Next

LEMMA Invariant == Spec => []IInv
BY InitInv, StepInv, PTL DEF Spec

-----------------------------------------------------------------------------
(* The tables and the variables of issue_license and validate_license keep *)
(* their types.                                                            *)
THEOREM TypeCorrect == Spec => []TypeOK
<1>1. IInv => TypeOK
  BY DEF IInv
<1> QED
  BY <1>1, Invariant, PTL

(* claim_pool_key gives a key to one call of issue_license, and a key that *)
(* has been issued from the pool is never given out again.                 *)
THEOREM PoolSafe == Spec => []PoolKeyOnce
<1>1. IInv => PoolKeyOnce
  BY DEF IInv
<1> QED
  BY <1>1, Invariant, PTL

(* Below INFO logging, issue_license burns a pool key or leaves a license  *)
(* nobody was given only when a Supabase call fails: one per failed call.  *)
THEOREM LossBounded == Spec => []NothingLost
<1>1. IInv => NothingLost
  BY DEF IInv
<1> QED
  BY <1>1, Invariant, PTL

(* Every run validate_license lets start is counted, and the checks that   *)
(* overlap overrun a trial by at most one run each.                        *)
THEOREM OverrunBounded == Spec => []RunsBounded
<1>1. ASSUME IInv, NEW k \in Keys, runs[k] # None
      PROVE  started[k] <= runs[k] /\ runs[k] < MaxRuns + Cardinality(Checkers)
  <2>1. TrialInv(k) /\ runs[k] \in Nat /\ MaxRuns \in Nat
    BY <1>1, LicensingAssumption DEF IInv, CheckInv, TypeOK
  <2> QED
    BY <1>1, <2>1, CountingFinite DEF TrialInv
<1>2. IInv => RunsBounded
  BY <1>1 DEF RunsBounded, IInv, CheckInv, TrialInv
<1> QED
  BY <1>2, Invariant, PTL
=============================================================================
