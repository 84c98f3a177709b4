--------------------------- MODULE Services_proofs ---------------------------
(***************************************************************************)
(* Proofs about the small services, for any number of callers, keys, files *)
(* and checks, and every bound.  Each part has its own inductive invariant *)
(* and a lemma that its initial states and steps keep it; a behaviour of   *)
(* Services moves one part and leaves the others as they are.  The         *)
(* algorithms are at the end, each proved for every input of its types.    *)
(***************************************************************************)
EXTENDS Services, FiniteSetTheorems, SequenceTheorems, TLAPS

(***************************************************************************)
(* RateLimiter.  RateTime is the clock of the bucket as its callers have   *)
(* moved it, with what they have moved back counted once more; it only     *)
(* grows.  What has been granted since any grant, together with what the   *)
(* bucket holds now, is within the bound, and what is granted next comes   *)
(* out of what the bucket holds.                                           *)
(***************************************************************************)

Grants == [at : Nat, cost : Nat, total : Nat]

RateTypeOK ==
  /\ bucket \in [tokens : Nat, last : Int]
  /\ clock \in Nat /\ touched \in Nat /\ lastNow \in Nat /\ rewound \in Nat
  /\ check \in [RateCallers -> [pc : {"idle", "called", "allowed", "exceeded"},
                                now : Nat, cost : Nat]]
  /\ granted \in Seq(Grants)

\* The caller's reading of the clock is less than a window old.
CalledInv ==
  \A c \in RateCallers :
    check[c].pc = "called" =>
      check[c].now <= clock /\ clock - check[c].now < Window

\* A bucket that Redis has dropped was written two windows ago.
ClocksInv ==
  /\ lastNow <= touched /\ touched <= clock
  /\ bucket # Rate!Missing => bucket.last = lastNow
  /\ bucket = Rate!Missing /\ granted # <<>> => touched + 2 * Window <= clock

RateTime == lastNow + rewound
Level == IF bucket = Rate!Missing THEN 0 ELSE bucket.tokens
CostSince(i) == Rate!Total - granted[i].total + granted[i].cost

LevelInv ==
  \A i \in DOMAIN granted :
    CostSince(i) * Window + Level
      <= Rate!Full + (RateTime - granted[i].at) * Capacity

RateInv == RateTypeOK /\ CalledInv /\ ClocksInv /\ LevelInv /\ Rate!RateBound

LEMMA FullType == Rate!Full \in Nat
<1>1. \A m, n \in Nat : m * n \in Nat
  OBVIOUS
<1> QED
  BY <1>1, ServicesAssumption, Zenon DEF Rate!Full

LEMMA TotalType == RateTypeOK => Rate!Total \in Nat
<1> SUFFICES ASSUME RateTypeOK  PROVE Rate!Total \in Nat
  OBVIOUS
<1>1. granted \in Seq(Grants)
  BY DEF RateTypeOK
<1>2. CASE granted # <<>>
  <2>1. Len(granted) \in DOMAIN granted
    BY <1>1, <1>2
  <2>2. granted[Len(granted)] \in Grants
    BY <1>1, <2>1
  <2> QED
    BY <1>2, <2>2 DEF Rate!Total, Grants
<1>3. CASE granted = <<>>
  BY <1>3 DEF Rate!Total
<1> QED
  BY <1>2, <1>3

LEMMA RateInit == Rate!Init => RateInv
<1> SUFFICES ASSUME Rate!Init  PROVE RateInv
  OBVIOUS
<1>1. granted = <<>> /\ \A i \in DOMAIN granted : FALSE
  BY DEF Rate!Init
<1>2. LevelInv /\ Rate!RateBound
  BY <1>1 DEF LevelInv, Rate!RateBound
<1>3. RateTypeOK
  BY FullType DEF Rate!Init, Rate!Missing, RateTypeOK
<1>4. CalledInv /\ ClocksInv
  BY <1>1 DEF Rate!Init, CalledInv, ClocksInv
<1> QED
  BY <1>2, <1>3, <1>4 DEF RateInv

\* What the bucket is refilled with is within what the time allows.
LEMMA RefillBound ==
  ASSUME RateInv, NEW c \in RateCallers, check[c].pc = "called",
         NEW back \in Nat,
         back = rewound + Rate!AtLeastZero(lastNow - check[c].now)
  PROVE  /\ Rate!Refilled(check[c].now) \in Nat
         /\ Rate!Refilled(check[c].now) <= Rate!Full
         /\ granted # <<>> =>
              Rate!Refilled(check[c].now)
                <= Level + ((check[c].now + back) - RateTime) * Capacity
<1> DEFINE now == check[c].now
<1>1. /\ now \in Nat /\ lastNow \in Nat /\ rewound \in Nat /\ clock \in Nat
      /\ touched \in Nat /\ bucket.tokens \in Nat /\ bucket.last \in Int
  BY DEF RateInv, RateTypeOK
<1>2. Capacity \in Nat \ {0} /\ Window \in Nat \ {0, 1} /\ Rate!Full \in Nat
  BY FullType, ServicesAssumption
<1>3. CASE bucket = Rate!Missing
  <2>1. Rate!Refilled(now) = Rate!Full /\ Level = 0
    BY <1>3 DEF Rate!Refilled, Level
  <2>2. ASSUME granted # <<>>
        PROVE  Rate!Full <= Level + ((now + back) - RateTime) * Capacity
    <3>1. lastNow + Window <= now
      BY <1>1, <1>2, <1>3, <2>2, SMTT(30) DEF RateInv, CalledInv, ClocksInv
    <3>2. (now + back) - RateTime = now - lastNow
      <4>1. back = rewound + Rate!AtLeastZero(lastNow - now)
        OBVIOUS
      <4> HIDE DEF now
      <4>2. Rate!AtLeastZero(lastNow - now) = 0
        BY <1>1, <1>2, <3>1 DEF Rate!AtLeastZero
      <4> QED
        BY <1>1, <4>1, <4>2 DEF RateTime
    <3>3. \A m, k, p \in Nat : k * m <= (m + p) * k
      <4>1. \A m, k, p \in Nat : (m + p) * k = k * m + p * k /\ p * k >= 0
        OBVIOUS
      <4> QED
        BY <4>1
    <3>4. now - lastNow \in Nat /\ Window <= now - lastNow
      BY <1>1, <1>2, <3>1
    <3> DEFINE more == (now - lastNow - Window)
    <3>5. more \in Nat /\ Window + more = (now + back) - RateTime
      BY <1>1, <1>2, <3>2, <3>4
    <3> HIDE DEF now, more
    <3>6. Capacity * Window <= (Window + more) * Capacity
      BY <1>2, <3>3, <3>5
    <3>7. (Window + more) * Capacity \in Int
      <4>1. \A m, n \in Nat : m * n \in Int /\ m + n \in Nat
        OBVIOUS
      <4> QED
        BY <1>2, <3>5, <4>1
    <3>8. Rate!Full <= 0 + (Window + more) * Capacity
      BY <1>2, <3>6, <3>7 DEF Rate!Full
    <3> QED
      BY <2>1, <3>5, <3>8, Zenon
  <2> HIDE DEF now
  <2>3. Rate!Refilled(now) \in Nat /\ Rate!Refilled(now) <= Rate!Full
    BY <1>2, <2>1
  <2> QED
    BY <2>1, <2>2, <2>3, Zenon DEF now
<1>4. CASE bucket # Rate!Missing
  <2> DEFINE passed == Rate!AtLeastZero(now - lastNow)
  <2>1. bucket.last = lastNow /\ Level = bucket.tokens
    BY <1>4 DEF RateInv, ClocksInv, Level
  <2>2. Rate!Refilled(now)
          = Rate!LessOf(Rate!Full, bucket.tokens + passed * Capacity)
    BY <1>4, <2>1 DEF Rate!Refilled
  <2>3. passed \in Nat /\ passed = (now + back) - RateTime
    <3>1. back = rewound + Rate!AtLeastZero(lastNow - now)
      OBVIOUS
    <3> HIDE DEF now
    <3>2. CASE now < lastNow
      BY <1>1, <3>1, <3>2 DEF Rate!AtLeastZero, RateTime
    <3>3. CASE ~(now < lastNow)
      BY <1>1, <3>1, <3>3 DEF Rate!AtLeastZero, RateTime
    <3> QED
      BY <3>2, <3>3
  <2>4. passed * Capacity \in Nat
    <3>1. \A m, n \in Nat : m * n \in Nat
      OBVIOUS
    <3> HIDE DEF passed
    <3> QED
      BY <1>2, <2>3, <3>1
  <2> HIDE DEF passed, now
  <2>5. /\ Rate!Refilled(now) \in Nat /\ Rate!Refilled(now) <= Rate!Full
        /\ Rate!Refilled(now) <= bucket.tokens + passed * Capacity
    BY <1>1, <1>2, <2>2, <2>4 DEF Rate!LessOf
  <2> QED
    BY <2>1, <2>3, <2>5 DEF now
<1> QED
  BY <1>3, <1>4

LEMMA Distributes ==
  \A a, b, k \in Int : (a + b) * k = a * k + b * k /\ a * k \in Int
OBVIOUS

LEMMA RateStep == RateInv /\ [Rate!Next]_rateVars => RateInv'
<1> SUFFICES ASSUME RateInv, [Rate!Next]_rateVars
             PROVE  RateInv'
  OBVIOUS
<1>t. /\ RateTypeOK /\ CalledInv /\ ClocksInv /\ LevelInv /\ Rate!RateBound
      /\ Rate!Total \in Nat /\ Rate!Full \in Nat
  BY TotalType, FullType DEF RateInv
<1>p. Capacity \in Nat \ {0} /\ Window \in Nat \ {0, 1}
  BY ServicesAssumption
<1>b. UNCHANGED <<bucket, granted, lastNow, rewound>> =>
        LevelInv' /\ Rate!RateBound'
  BY <1>t DEF LevelInv, Rate!RateBound, Rate!CostOf, CostSince, RateTime,
              Level, Rate!Total
<1>1. CASE Rate!Tick
  <2>1. /\ clock' = clock + 1
        /\ UNCHANGED <<bucket, granted, lastNow, rewound, check, touched>>
        /\ \A c \in RateCallers :
             check[c].pc = "called" => clock - check[c].now < Window - 1
    BY <1>1 DEF Rate!Tick
  <2>2. RateTypeOK' /\ ClocksInv'
    BY <1>t, <1>p, <2>1 DEF RateTypeOK, ClocksInv
  <2>3. CalledInv'
    BY <1>t, <1>p, <2>1 DEF RateTypeOK, CalledInv
  <2> QED
    BY <1>b, <2>1, <2>2, <2>3 DEF RateInv
<1>2. ASSUME NEW c \in RateCallers, NEW cost \in 1..Capacity,
             Rate!Check(c, cost)
      PROVE  RateInv'
  <2>1. /\ check' = [check EXCEPT ![c] = [pc |-> "called", now |-> clock,
                                          cost |-> cost]]
        /\ UNCHANGED <<bucket, granted, lastNow, rewound, clock, touched>>
    BY <1>2 DEF Rate!Check
  <2>2. cost \in Nat
    BY <1>p
  <2>3. RateTypeOK' /\ ClocksInv'
    BY <1>t, <2>1, <2>2 DEF RateTypeOK, ClocksInv
  <2>4. CalledInv'
    BY <1>t, <1>p, <2>1 DEF RateTypeOK, CalledInv
  <2> QED
    BY <1>b, <2>1, <2>3, <2>4 DEF RateInv
<1>3. ASSUME NEW c \in RateCallers, Rate!Consume(c)  PROVE RateInv'
  <2> DEFINE now == check[c].now
             cost == check[c].cost
             back == rewound + Rate!AtLeastZero(lastNow - now)
             at == now + back
             tokens == Rate!Refilled(now)
             allowed == tokens >= cost * Window
             left == IF allowed THEN tokens - cost * Window ELSE tokens
             grant == [at |-> at, cost |-> cost,
                       total |-> Rate!Total + cost]
  <2>1. /\ check[c].pc = "called"
        /\ bucket' = [tokens |-> left, last |-> now]
        /\ check' = [check EXCEPT ![c] =
                       [pc |-> IF allowed THEN "allowed" ELSE "exceeded",
                        now |-> 0, cost |-> 0]]
        /\ touched' = clock /\ lastNow' = now /\ rewound' = back
        /\ granted' = IF allowed THEN Append(granted, grant) ELSE granted
        /\ clock' = clock
    BY <1>3 DEF Rate!Consume
  <2>2. now \in Nat /\ cost \in Nat /\ now <= clock /\ clock \in Nat
    BY <1>t, <2>1 DEF RateTypeOK, CalledInv
  <2>3. back \in Nat /\ at \in Nat
    BY <1>t, <2>2, SMTT(30) DEF RateTypeOK, Rate!AtLeastZero
  <2>4. /\ tokens \in Nat /\ tokens <= Rate!Full
        /\ granted # <<>> =>
             tokens <= Level + (at - RateTime) * Capacity
    <3>1. /\ back = rewound + Rate!AtLeastZero(lastNow - check[c].now)
          /\ check[c].pc = "called"
      BY <2>1
    <3> HIDE DEF back
    <3>2. /\ Rate!Refilled(check[c].now) \in Nat
          /\ Rate!Refilled(check[c].now) <= Rate!Full
          /\ granted # <<>> =>
               Rate!Refilled(check[c].now)
                 <= Level + ((check[c].now + back) - RateTime) * Capacity
      BY <2>3, <3>1, RefillBound, Zenon
    <3>3. tokens = Rate!Refilled(check[c].now) /\ at = check[c].now + back
      BY Zenon
    <3> HIDE DEF tokens, at
    <3> QED
      BY <3>2, <3>3, Zenon
  <2>5. cost * Window \in Nat
    <3>1. \A m, n \in Nat : m * n \in Nat
      OBVIOUS
    <3> QED
      BY <1>p, <2>2, <3>1
  <2>6. grant \in Grants
    BY <1>t, <2>2, <2>3 DEF Grants
  <2> HIDE DEF now, cost, back, tokens, grant, at
  <2>7. left \in Nat
    BY <2>4, <2>5
  <2>8. granted \in Seq(Grants) /\ granted' \in Seq(Grants)
    BY <1>t, <2>1, <2>6 DEF RateTypeOK
  <2>9. check' \in [RateCallers ->
                      [pc : {"idle", "called", "allowed", "exceeded"},
                       now : Nat, cost : Nat]]
    BY <1>t, <2>1 DEF RateTypeOK
  <2> HIDE DEF left, allowed
  <2>10. RateTypeOK'
    BY <2>1, <2>2, <2>3, <2>7, <2>8, <2>9 DEF RateTypeOK
  <2>11. CalledInv'
    BY <1>t, <2>1 DEF CalledInv, RateTypeOK
  <2>12. bucket' # Rate!Missing
    BY <2>1, <2>2 DEF Rate!Missing
  <2>13. ClocksInv'
    BY <2>1, <2>2, <2>12 DEF ClocksInv, Rate!Missing
  <2>14. Level' = left /\ RateTime' = at
    BY <2>1, <2>12 DEF Level, RateTime, Rate!Missing, at
  <2>15. RateTime \in Nat /\ Level \in Nat
    BY <1>t DEF RateTypeOK, RateTime, Level
  <2>i. /\ Level \in Int /\ Rate!Full \in Int /\ RateTime \in Int
        /\ at \in Int /\ tokens \in Int /\ cost \in Int
        /\ Capacity \in Int /\ Window \in Int
    BY <1>t, <1>p, <2>2, <2>3, <2>4, <2>15
  <2>a. ASSUME NEW i \in DOMAIN granted
        PROVE  /\ granted[i].at \in Int /\ granted[i].total \in Nat
               /\ granted[i].cost \in Nat /\ CostSince(i) \in Int
               /\ CostSince(i) * Window \in Int
    <3>1. granted[i] \in Grants
      BY <2>8, <2>a
    <3>2. granted[i].total \in Nat /\ granted[i].cost \in Nat
      BY <3>1 DEF Grants
    <3>3. CostSince(i) \in Int
      BY <1>t, <3>2 DEF CostSince
    <3> QED
      BY <2>i, <3>1, <3>2, <3>3, Distributes DEF Grants
  <2>b. ASSUME NEW i \in DOMAIN granted
        PROVE  CostSince(i) * Window + tokens
                 <= Rate!Full + (at - granted[i].at) * Capacity
    <3> DEFINE earlier == RateTime - granted[i].at
               later == at - RateTime
    <3>1. CostSince(i) * Window + Level <= Rate!Full + earlier * Capacity
      BY <1>t, <2>b DEF LevelInv
    <3>2. tokens <= Level + later * Capacity
      BY <2>4, <2>8
    <3>3. /\ earlier \in Int /\ later \in Int
          /\ earlier + later = at - granted[i].at
      BY <2>i, <2>a
    <3> HIDE DEF earlier, later
    <3>4. /\ earlier * Capacity \in Int /\ later * Capacity \in Int
          /\ (earlier + later) * Capacity
               = earlier * Capacity + later * Capacity
      BY <2>i, <3>3, Distributes
    <3>5. CostSince(i) * Window + tokens
            <= Rate!Full + (earlier + later) * Capacity
      BY <2>i, <2>a, <3>1, <3>2, <3>4
    <3> QED
      BY <3>3, <3>5, Zenon
  <2>16. CASE ~allowed
    <3>1. granted' = granted /\ left = tokens
      BY <2>1, <2>16 DEF left
    <3>2. Rate!RateBound'
      BY <1>t, <3>1 DEF Rate!RateBound, Rate!CostOf
    <3>3. \A i \in DOMAIN granted :
            CostSince(i)' = CostSince(i) /\ granted'[i] = granted[i]
      BY <3>1 DEF CostSince, Rate!Total
    <3>4. ASSUME NEW i \in DOMAIN granted'
          PROVE  CostSince(i)' * Window + Level'
                   <= Rate!Full + (RateTime' - granted'[i].at) * Capacity
      BY <2>14, <2>b, <3>1, <3>3, <3>4, Zenon
    <3>5. LevelInv'
      BY <3>4 DEF LevelInv, Rate!Full
    <3> QED
      BY <2>10, <2>11, <2>13, <3>2, <3>5 DEF RateInv
  <2>17. CASE allowed
    <3>n. PICK n : n = Len(granted) + 1
      OBVIOUS
    <3>1. granted' = Append(granted, grant) /\ left = tokens - cost * Window
      BY <2>1, <2>17 DEF left
    <3>2. /\ DOMAIN granted' = 1..n /\ DOMAIN granted = 1..(n - 1)
          /\ n \in Nat /\ n \notin DOMAIN granted
          /\ granted'[n] = grant
          /\ \A i \in DOMAIN granted : granted'[i] = granted[i]
          /\ granted' # <<>> /\ Len(granted') = n
      BY <2>6, <2>8, <3>1, <3>n
    <3>3. /\ Rate!Total' = Rate!Total + cost
          /\ grant.at = at /\ grant.cost = cost
          /\ grant.total = Rate!Total + cost
      BY <3>2 DEF Rate!Total, grant
    <3>4. ASSUME NEW i \in DOMAIN granted
          PROVE  /\ CostSince(i)' = CostSince(i) + cost
                 /\ Rate!CostOf(i, n)' = CostSince(i) + cost
                 /\ granted'[i] = granted[i]
      <4>1. granted'[i] = granted[i] /\ granted'[n] = grant
        BY <3>2
      <4>2. granted[i].total \in Nat /\ granted[i].cost \in Nat
        BY <2>a
      <4> QED
        BY <1>t, <2>2, <3>3, <4>1, <4>2 DEF CostSince, Rate!CostOf
    <3>5. CostSince(n)' = cost /\ Rate!CostOf(n, n)' = cost
      BY <1>t, <2>2, <3>2, <3>3 DEF CostSince, Rate!CostOf
    <3>6. ASSUME NEW i \in DOMAIN granted
          PROVE  (CostSince(i) + cost) * Window + left
                   <= Rate!Full + (at - granted[i].at) * Capacity
      <4>1. (CostSince(i) + cost) * Window
              = CostSince(i) * Window + cost * Window
        BY <2>i, <2>a, Distributes
      <4>2. (CostSince(i) + cost) * Window + left
              = CostSince(i) * Window + tokens
        BY <2>i, <2>5, <2>a, <3>1, <4>1, SMTT(30)
      <4> QED
        BY <2>b, <4>2
    <3>7. cost * Window + left = tokens
      BY <2>4, <2>5, <3>1
    <3>8. (at - grant.at) * Capacity = 0
      BY <2>i, <3>3
    <3>9. ASSUME NEW i \in DOMAIN granted'
          PROVE  CostSince(i)' * Window + Level'
                   <= Rate!Full + (RateTime' - granted'[i].at) * Capacity
      <4>1. CASE i \in DOMAIN granted
        BY <2>14, <3>4, <3>6, <4>1, Zenon
      <4>2. CASE i = n
        <5>1. cost * Window + left
                <= Rate!Full + (at - grant.at) * Capacity
          BY <2>4, <2>i, <3>7, <3>8
        <5> QED
          BY <2>14, <3>2, <3>5, <4>2, <5>1, Zenon
      <4> QED
        BY <3>2, <4>1, <4>2
    <3>10. LevelInv'
      BY <3>9 DEF LevelInv, Rate!Full
    <3>11. ASSUME NEW i \in DOMAIN granted', NEW j \in DOMAIN granted', i <= j
           PROVE  Rate!CostOf(i, j)' * Window
                    <= Rate!Full + (granted'[j].at - granted'[i].at) * Capacity
      <4>1. CASE j \in DOMAIN granted
        BY <1>t, <3>2, <3>11, <4>1 DEF Rate!RateBound, Rate!CostOf
      <4>2. CASE j = n /\ i \in DOMAIN granted
        <5>1. /\ Rate!CostOf(i, j)' = CostSince(i) + cost
              /\ granted'[j].at = at /\ granted'[i] = granted[i]
          BY <3>2, <3>3, <3>4, <4>2
        <5>2. /\ (CostSince(i) + cost) * Window \in Int
              /\ (at - granted[i].at) * Capacity \in Int
          <6>1. /\ CostSince(i) + cost \in Int
                /\ at - granted[i].at \in Int
            BY <2>i, <2>a, <4>2
          <6> QED
            BY <2>i, <6>1, Distributes
        <5>3. (CostSince(i) + cost) * Window
                <= Rate!Full + (at - granted[i].at) * Capacity
          BY <2>7, <2>i, <3>6, <4>2, <5>2
        <5> QED
          BY <5>1, <5>3, Zenon
      <4>3. CASE j = n /\ i = n
        <5>1. cost * Window <= Rate!Full + (at - grant.at) * Capacity
          BY <2>4, <2>5, <2>7, <2>i, <3>7, <3>8
        <5> QED
          BY <3>2, <3>3, <3>5, <4>3, <5>1, Zenon
      <4> QED
        BY <3>2, <4>1, <4>2, <4>3
    <3>12. Rate!RateBound'
      BY <3>11 DEF Rate!RateBound, Rate!Full
    <3> QED
      BY <2>10, <2>11, <2>13, <3>10, <3>12 DEF RateInv
  <2> QED
    BY <2>16, <2>17
<1>4. CASE Rate!Expire
  <2>1. /\ bucket # Rate!Missing /\ clock >= touched + 2 * Window
        /\ bucket' = Rate!Missing
        /\ UNCHANGED <<clock, check, touched, granted, lastNow, rewound>>
    BY <1>4 DEF Rate!Expire
  <2>2. RateTypeOK' /\ ClocksInv'
    BY <1>t, <1>p, <2>1 DEF RateTypeOK, ClocksInv, Rate!Missing
  <2>3. CalledInv' /\ Rate!RateBound'
    BY <1>t, <2>1 DEF CalledInv, Rate!RateBound, Rate!CostOf
  <2>4. Level' = 0 /\ Level = bucket.tokens /\ RateTime' = RateTime
    BY <2>1 DEF Level, RateTime, Rate!Missing
  <2>5. bucket.tokens \in Nat /\ RateTime \in Int /\ granted \in Seq(Grants)
    BY <1>t DEF RateTypeOK, RateTime
  <2>6. ASSUME NEW i \in DOMAIN granted
        PROVE  CostSince(i) * Window + 0
                 <= Rate!Full + (RateTime - granted[i].at) * Capacity
    <3>1. CostSince(i) * Window + bucket.tokens
            <= Rate!Full + (RateTime - granted[i].at) * Capacity
      BY <1>t, <2>4, <2>6 DEF LevelInv
    <3>2. granted[i] \in Grants
      BY <2>5
    <3>3. CostSince(i) \in Int /\ granted[i].at \in Int
      BY <1>t, <3>2 DEF CostSince, Grants
    <3>4. /\ CostSince(i) * Window \in Int
          /\ (RateTime - granted[i].at) * Capacity \in Int
      BY <1>p, <2>5, <3>3
    <3> QED
      BY <1>t, <2>5, <3>1, <3>4
  <2>7. LevelInv'
    BY <2>1, <2>4, <2>6 DEF LevelInv, CostSince, Rate!Total, Rate!Full
  <2> QED
    BY <2>2, <2>3, <2>7 DEF RateInv
<1>5. CASE Rate!Reset
  <2>1. /\ bucket' = Rate!Missing /\ granted' = <<>>
        /\ UNCHANGED <<clock, check, touched, lastNow, rewound>>
    BY <1>5 DEF Rate!Reset
  <2>2. \A i \in DOMAIN granted' : FALSE
    BY <2>1
  <2>3. LevelInv' /\ Rate!RateBound'
    BY <2>2 DEF LevelInv, Rate!RateBound
  <2>4. RateTypeOK' /\ ClocksInv' /\ CalledInv'
    BY <1>t, <2>1 DEF RateTypeOK, ClocksInv, CalledInv, Rate!Missing
  <2> QED
    BY <2>3, <2>4 DEF RateInv
<1>6. CASE UNCHANGED rateVars
  BY <1>t, <1>b, <1>6
     DEF RateInv, rateVars, RateTypeOK, CalledInv, ClocksInv
<1> QED
  BY <1>1, <1>2, <1>3, <1>4, <1>5, <1>6 DEF Rate!Next

(***************************************************************************)
(* SearchIndex.                                                            *)
(***************************************************************************)

Steps == {"new", "commit", "index", "done", "raised", "failed"}

Rows == [content : Contents, fts : Contents \cup {None}, by : Upserts]

SearchTypeOK ==
  /\ row = None \/ row \in Rows
  /\ upsert \in [Upserts -> [pc : Steps, content : Contents \cup {None},
                             seen : Contents \cup {None}]]

\* What a call may rely on: the row it has found, or written, stays.
AtUpsert(u) ==
  /\ upsert[u].pc \in {"commit", "index"} => upsert[u].content \in Contents
  /\ upsert[u].pc = "index" \/ upsert[u].seen # None => row \in Rows

SearchInv ==
  SearchTypeOK /\ (\A u \in Upserts : AtUpsert(u)) /\ Search!TokensCurrent

LEMMA SearchInit == Search!Init => SearchInv
BY DEF Search!Init, SearchInv, SearchTypeOK, Steps, AtUpsert,
       Search!TokensCurrent

LEMMA SearchStep == SearchInv /\ [Search!Next]_searchVars => SearchInv'
<1> SUFFICES ASSUME SearchInv, [Search!Next]_searchVars
             PROVE  SearchInv'
  OBVIOUS
<1> USE DEF SearchInv, SearchTypeOK, AtUpsert, Search!TokensCurrent
<1>1. ASSUME NEW u \in Upserts, Search!Select(u)  PROVE SearchInv'
  <2>1. PICK content \in Contents :
          upsert' = [upsert EXCEPT ![u] =
            [pc |-> "commit", content |-> content,
             seen |-> IF row = None THEN None ELSE row.content]]
    BY <1>1 DEF Search!Select
  <2>2. upsert[u].pc = "new" /\ row' = row /\ cut' = cut
    BY <1>1 DEF Search!Select
  <2> DEFINE found == IF row = None THEN None ELSE row.content
  <2>3. found \in Contents \cup {None} /\ (found # None => row \in Rows)
    BY DEF Rows
  <2>4. upsert' = [upsert EXCEPT ![u] =
                     [pc |-> "commit", content |-> content, seen |-> found]]
    BY <2>1
  <2> HIDE DEF found
  <2>5. SearchTypeOK' /\ \A v \in Upserts : AtUpsert(v)'
    BY <2>2, <2>3, <2>4 DEF Steps
  <2>6. Search!TokensCurrent'
    BY <2>2, <2>4, Zenon DEF Rows
  <2> QED
    BY <2>5, <2>6
<1>2. ASSUME NEW u \in Upserts, Search!Commit(u)  PROVE SearchInv'
  <2>1. /\ upsert[u].pc = "commit" /\ cut' = cut
        /\ upsert[u].content \in Contents
    BY <1>2 DEF Search!Commit
  <2>2. CASE upsert[u].seen = None /\ row # None
    <3>1. upsert' = [upsert EXCEPT ![u].pc = "failed"] /\ row' = row
      BY <1>2, <2>2 DEF Search!Commit, Search!Goto
    <3>2. row \in Rows /\ row.by \in Upserts
      BY <2>2 DEF Rows
    <3> QED
      BY <2>1, <3>1, <3>2 DEF Steps
  <2>3. CASE ~(upsert[u].seen = None /\ row # None)
    <3>1. upsert' = [upsert EXCEPT ![u].pc = "index"]
      BY <1>2, <2>3 DEF Search!Commit, Search!Goto
    <3>2. row' \in Rows /\ (row'.by = u \/ row' = row)
      <4> DEFINE new == upsert[u].content
      <4>1. CASE upsert[u].seen = None
        BY <1>2, <2>1, <2>3, <4>1 DEF Search!Commit, Rows
      <4>2. CASE upsert[u].seen # None
        <5>1. row \in Rows
          BY <4>2
        <5>2. \/ row' = row
              \/ row' = [row EXCEPT !.content = new, !.by = u]
          BY <1>2, <2>3, <4>2 DEF Search!Commit
        <5> QED
          BY <2>1, <5>1, <5>2 DEF Rows
      <4> QED
        BY <4>1, <4>2
    <3>3. SearchTypeOK' /\ \A v \in Upserts : AtUpsert(v)'
      BY <2>1, <3>1, <3>2 DEF Steps
    <3>4. Search!TokensCurrent'
      BY <2>1, <3>1, <3>2
    <3> QED
      BY <3>3, <3>4
  <2> QED
    BY <2>2, <2>3
<1>3. ASSUME NEW u \in Upserts, Search!Index(u)  PROVE SearchInv'
  <2>1. /\ row \in Rows
        /\ row' = [row EXCEPT !.fts = row.content] /\ cut' = cut
    BY <1>3 DEF Search!Index, Search!Tokens
  <2>2. PICK outcome \in {"done", "raised"} :
          upsert' = [upsert EXCEPT ![u].pc = outcome]
    BY <1>3 DEF Search!Index, Search!Goto
  <2>3. row' \in Rows /\ row'.fts = row'.content
    BY <2>1 DEF Rows
  <2> QED
    BY <2>1, <2>2, <2>3 DEF Steps
<1>4. ASSUME NEW u \in Upserts, Search!Fail(u)  PROVE SearchInv'
  BY <1>4 DEF Search!Fail, Search!Goto, Steps
<1>5. CASE UNCHANGED searchVars
  BY <1>5 DEF searchVars
<1> QED
  BY <1>1, <1>2, <1>3, <1>4, <1>5 DEF Search!Next

(***************************************************************************)
(* FileStorage.                                                            *)
(***************************************************************************)

DeletionOK ==
  deletion \in [Deletions -> [pc : {"new", "cloud", "row", "done", "raised"},
                              file : Files \cup {None}]]

\* A call that is about to delete the row has dealt with the object.
ClearedInv ==
  \A d \in Deletions :
    deletion[d].pc = "row" /\ deletion[d].file \in object =>
      deletion[d].file \in late \cup uncleared

StorageInv == DeletionOK /\ ClearedInv /\ Storage!OrphansExplained

LEMMA StorageInit == Storage!Init => StorageInv
BY DEF Storage!Init, StorageInv, DeletionOK, ClearedInv,
       Storage!OrphansExplained

LEMMA StorageStep == StorageInv /\ [Storage!Next]_storageVars => StorageInv'
<1> SUFFICES ASSUME StorageInv, [Storage!Next]_storageVars
             PROVE  StorageInv'
  OBVIOUS
<1> USE DEF StorageInv, DeletionOK, ClearedInv, Storage!OrphansExplained
<1>1. ASSUME NEW f \in Files, Storage!GetUploadUrl(f)  PROVE StorageInv'
  BY <1>1 DEF Storage!GetUploadUrl
<1>2. ASSUME NEW f \in Files, Storage!Upload(f)  PROVE StorageInv'
  <2>1. /\ object' = object \cup {f} /\ late \subseteq late'
        /\ UNCHANGED <<stored, deletion, uncleared>>
        /\ f \notin stored => f \in late'
    BY <1>2 DEF Storage!Upload
  <2>2. ASSUME NEW d \in Deletions, deletion[d].pc = "row",
               deletion[d].file = f
        PROVE  f \in late'
    <3>1. deletion[d] = [pc |-> "row", file |-> f]
      BY <2>2
    <3> QED
      BY <1>2, <3>1 DEF Storage!Upload, Storage!Clearing
  <2> QED
    BY <2>1, <2>2
<1>3. ASSUME NEW f \in Files, Storage!UrlExpires(f)  PROVE StorageInv'
  BY <1>3 DEF Storage!UrlExpires
<1>4. ASSUME NEW d \in Deletions, NEW f \in Files, Storage!Delete(d, f)
      PROVE  StorageInv'
  <2>1. PICK pc \in {"cloud", "done"} :
          deletion' = [deletion EXCEPT ![d] = [pc |-> pc, file |-> f]]
    BY <1>4 DEF Storage!Delete
  <2> QED
    BY <1>4, <2>1 DEF Storage!Delete
<1>5. ASSUME NEW d \in Deletions, Storage!CloudDelete(d)  PROVE StorageInv'
  BY <1>5 DEF Storage!CloudDelete, Storage!Goto
<1>6. ASSUME NEW d \in Deletions, Storage!CloudDeleteFails(d)
      PROVE  StorageInv'
  <2>1. PICK pc \in {"raised", "row"} :
          /\ deletion' = [deletion EXCEPT ![d].pc = pc]
          /\ pc = "row" => deletion[d].file \in uncleared'
    BY <1>6 DEF Storage!CloudDeleteFails, Storage!Goto
  <2>2. /\ uncleared \subseteq uncleared' /\ object' \subseteq object
        /\ UNCHANGED <<stored, late>>
    BY <1>6 DEF Storage!CloudDeleteFails
  <2> QED
    BY <2>1, <2>2
<1>7. ASSUME NEW d \in Deletions, Storage!DeleteRow(d)  PROVE StorageInv'
  <2>1. PICK pc \in {"raised", "done"} :
          deletion' = [deletion EXCEPT ![d].pc = pc]
    BY <1>7 DEF Storage!DeleteRow, Storage!Goto
  <2>2. /\ deletion[d].pc = "row" /\ stored' = stored \ {deletion[d].file}
        /\ UNCHANGED <<object, late, uncleared>>
    BY <1>7 DEF Storage!DeleteRow
  <2> QED
    BY <2>1, <2>2
<1>8. ASSUME NEW d \in Deletions, Storage!DeleteFails(d)  PROVE StorageInv'
  BY <1>8 DEF Storage!DeleteFails, Storage!Goto
<1>9. CASE UNCHANGED storageVars
  BY <1>9 DEF storageVars
<1> QED
  BY <1>1, <1>2, <1>3, <1>4, <1>5, <1>6, <1>7, <1>8, <1>9 DEF Storage!Next

(***************************************************************************)
(* HealthChecks.                                                           *)
(***************************************************************************)

\* Results, by the check they are of; None has still to be collected.
Collections == UNION {[ks -> Nat \cup {None}] : ks \in SUBSET Checks}

HealthTypeOK ==
  /\ time \in Nat /\ cachedAt \in Nat /\ checks \subseteq Checks
  /\ since \in [Checks -> Nat]
  /\ cached = None \/ cached \in Collections
  /\ poll \in [Polls -> [pc : {"new", "gather", "done"}, now : Nat,
                         results : Collections \cup {None}]]

\* Results of a call that began then: none is older, and no check is missing
\* that was registered before and still is.
Fresh(results, began) ==
  /\ \A k \in DOMAIN results : results[k] # None => results[k] >= began
  /\ \A k \in checks : since[k] < began => k \in DOMAIN results

Complete(results) == \A k \in DOMAIN results : results[k] # None

AtPoll(p) ==
  LET results == poll[p].results
      now == poll[p].now IN
  /\ poll[p].pc # "new" => results \in Collections
  /\ poll[p].pc = "gather" => now <= time /\ Fresh(results, now)
  /\ poll[p].pc = "done" =>
       \A k \in DOMAIN results :
         results[k] \in Nat /\ results[k] + CacheSeconds > now

CachedInv ==
  cached # None =>
    cachedAt <= time /\ Fresh(cached, cachedAt) /\ Complete(cached)

HealthInv == HealthTypeOK /\ CachedInv /\ \A p \in Polls : AtPoll(p)

LEMMA HealthInit == Health!Init => HealthInv
BY DEF Health!Init, HealthInv, HealthTypeOK, CachedInv, AtPoll

\* What a collection is.
LEMMA CollectionType ==
  ASSUME NEW results \in Collections
  PROVE  /\ \A k \in DOMAIN results :
              k \in Checks /\ results[k] \in Nat \cup {None}
         /\ results = [k \in DOMAIN results |-> results[k]]
BY DEF Collections

\* A call's own steps leave the others, the clock and the checks alone.
LEMMA PollStep ==
  ASSUME HealthInv, NEW p \in Polls, NEW new,
         new \in [pc : {"new", "gather", "done"}, now : Nat,
                  results : Collections \cup {None}],
         poll' = [poll EXCEPT ![p] = new],
         UNCHANGED <<time, checks, since>>,
         AtPoll(p)'
  PROVE  /\ poll' \in [Polls -> [pc : {"new", "gather", "done"}, now : Nat,
                                 results : Collections \cup {None}]]
         /\ \A q \in Polls : AtPoll(q)'
<1>1. \A q \in Polls : q # p => poll'[q] = poll[q]
  BY DEF HealthInv, HealthTypeOK
<1>2. \A q \in Polls : q # p => AtPoll(q)'
  BY <1>1 DEF HealthInv, AtPoll, Fresh
<1> QED
  BY <1>2 DEF HealthInv, HealthTypeOK

LEMMA HealthStep == HealthInv /\ [Health!Next]_healthVars => HealthInv'
<1> SUFFICES ASSUME HealthInv, [Health!Next]_healthVars
             PROVE  HealthInv'
  OBVIOUS
<1>1. CASE Health!Tick
  BY <1>1 DEF Health!Tick, HealthInv, HealthTypeOK, CachedInv, AtPoll, Fresh,
              Complete
<1>2. ASSUME NEW k \in Checks, Health!Register(k)  PROVE HealthInv'
  <2>1. HealthTypeOK'
    BY <1>2 DEF Health!Register, HealthInv, HealthTypeOK
  <2>2. ASSUME NEW results, NEW began \in Nat, began <= time,
               Fresh(results, began)
        PROVE  Fresh(results, began)'
    BY <1>2, <2>2 DEF Health!Register, HealthInv, HealthTypeOK, Fresh
  <2> QED
    BY <1>2, <2>1, <2>2
       DEF Health!Register, HealthInv, HealthTypeOK, CachedInv, AtPoll, Complete
<1>3. ASSUME NEW k \in Checks, Health!Unregister(k)  PROVE HealthInv'
  BY <1>3 DEF Health!Unregister, HealthInv, HealthTypeOK, CachedInv, AtPoll,
              Fresh, Complete
<1>4. ASSUME NEW p \in Polls, Health!AnswerCached(p)  PROVE HealthInv'
  <2> DEFINE new == [pc |-> "done", now |-> time, results |-> cached]
  <2>1. /\ poll' = [poll EXCEPT ![p] = new]
        /\ cached # None /\ time < cachedAt + CacheSeconds
        /\ UNCHANGED <<time, checks, cachedAt, cached, since>>
    BY <1>4 DEF Health!AnswerCached, Health!IsCached
  <2>2. cached \in Collections /\ Fresh(cached, cachedAt) /\ Complete(cached)
    BY <2>1 DEF HealthInv, HealthTypeOK, CachedInv
  <2>3. \A k \in DOMAIN cached :
          cached[k] \in Nat /\ cached[k] + CacheSeconds > time
    BY <2>1, <2>2, CollectionType, ServicesAssumption
       DEF Fresh, Complete, HealthInv, HealthTypeOK
  <2>4. poll'[p] = new
    BY <2>1 DEF HealthInv, HealthTypeOK
  <2>5. AtPoll(p)'
    BY <2>2, <2>3, <2>4 DEF AtPoll
  <2>6. new \in [pc : {"new", "gather", "done"}, now : Nat,
                 results : Collections \cup {None}]
    BY <2>2 DEF HealthInv, HealthTypeOK
  <2> QED
    BY <2>1, <2>5, <2>6, PollStep
       DEF HealthInv, HealthTypeOK, CachedInv, Fresh, Complete
<1>5. ASSUME NEW p \in Polls, NEW useCache \in BOOLEAN,
             Health!Gather(p, useCache)
      PROVE  HealthInv'
  <2> DEFINE new == [pc |-> "gather", now |-> time,
                     results |-> [k \in checks |-> None]]
  <2>1. /\ poll' = [poll EXCEPT ![p] = new]
        /\ UNCHANGED <<time, checks, cachedAt, cached, since>>
    BY <1>5 DEF Health!Gather
  <2>2. new.results \in Collections
    <3>1. checks \in SUBSET Checks
          /\ new.results \in [checks -> Nat \cup {None}]
      BY DEF HealthInv, HealthTypeOK
    <3> QED
      BY <3>1 DEF Collections
  <2>3. poll'[p] = new
    BY <2>1 DEF HealthInv, HealthTypeOK
  <2>4. AtPoll(p)'
    BY <2>1, <2>2, <2>3 DEF AtPoll, Fresh, HealthInv, HealthTypeOK
  <2>5. new \in [pc : {"new", "gather", "done"}, now : Nat,
                 results : Collections \cup {None}]
    BY <2>2 DEF HealthInv, HealthTypeOK
  <2> QED
    BY <2>1, <2>4, <2>5, PollStep
       DEF HealthInv, HealthTypeOK, CachedInv, Fresh, Complete
<1>6. ASSUME NEW p \in Polls, NEW k \in Checks, Health!RunOne(p, k)
      PROVE  HealthInv'
  <2> DEFINE old == poll[p].results
             results == [old EXCEPT ![k] = time]
             new == [pc |-> "gather", now |-> poll[p].now, results |-> results]
  <2>1. /\ poll[p].pc = "gather" /\ k \in DOMAIN old
        /\ poll' = [poll EXCEPT ![p].results[k] = time]
        /\ UNCHANGED <<time, checks, cachedAt, cached, since>>
    BY <1>6 DEF Health!RunOne
  <2>2. old \in Collections /\ Fresh(old, poll[p].now) /\ poll[p].now <= time
    BY <2>1 DEF HealthInv, AtPoll
  <2>3. results \in Collections /\ DOMAIN results = DOMAIN old
    <3>1. PICK ks \in SUBSET Checks : old \in [ks -> Nat \cup {None}]
      BY <2>2 DEF Collections
    <3>2. results \in [ks -> Nat \cup {None}]
      BY <3>1 DEF HealthInv, HealthTypeOK
    <3> QED
      BY <3>1, <3>2 DEF Collections
  <2>11. poll[p] = [pc |-> "gather", now |-> poll[p].now,
                   results |-> poll[p].results]
    BY <2>1 DEF HealthInv, HealthTypeOK
  <2>12. poll' = [poll EXCEPT ![p] = [poll[p] EXCEPT !.results[k] = time]]
    BY <2>1
  <2>13. [poll[p] EXCEPT !.results[k] = time] = new
    BY <2>11
  <2>4. poll' = [poll EXCEPT ![p] = new] /\ poll'[p] = new
    BY <2>12, <2>13 DEF HealthInv, HealthTypeOK
  <2>5. Fresh(results, poll[p].now)
    BY <2>1, <2>2, <2>3 DEF Fresh
  <2>6. AtPoll(p)'
    BY <2>1, <2>2, <2>3, <2>4, <2>5 DEF AtPoll, Fresh
  <2>7. new \in [pc : {"new", "gather", "done"}, now : Nat,
                 results : Collections \cup {None}]
    BY <2>3 DEF HealthInv, HealthTypeOK
  <2> QED
    BY <2>1, <2>4, <2>6, <2>7, PollStep
       DEF HealthInv, HealthTypeOK, CachedInv, Fresh, Complete
<1>7. ASSUME NEW p \in Polls, Health!Answer(p)  PROVE HealthInv'
  <2> DEFINE results == poll[p].results
             new == [pc |-> "done", now |-> poll[p].now, results |-> results]
  <2>1. /\ poll[p].pc = "gather" /\ Complete(results)
        /\ poll' = [poll EXCEPT ![p].pc = "done"]
        /\ cached' = results /\ cachedAt' = poll[p].now
        /\ UNCHANGED <<time, checks, since>>
    BY <1>7 DEF Health!Answer, Health!Gathered, Complete
  <2>2. /\ results \in Collections /\ Fresh(results, poll[p].now)
        /\ poll[p].now <= time /\ poll[p].now \in Nat
    BY <2>1 DEF HealthInv, HealthTypeOK, AtPoll
  <2>3. \A k \in DOMAIN results :
          results[k] \in Nat /\ results[k] + CacheSeconds > poll[p].now
    BY <2>1, <2>2, CollectionType, ServicesAssumption, SMTT(30) DEF Fresh, Complete
  <2>11. poll[p] = [pc |-> "gather", now |-> poll[p].now,
                   results |-> poll[p].results]
    BY <2>1 DEF HealthInv, HealthTypeOK
  <2>12. poll' = [poll EXCEPT ![p] = [poll[p] EXCEPT !.pc = "done"]]
    BY <2>1
  <2>13. [poll[p] EXCEPT !.pc = "done"] = new
    BY <2>11
  <2>4. poll' = [poll EXCEPT ![p] = new] /\ poll'[p] = new
    BY <2>12, <2>13 DEF HealthInv, HealthTypeOK
  <2>5. AtPoll(p)'
    BY <2>2, <2>3, <2>4 DEF AtPoll
  <2>6. new \in [pc : {"new", "gather", "done"}, now : Nat,
                 results : Collections \cup {None}]
    BY <2>2
  <2>7. CachedInv'
    BY <2>1, <2>2 DEF CachedInv, Fresh, Complete
  <2>8. HealthTypeOK' /\ \A q \in Polls : AtPoll(q)'
    BY <2>1, <2>2, <2>4, <2>5, <2>6, PollStep DEF HealthInv, HealthTypeOK
  <2> QED
    BY <2>7, <2>8 DEF HealthInv
<1>8. CASE UNCHANGED healthVars
  BY <1>8 DEF healthVars, HealthInv, HealthTypeOK, CachedInv, AtPoll, Fresh,
              Complete
<1> QED
  BY <1>1, <1>2, <1>3, <1>4, <1>5, <1>6, <1>7, <1>8 DEF Health!Next

LEMMA HealthFresh == HealthInv => Health!AnswersFresh
<1> SUFFICES ASSUME HealthInv  PROVE Health!AnswersFresh
  OBVIOUS
<1>1. \A p \in Polls : poll[p].pc = "done" =>
        \A k \in DOMAIN poll[p].results :
          poll[p].results[k] + CacheSeconds > poll[p].now
  BY DEF HealthInv, AtPoll
<1>2. ASSUME Health!IsCached, NEW k \in checks, since[k] + CacheSeconds <= time
      PROVE  k \in DOMAIN cached
  BY <1>2, ServicesAssumption
     DEF Health!IsCached, HealthInv, HealthTypeOK, CachedInv, Fresh
<1> QED
  BY <1>1, <1>2 DEF Health!AnswersFresh

(***************************************************************************)
(* Cache.                                                                  *)
(***************************************************************************)

Entries == [ver : Nat, born : Nat, at : Nat]

Invalidations == [pc : {"new", "scan", "done"}, todo : SUBSET Keys,
                  number : [Keys -> Nat], seen : [Keys -> Nat]]

CacheTypeOK ==
  /\ entry \in [Keys -> Entries \cup {None}]
  /\ source \in [Keys -> Nat]
  /\ worker \in [Workers -> [pc : {"idle", "call", "set"},
                             key : Keys \cup {None}, ver : Nat, born : Nat]]
  /\ purge \in [Purges -> Invalidations]
  /\ begun \in [Keys -> Nat] /\ ended \in [Keys -> Nat]
  /\ seen \in [Keys -> Nat]

\* What was computed after invalidation n had begun is as new as the source
\* was by then, which is s.
Current(ver, born, n, s) == n <= born => s <= ver

\* The same for each value that is stored, or about to be.
AllCurrent(k, n, s) ==
  /\ entry[k] # None => Current(entry[k].ver, entry[k].born, n, s)
  /\ \A w \in Workers : worker[w].pc = "set" /\ worker[w].key = k =>
       Current(worker[w].ver, worker[w].born, n, s)

\* What is known of an invalidation with number n, when the source was s.
Numbered(k, n, s) == n <= begun[k] /\ s <= source[k] /\ AllCurrent(k, n, s)

AtWorker(w) ==
  /\ worker[w].pc # "idle" => worker[w].key \in Keys
  /\ worker[w].pc = "set" => worker[w].born <= begun[worker[w].key]

\* A SCAN has still to come by each entry that was there when it began.
AtPurge(p) ==
  purge[p].pc = "scan" => \A k \in Keys :
    /\ Numbered(k, purge[p].number[k], purge[p].seen[k])
    /\ entry[k] # None /\ entry[k].at < purge[p].number[k] =>
         k \in purge[p].todo

AtKey(k) ==
  /\ Numbered(k, ended[k], seen[k])
  /\ entry[k] # None => /\ ended[k] <= entry[k].at
                             /\ entry[k].at <= begun[k]
  /\ entry[k] # None => entry[k].born <= begun[k]

CacheInv ==
  /\ CacheTypeOK
  /\ \A w \in Workers : AtWorker(w)
  /\ \A p \in Purges : AtPurge(p)
  /\ \A k \in Keys : AtKey(k)

LEMMA CacheStale == CacheInv => CacheOf!StaleOnlyByOverlap
<1> SUFFICES ASSUME CacheInv, NEW k \in Keys, entry[k] # None,
                    entry[k].ver < seen[k]
             PROVE  entry[k].born < ended[k] /\ ended[k] <= entry[k].at
  BY DEF CacheOf!StaleOnlyByOverlap
<1>1. entry[k] \in Entries
  BY DEF CacheInv, CacheTypeOK
<1>2. /\ entry[k].ver \in Nat /\ entry[k].born \in Nat
      /\ ended[k] \in Nat /\ seen[k] \in Nat
  BY <1>1 DEF Entries, CacheInv, CacheTypeOK
<1> QED
  BY <1>1, <1>2 DEF CacheInv, AtKey, Numbered, AllCurrent, Current

LEMMA CacheInit == CacheOf!Init => CacheInv
<1> SUFFICES ASSUME CacheOf!Init  PROVE CacheInv
  OBVIOUS
<1>1. CacheTypeOK
  BY DEF CacheOf!Init, CacheTypeOK, Invalidations
<1>2. \A k \in Keys : entry[k] = None
  BY DEF CacheOf!Init
<1> QED
  BY <1>1, <1>2
     DEF CacheOf!Init, CacheInv, AtWorker, AtPurge, AtKey, Numbered, AllCurrent

CallOf == [pc : {"idle", "call", "set"}, key : Keys \cup {None}, ver : Nat,
           born : Nat]

\* A call's own steps leave the others and the store alone.
LEMMA CallStep ==
  ASSUME CacheInv, NEW w \in Workers, worker' \in [Workers -> CallOf],
         \A v \in Workers : v # w => worker'[v] = worker[v],
         UNCHANGED <<entry, source, purge, begun, ended, seen>>,
         worker'[w].pc # "idle" => worker'[w].key \in Keys,
         worker'[w].pc = "set" =>
           LET k == worker'[w].key IN
           /\ worker'[w].born <= begun[k]
           /\ \A n, s \in Nat :
                n <= begun[k] /\ s <= source[k] =>
                  Current(worker'[w].ver, worker'[w].born, n, s)
  PROVE  CacheInv'
<1> USE DEF CacheInv
<1>1. CacheTypeOK'
  BY DEF CacheTypeOK, CallOf
<1>2. ASSUME NEW k \in Keys, NEW n \in Nat, NEW s \in Nat, Numbered(k, n, s)
      PROVE  Numbered(k, n, s)'
  BY <1>2 DEF Numbered, AllCurrent
<1>3. ASSUME NEW k \in Keys  PROVE AtKey(k)'
  <2>1. ended[k] \in Nat /\ seen[k] \in Nat
    BY DEF CacheTypeOK
  <2>2. Numbered(k, ended[k], seen[k])'
    BY <1>2, <2>1 DEF AtKey
  <2> QED
    BY <2>2 DEF AtKey
<1>4. ASSUME NEW p \in Purges  PROVE AtPurge(p)'
  BY <1>2 DEF AtPurge, CacheTypeOK, Invalidations
<1>5. ASSUME NEW v \in Workers  PROVE AtWorker(v)'
  BY DEF AtWorker
<1> QED
  BY <1>1, <1>3, <1>4, <1>5

\* What an update of two or three fields of a call leaves.
LEMMA CallKeyed ==
  ASSUME worker \in [Workers -> CallOf], NEW w \in Workers,
         NEW pc \in {"idle", "call", "set"}, NEW k \in Keys \cup {None},
         worker' = [worker EXCEPT ![w].pc = pc, ![w].key = k]
  PROVE  /\ worker' \in [Workers -> CallOf]
         /\ worker'[w].pc = pc /\ worker'[w].key = k
         /\ \A v \in Workers : v # w => worker'[v] = worker[v]
BY DEF CallOf

LEMMA CallComputed ==
  ASSUME worker \in [Workers -> CallOf], NEW w \in Workers,
         NEW pc \in {"idle", "call", "set"}, NEW n \in Nat, NEW m \in Nat,
         worker' = [worker EXCEPT ![w].pc = pc, ![w].ver = n, ![w].born = m]
  PROVE  /\ worker' \in [Workers -> CallOf]
         /\ worker'[w].pc = pc /\ worker'[w].key = worker[w].key
         /\ worker'[w].ver = n /\ worker'[w].born = m
         /\ \A v \in Workers : v # w => worker'[v] = worker[v]
BY DEF CallOf

\* An invalidation that moves on, or leaves a key behind, is one still.
LEMMA InvalidationStep ==
  ASSUME purge \in [Purges -> Invalidations], NEW p \in Purges,
         \/ purge' = [purge EXCEPT ![p].pc = "done"]
         \/ \E k \in Keys : purge' = [purge EXCEPT ![p].todo = @ \ {k}]
  PROVE  purge' \in [Purges -> Invalidations]
<1>1. purge[p] \in Invalidations
  OBVIOUS
<1>2. CASE purge' = [purge EXCEPT ![p].pc = "done"]
  <2>1. [purge[p] EXCEPT !.pc = "done"] \in Invalidations
    BY <1>1 DEF Invalidations
  <2> QED
    BY <1>2, <2>1
<1>3. ASSUME NEW k \in Keys, purge' = [purge EXCEPT ![p].todo = @ \ {k}]
      PROVE  purge' \in [Purges -> Invalidations]
  <2>1. purge[p].todo \ {k} \in SUBSET Keys
    BY <1>1 DEF Invalidations
  <2>2. [purge[p] EXCEPT !.todo = @ \ {k}] \in Invalidations
    BY <1>1, <2>1 DEF Invalidations
  <2> QED
    BY <1>3, <2>2
<1> QED
  BY <1>2, <1>3

LEMMA CacheStep == CacheInv /\ [CacheOf!Next]_cacheVars => CacheInv'
<1> SUFFICES ASSUME CacheInv, [CacheOf!Next]_cacheVars
             PROVE  CacheInv'
  OBVIOUS
<1> USE DEF CacheInv
<1>1. ASSUME NEW k \in Keys, CacheOf!Change(k)  PROVE CacheInv'
  <2>1. /\ source' = [source EXCEPT ![k] = @ + 1]
        /\ UNCHANGED <<entry, worker, purge, shared, begun, ended, seen>>
    BY <1>1 DEF CacheOf!Change
  <2>2. \A l \in Keys : source[l] <= source'[l]
    BY <2>1 DEF CacheTypeOK
  <2>3. CacheTypeOK'
    BY <2>1 DEF CacheTypeOK
  <2>4. ASSUME NEW l \in Keys, NEW n \in Nat, NEW s \in Nat, Numbered(l, n, s)
        PROVE  Numbered(l, n, s)'
    BY <2>1, <2>2, <2>3, <2>4 DEF Numbered, AllCurrent, CacheTypeOK
  <2>5. \A l \in Keys : AtKey(l)'
    BY <2>1, <2>4 DEF AtKey, CacheTypeOK
  <2>6. \A p \in Purges : AtPurge(p)'
    BY <2>1, <2>4 DEF AtPurge, CacheTypeOK, Invalidations
  <2> QED
    BY <2>1, <2>3, <2>5, <2>6 DEF AtWorker
<1>2. ASSUME NEW k \in Keys, CacheOf!Expire(k)  PROVE CacheInv'
  <2>1. /\ entry' = [entry EXCEPT ![k] = None]
        /\ UNCHANGED <<source, worker, purge, shared, begun, ended, seen>>
    BY <1>2 DEF CacheOf!Expire
  <2> QED
    BY <2>1 DEF CacheTypeOK, AtWorker, AtPurge, AtKey, Numbered, AllCurrent
<1>3. ASSUME NEW w \in Workers, NEW k \in Keys, CacheOf!Get(w, k)
      PROVE  CacheInv'
  <2>1. /\ worker' = [worker EXCEPT ![w].pc = "call", ![w].key = k]
        /\ UNCHANGED <<entry, source, purge, shared, begun, ended, seen>>
    BY <1>3 DEF CacheOf!Get
  <2>2. /\ worker' \in [Workers -> CallOf]
        /\ worker'[w].pc = "call" /\ worker'[w].key = k
        /\ \A v \in Workers : v # w => worker'[v] = worker[v]
    <3>1. worker \in [Workers -> CallOf]
      BY DEF CacheTypeOK, CallOf
    <3>2. "call" \in {"idle", "call", "set"} /\ k \in Keys \cup {None}
      OBVIOUS
    <3>3. worker' = [worker EXCEPT ![w].pc = "call", ![w].key = k]
      BY <2>1
    <3> QED
      BY <3>1, <3>2, <3>3, CallKeyed, Zenon
  <2> QED
    BY <2>1, <2>2, CallStep
<1>4. ASSUME NEW w \in Workers, CacheOf!Compute(w)  PROVE CacheInv'
  <2> DEFINE k == worker[w].key
  <2>1. /\ worker[w].pc = "call" /\ k \in Keys
        /\ UNCHANGED <<entry, source, purge, shared, begun, ended, seen>>
    BY <1>4 DEF CacheOf!Compute, AtWorker
  <2>2. CASE worker' = [worker EXCEPT ![w].pc = "idle", ![w].key = None]
    <3>1. /\ worker' \in [Workers -> CallOf]
          /\ worker'[w].pc = "idle"
          /\ \A v \in Workers : v # w => worker'[v] = worker[v]
      <4>1. worker \in [Workers -> CallOf]
        BY DEF CacheTypeOK, CallOf
      <4>2. "idle" \in {"idle", "call", "set"} /\ None \in Keys \cup {None}
        OBVIOUS
      <4> QED
        BY <2>2, <4>1, <4>2, CallKeyed, Zenon
    <3> QED
      BY <2>1, <3>1, CallStep
  <2>3. CASE worker' = [worker EXCEPT ![w].pc = "set", ![w].ver = source[k],
                                      ![w].born = begun[k]]
    <3>1. source[k] \in Nat /\ begun[k] \in Nat
      BY <2>1 DEF CacheTypeOK
    <3>2. worker \in [Workers -> CallOf]
      BY DEF CacheTypeOK, CallOf
    <3>3. /\ worker' \in [Workers -> CallOf]
          /\ worker'[w].pc = "set" /\ worker'[w].key = k
          /\ worker'[w].ver = source[k] /\ worker'[w].born = begun[k]
          /\ \A v \in Workers : v # w => worker'[v] = worker[v]
      <4>1. "set" \in {"idle", "call", "set"}
        OBVIOUS
      <4> QED
        BY <2>3, <3>1, <3>2, <4>1, CallComputed, Zenon
    <3>4. /\ worker'[w].born <= begun[k]
          /\ \A n, s \in Nat : n <= begun[k] /\ s <= source[k] =>
               Current(worker'[w].ver, worker'[w].born, n, s)
      BY <3>1, <3>3 DEF Current
    <3> QED
      BY <2>1, <3>3, <3>4, CallStep
  <2> QED
    BY <1>4, <2>2, <2>3 DEF CacheOf!Compute
<1>5. ASSUME NEW w \in Workers, CacheOf!Set(w)  PROVE CacheInv'
  <2> DEFINE k == worker[w].key
             new == [ver |-> worker[w].ver, born |-> worker[w].born,
                     at |-> begun[k]]
  <2>1. /\ worker[w].pc = "set" /\ k \in Keys /\ worker[w].born <= begun[k]
        /\ entry' = [entry EXCEPT ![k] = new]
        /\ worker' = [worker EXCEPT ![w] = [pc |-> "idle", key |-> None,
                                            ver |-> 0, born |-> 0]]
        /\ UNCHANGED <<source, purge, shared, begun, ended, seen>>
    BY <1>5 DEF CacheOf!Set, AtWorker
  <2>2. new \in Entries
    BY <2>1 DEF CacheTypeOK, Entries
  <2>3. CacheTypeOK'
    BY <2>1, <2>2 DEF CacheTypeOK
  <2>4. ASSUME NEW l \in Keys, NEW n \in Nat, NEW s \in Nat, Numbered(l, n, s)
        PROVE  Numbered(l, n, s)'
    BY <2>1, <2>4 DEF CacheTypeOK, Numbered, AllCurrent
  <2>5. \A l \in Keys : l # k => entry'[l] = entry[l]
    BY <2>1 DEF CacheTypeOK
  <2>6. entry'[k] = new
    BY <2>1 DEF CacheTypeOK
  <2>7. \A l \in Keys : AtKey(l)'
    <3>0. \A l \in Keys : Numbered(l, ended[l], seen[l])'
      <4> SUFFICES ASSUME NEW l \in Keys
                   PROVE  Numbered(l, ended[l], seen[l])'
        OBVIOUS
      <4>1. ended[l] \in Nat /\ seen[l] \in Nat
        BY DEF CacheTypeOK
      <4> QED
        BY <2>1, <2>4, <4>1 DEF AtKey
    <3>1. ASSUME NEW l \in Keys, l # k  PROVE AtKey(l)'
      <4>1. /\ entry'[l] = entry[l] /\ ended'[l] = ended[l]
            /\ begun'[l] = begun[l]
        BY <2>1, <2>5, <3>1
      <4> QED
        BY <3>0, <4>1 DEF AtKey
    <3>2. ASSUME NEW l \in Keys, l = k  PROVE AtKey(l)'
      <4>1. /\ begun[k] \in Nat /\ ended[k] <= begun[k]
            /\ new.at = begun[k] /\ new.born <= begun[k]
        BY <2>1 DEF AtKey, Numbered, CacheTypeOK
      <4>2. ended'[k] = ended[k] /\ begun'[k] = begun[k]
        BY <2>1
      <4> HIDE DEF new
      <4> QED
        BY <2>6, <3>0, <3>2, <4>1, <4>2 DEF AtKey
    <3> QED
      BY <3>1, <3>2
  <2>8. \A p \in Purges : AtPurge(p)'
    <3> SUFFICES ASSUME NEW p \in Purges, purge[p].pc = "scan", NEW l \in Keys
                 PROVE  /\ Numbered(l, purge[p].number[l], purge[p].seen[l])'
                        /\ entry'[l] # None /\ entry'[l].at < purge[p].number[l]
                             => l \in purge[p].todo
      BY <2>1 DEF AtPurge
    <3>1. /\ purge[p].number[l] \in Nat /\ purge[p].seen[l] \in Nat
          /\ Numbered(l, purge[p].number[l], purge[p].seen[l])
          /\ begun[l] \in Nat
      BY DEF AtPurge, CacheTypeOK, Invalidations
    <3>2. Numbered(l, purge[p].number[l], purge[p].seen[l])'
      BY <2>1, <2>4, <3>1
    <3>3. purge[p].number[l] <= begun[l]
      BY <3>1 DEF Numbered
    <3>4. CASE l = k
      BY <2>6, <3>1, <3>2, <3>3, <3>4
    <3>5. CASE l # k
      BY <2>5, <3>2, <3>5 DEF AtPurge
    <3> QED
      BY <3>4, <3>5
  <2>9. \A v \in Workers : AtWorker(v)'
    BY <2>1 DEF CacheTypeOK, AtWorker
  <2> QED
    BY <2>3, <2>7, <2>8, <2>9

<1>6. ASSUME NEW p \in Purges, NEW ks \in SUBSET Keys, CacheOf!Delete(p, ks)
      PROVE  CacheInv'
  <2>1. /\ purge[p].pc = "new"
        /\ purge' = [purge EXCEPT ![p].pc = "done"]
        /\ entry' = [k \in Keys |-> IF k \in ks THEN None ELSE entry[k]]
        /\ begun' = [k \in Keys |-> IF k \in ks THEN begun[k] + 1 ELSE begun[k]]
        /\ ended' = [k \in Keys |-> IF k \in ks THEN begun'[k] ELSE ended[k]]
        /\ seen' = [k \in Keys |-> IF k \in ks THEN source[k] ELSE seen[k]]
        /\ UNCHANGED <<source, worker>>
    BY <1>6 DEF CacheOf!Delete
  <2>2. begun' \in [Keys -> Nat] /\ \A k \in Keys : begun[k] <= begun'[k]
    BY <2>1 DEF CacheTypeOK
  <2>3. CacheTypeOK'
    <3>1. entry' \in [Keys -> Entries \cup {None}]
      BY <2>1 DEF CacheTypeOK
    <3>2. ended' \in [Keys -> Nat] /\ seen' \in [Keys -> Nat]
      BY <2>1, <2>2 DEF CacheTypeOK
    <3>3. purge' \in [Purges -> Invalidations]
      <4>1. purge \in [Purges -> Invalidations]
        BY DEF CacheTypeOK
      <4> QED
        BY <2>1, <4>1, InvalidationStep, Zenon
    <3> QED
      BY <2>1, <2>2, <3>1, <3>2, <3>3 DEF CacheTypeOK
  <2>4. ASSUME NEW k \in Keys, NEW n \in Nat, NEW s \in Nat, Numbered(k, n, s)
        PROVE  Numbered(k, n, s)'
    BY <2>1, <2>2, <2>4 DEF CacheTypeOK, Numbered, AllCurrent
  <2>5. ASSUME NEW k \in Keys  PROVE AtKey(k)'
    <3>1. CASE k \in ks
      <4>1. /\ entry'[k] = None /\ ended'[k] = begun[k] + 1
            /\ begun'[k] = begun[k] + 1 /\ seen'[k] = source[k]
            /\ begun[k] \in Nat /\ source[k] \in Nat
        BY <2>1, <2>2, <3>1 DEF CacheTypeOK
      <4>2. ASSUME NEW w \in Workers, worker[w].pc = "set", worker[w].key = k
            PROVE  worker[w].born <= begun[k] /\ worker[w].born \in Nat
        BY <4>2 DEF AtWorker, CacheTypeOK
      <4> QED
        BY <2>1, <4>1, <4>2 DEF AtKey, Numbered, AllCurrent, Current
    <3>2. CASE k \notin ks
      <4>1. /\ entry'[k] = entry[k] /\ ended'[k] = ended[k]
            /\ begun'[k] = begun[k] /\ seen'[k] = seen[k]
        BY <2>1, <3>2
      <4> QED
        BY <2>1, <4>1 DEF AtKey, Numbered, AllCurrent
    <3> QED
      BY <3>1, <3>2
  <2>6. \A q \in Purges : AtPurge(q)'
    BY <2>1, <2>4 DEF AtPurge, CacheTypeOK, Invalidations
  <2>7. \A w \in Workers : AtWorker(w)'
    BY <2>1, <2>2 DEF AtWorker, CacheTypeOK
  <2> QED
    BY <2>3, <2>5, <2>6, <2>7
<1>7. ASSUME NEW p \in Purges, CacheOf!ScanBegin(p)  PROVE CacheInv'
  <2>1. begun' = [k \in Keys |-> begun[k] + 1]
    BY <1>7 DEF CacheOf!ScanBegin
  <2> DEFINE todo == {k \in Keys : entry[k] # None}
             new == [pc |-> "scan", todo |-> todo, number |-> begun',
                     seen |-> source]
  <2>2. /\ purge' = [purge EXCEPT ![p] = new]
        /\ UNCHANGED <<entry, source, worker, ended, seen>>
    BY <1>7 DEF CacheOf!ScanBegin, CacheOf!Scanned
  <2>3. begun' \in [Keys -> Nat] /\ \A k \in Keys : begun[k] <= begun'[k]
    BY <2>1 DEF CacheTypeOK
  <2>4. purge'[p] = new /\ \A q \in Purges : q # p => purge'[q] = purge[q]
    BY <2>2 DEF CacheTypeOK
  <2>5. CacheTypeOK'
    BY <2>2, <2>3 DEF CacheTypeOK, Invalidations
  <2>6. ASSUME NEW k \in Keys, NEW n \in Nat, NEW s \in Nat, Numbered(k, n, s)
        PROVE  Numbered(k, n, s)'
    BY <2>2, <2>3, <2>6 DEF CacheTypeOK, Numbered, AllCurrent
  <2>7. \A k \in Keys : AtKey(k)'
    BY <2>2, <2>3, <2>6 DEF AtKey, CacheTypeOK, Entries
  <2>8. ASSUME NEW k \in Keys
        PROVE  /\ Numbered(k, begun[k], source[k])'
               /\ entry[k] # None => k \in todo
    <3>1. /\ begun[k] \in Nat /\ source[k] \in Nat /\ begun'[k] = begun[k] + 1
          /\ entry[k] # None => entry[k].born \in Nat
      BY <2>1 DEF CacheTypeOK, Entries
    <3>2. ASSUME NEW w \in Workers, worker[w].pc = "set", worker[w].key = k
          PROVE  worker[w].born <= begun[k] /\ worker[w].born \in Nat
      BY <3>2 DEF AtWorker, CacheTypeOK
    <3> QED
      BY <2>2, <3>1, <3>2 DEF AtKey, Numbered, AllCurrent, Current
  <2>9. \A q \in Purges : AtPurge(q)'
    <3>1. AtPurge(p)'
      BY <2>2, <2>4, <2>8 DEF AtPurge
    <3>2. ASSUME NEW q \in Purges, q # p  PROVE AtPurge(q)'
      BY <2>2, <2>4, <2>6, <3>2 DEF AtPurge, CacheTypeOK, Invalidations
    <3> QED
      BY <3>1, <3>2
  <2>10. \A w \in Workers : AtWorker(w)'
    BY <2>2, <2>3 DEF AtWorker, CacheTypeOK
  <2> QED
    BY <2>5, <2>7, <2>9, <2>10
<1>8. ASSUME NEW p \in Purges, NEW k \in Keys, CacheOf!ScanDelete(p, k)
      PROVE  CacheInv'
  <2>1. /\ entry' = [entry EXCEPT ![k] = None]
        /\ purge' = [purge EXCEPT ![p].todo = @ \ {k}]
        /\ UNCHANGED <<source, worker, begun, ended, seen>>
    BY <1>8 DEF CacheOf!ScanDelete
  <2>2. CacheTypeOK'
    <3>1. entry' \in [Keys -> Entries \cup {None}]
      BY <2>1 DEF CacheTypeOK
    <3>2. purge' \in [Purges -> Invalidations]
      <4>1. purge \in [Purges -> Invalidations]
        BY DEF CacheTypeOK
      <4> QED
        BY <2>1, <4>1, InvalidationStep, Zenon
    <3> QED
      BY <2>1, <3>1, <3>2 DEF CacheTypeOK
  <2>3. ASSUME NEW l \in Keys, NEW n \in Nat, NEW s \in Nat, Numbered(l, n, s)
        PROVE  Numbered(l, n, s)'
    BY <2>1, <2>3 DEF CacheTypeOK, Numbered, AllCurrent
  <2>4. \A l \in Keys : AtKey(l)'
    BY <2>1, <2>3 DEF AtKey, CacheTypeOK
  <2>5. ASSUME NEW q \in Purges  PROVE AtPurge(q)'
    <3>1. /\ purge'[q].pc = purge[q].pc /\ purge'[q].number = purge[q].number
          /\ purge'[q].seen = purge[q].seen
          /\ purge[q].todo \ {k} \subseteq purge'[q].todo
      BY <2>1 DEF CacheTypeOK
    <3>2. \A l \in Keys : entry'[l] # None => l # k /\ entry'[l] = entry[l]
      BY <2>1 DEF CacheTypeOK
    <3>3. \A l \in Keys :
            purge[q].number[l] \in Nat /\ purge[q].seen[l] \in Nat
      BY DEF CacheTypeOK, Invalidations
    <3> QED
      BY <2>3, <3>1, <3>2, <3>3 DEF AtPurge
  <2> QED
    BY <2>1, <2>2, <2>4, <2>5 DEF AtWorker
<1>9. ASSUME NEW p \in Purges, CacheOf!ScanEnd(p)  PROVE CacheInv'
  <2> DEFINE number == purge[p].number
             later(k) == number[k] > ended[k]
  <2>1. /\ purge[p].pc = "scan" /\ purge[p].todo = {}
        /\ purge' = [purge EXCEPT ![p].pc = "done"]
        /\ ended' = [k \in Keys |-> IF later(k) THEN number[k] ELSE ended[k]]
        /\ seen' = [k \in Keys |-> IF later(k) THEN purge[p].seen[k] ELSE seen[k]]
        /\ UNCHANGED <<entry, source, worker, begun>>
    BY <1>9 DEF CacheOf!ScanEnd
  <2>2. number \in [Keys -> Nat] /\ purge[p].seen \in [Keys -> Nat]
    BY DEF CacheTypeOK, Invalidations
  <2>3. CacheTypeOK'
    <3>1. ended' \in [Keys -> Nat] /\ seen' \in [Keys -> Nat]
      BY <2>1, <2>2 DEF CacheTypeOK
    <3>2. purge' \in [Purges -> Invalidations]
      <4>1. purge \in [Purges -> Invalidations]
        BY DEF CacheTypeOK
      <4> QED
        BY <2>1, <4>1, InvalidationStep, Zenon
    <3> QED
      BY <2>1, <3>1, <3>2 DEF CacheTypeOK
  <2>4. ASSUME NEW k \in Keys  PROVE AtKey(k)'
    <3>1. CASE later(k)
      <4>1. ended'[k] = number[k] /\ seen'[k] = purge[p].seen[k]
        BY <2>1, <3>1
      <4>2. /\ Numbered(k, number[k], purge[p].seen[k])
            /\ ~(entry[k] # None /\ entry[k].at < number[k])
        BY <2>1 DEF AtPurge
      <4>3. number[k] \in Nat /\ (entry[k] # None => entry[k].at \in Nat)
        BY <2>2 DEF CacheTypeOK, Entries
      <4> QED
        BY <2>1, <4>1, <4>2, <4>3 DEF AtKey, Numbered, AllCurrent
    <3>2. CASE ~later(k)
      <4>1. ended'[k] = ended[k] /\ seen'[k] = seen[k]
        BY <2>1, <3>2
      <4> QED
        BY <2>1, <4>1 DEF AtKey, Numbered, AllCurrent
    <3> QED
      BY <3>1, <3>2
  <2>5. \A q \in Purges : AtPurge(q)'
    BY <2>1 DEF AtPurge, CacheTypeOK, Numbered, AllCurrent
  <2> QED
    BY <2>1, <2>3, <2>4, <2>5 DEF AtWorker
<1>10. CASE UNCHANGED cacheVars
  BY <1>10 DEF cacheVars, CacheTypeOK, AtWorker, AtPurge, AtKey, Numbered,
               AllCurrent
<1>11. \A k \in Keys : {k} \in SUBSET Keys
  OBVIOUS
<1> QED
  BY <1>1, <1>2, <1>3, <1>4, <1>5, <1>6, <1>7, <1>8, <1>9, <1>10, <1>11
     DEF CacheOf!Next

(***************************************************************************)
(* LlmCalls.                                                               *)
(***************************************************************************)

LlmSteps == {"idle", "check", "hit", "call", "refused", "record", "raised",
             "failed", "store", "done"}

Providers == 1..Len(MaxRetries)

LlmTypeOK ==
  /\ caller \in [LlmCallers -> [pc : LlmSteps, provider : Providers,
                                attempt : Nat]]
  /\ errors \in [LlmCallers -> Seq(Providers)]
  /\ used \in Nat

Tries(s, p) == Cardinality({i \in DOMAIN s : s[i] = p})

\* The errors of a call, in order: all tries of the providers before its own,
\* those before its attempt of its own, none of the later ones.
InOrder(s, own) ==
  /\ \A i \in DOMAIN s : s[i] <= own
  /\ \A i, j \in DOMAIN s : i < j => s[i] <= s[j]
  /\ \A p \in Providers :
       /\ p < own => Tries(s, p) = MaxRetries[p]
       /\ own < p => Tries(s, p) = 0

AtCaller(c) ==
  LET own == caller[c].provider IN
  /\ InOrder(errors[c], own)
  /\ IF caller[c].pc = "failed"
       THEN own = Len(MaxRetries) /\ Tries(errors[c], own) = MaxRetries[own]
       ELSE /\ Tries(errors[c], own) = caller[c].attempt - 1
            /\ caller[c].attempt <= MaxRetries[own]

Overrun ==
  used + Cardinality(Llm!Passed) * MaxTokens
    < Limit + Cardinality(LlmCallers) * MaxTokens

LlmInv ==
  LlmTypeOK /\ Overrun /\ \A c \in LlmCallers : AtCaller(c)

LEMMA RetriesType ==
  /\ Len(MaxRetries) \in Nat /\ 1 \in Providers
  /\ \A p \in Providers : MaxRetries[p] \in Nat /\ 1 <= MaxRetries[p]
BY ServicesAssumption DEF Providers

\* How many errors of a provider there are after one more.
LEMMA TriesAppend ==
  ASSUME NEW s \in Seq(Providers), NEW p \in Providers, NEW q \in Providers
  PROVE  /\ Tries(s, p) \in Nat
         /\ Tries(Append(s, q), p) =
              IF p = q THEN Tries(s, p) + 1 ELSE Tries(s, p)
<1> DEFINE t == Append(s, q)
           old == {i \in DOMAIN s : s[i] = p}
           new == {i \in DOMAIN t : t[i] = p}
<1>1. /\ Len(s) \in Nat /\ DOMAIN s = 1..Len(s) /\ DOMAIN t = 1..(Len(s) + 1)
      /\ \A i \in DOMAIN s : t[i] = s[i]
      /\ t[Len(s) + 1] = q
  OBVIOUS
<1>2. IsFiniteSet(old)
  <2>1. IsFiniteSet(1..Len(s))
    BY <1>1, FS_Interval
  <2>2. old \subseteq 1..Len(s)
    BY <1>1
  <2> QED
    BY <2>1, <2>2, FS_Subset
<1>3. Cardinality(old) \in Nat
  BY <1>2, FS_CardinalityType
<1>4. CASE p = q
  <2>1. new = old \cup {Len(s) + 1} /\ Len(s) + 1 \notin old
    BY <1>1, <1>4
  <2>2. Cardinality(new) = Cardinality(old) + 1
    BY <1>2, <2>1, FS_AddElement
  <2> QED
    BY <1>3, <1>4, <2>2 DEF Tries
<1>5. CASE p # q
  <2>1. new = old
    BY <1>1, <1>5
  <2> QED
    BY <1>3, <1>5, <2>1 DEF Tries
<1> QED
  BY <1>4, <1>5

\* What Fail makes of the errors of a call.
LEMMA OneMore ==
  ASSUME NEW s \in Seq(Providers), NEW own \in Providers, InOrder(s, own)
  PROVE  /\ Append(s, own) \in Seq(Providers)
         /\ InOrder(Append(s, own), own)
         /\ Tries(Append(s, own), own) = Tries(s, own) + 1
<1> DEFINE t == Append(s, own)
<1>1. /\ Len(s) \in Nat /\ DOMAIN s = 1..Len(s) /\ DOMAIN t = 1..(Len(s) + 1)
      /\ \A i \in DOMAIN s : t[i] = s[i] /\ s[i] \in Providers
      /\ t[Len(s) + 1] = own /\ t \in Seq(Providers)
  OBVIOUS
<1>2. \A p \in Providers :
        Tries(t, p) = IF p = own THEN Tries(s, p) + 1 ELSE Tries(s, p)
  BY TriesAppend
<1> HIDE DEF t
<1>3. \A i \in DOMAIN t : t[i] <= own
  BY <1>1, SMTT(30) DEF InOrder, Providers
<1>4. \A i, j \in DOMAIN t : i < j => t[i] <= t[j]
  <2> SUFFICES ASSUME NEW i \in DOMAIN t, NEW j \in DOMAIN t, i < j
               PROVE  t[i] <= t[j]
    OBVIOUS
  <2>1. CASE j = Len(s) + 1
    BY <1>1, <1>3, <2>1
  <2>2. CASE j # Len(s) + 1
    <3>1. i \in DOMAIN s /\ j \in DOMAIN s
      BY <1>1, <2>2
    <3> QED
      BY <1>1, <3>1 DEF InOrder
  <2> QED
    BY <2>1, <2>2
<1>5. \A p \in Providers : /\ p < own => Tries(t, p) = MaxRetries[p]
                           /\ own < p => Tries(t, p) = 0
  <2> SUFFICES ASSUME NEW p \in Providers, p # own
               PROVE  Tries(t, p) = Tries(s, p)
    BY DEF InOrder, Providers
  <2> QED
    BY <1>2
<1> QED
  BY <1>1, <1>2, <1>3, <1>4, <1>5 DEF InOrder, t

LEMMA Products ==
  /\ \A i, j \in Nat : i * j \in Nat
  /\ \A i, j, k \in Nat : i <= j => i * k <= j * k
OBVIOUS

LEMMA NoErrors == InOrder(<<>>, 1) /\ Tries(<<>>, 1) = 0
<1>1. \A p \in Providers : {i \in DOMAIN <<>> : <<>>[i] = p} = {}
  OBVIOUS
<1>2. \A p \in Providers : Tries(<<>>, p) = 0
  BY <1>1, FS_EmptySet DEF Tries
<1> QED
  BY <1>2, RetriesType DEF InOrder, Providers

LEMMA LlmInit == Llm!Init => LlmInv
<1> SUFFICES ASSUME Llm!Init  PROVE LlmInv
  OBVIOUS
<1>1. LlmTypeOK
  BY RetriesType DEF Llm!Init, LlmTypeOK, LlmSteps
<1>2. Overrun
  <2>1. Llm!Passed = {} /\ used = 0
    BY DEF Llm!Init, Llm!Passed
  <2>2. /\ Cardinality(LlmCallers) \in Nat /\ Cardinality({}) = 0
        /\ MaxTokens \in Nat /\ Limit \in Nat \ {0}
    BY ServicesAssumption, FS_CardinalityType, FS_EmptySet
  <2>3. Cardinality(LlmCallers) * MaxTokens \in Nat
    BY <2>2, Products, Zenon
  <2> QED
    BY <2>1, <2>2, <2>3 DEF Overrun
<1>3. ASSUME NEW c \in LlmCallers  PROVE AtCaller(c)
  <2>1. /\ caller[c].pc = "idle" /\ caller[c].provider = 1
        /\ caller[c].attempt = 1 /\ errors[c] = <<>>
    BY DEF Llm!Init
  <2> QED
    BY <2>1, NoErrors, RetriesType DEF AtCaller
<1> QED
  BY <1>1, <1>2, <1>3 DEF LlmInv

\* A call's step that leaves the others alone.
LEMMA CallerStep ==
  ASSUME LlmInv, NEW c \in LlmCallers, NEW new,
         new \in [pc : LlmSteps, provider : Providers, attempt : Nat],
         caller' = [caller EXCEPT ![c] = new],
         NEW s \in Seq(Providers), errors' = [errors EXCEPT ![c] = s],
         used' \in Nat, AtCaller(c)', Overrun'
  PROVE  LlmInv'
<1>1. \A d \in LlmCallers : d # c => caller'[d] = caller[d] /\ errors'[d] = errors[d]
  BY DEF LlmInv, LlmTypeOK
<1>2. \A d \in LlmCallers : d # c => AtCaller(d)'
  BY <1>1 DEF LlmInv, AtCaller
<1>3. LlmTypeOK'
  BY DEF LlmInv, LlmTypeOK
<1>4. \A d \in LlmCallers : AtCaller(d)'
  BY <1>2
<1> QED
  BY <1>3, <1>4 DEF LlmInv

\* The bound, when no caller passes and nothing is used.
LEMMA StillBounded ==
  ASSUME LlmInv, Llm!Passed' \subseteq Llm!Passed, used' \in Nat, used' <= used
  PROVE  Overrun'
<1>1. PICK next : next = Llm!Passed'
  OBVIOUS
<1> DEFINE n == Cardinality(Llm!Passed)
           m == Cardinality(next)
           all == Cardinality(LlmCallers) * MaxTokens
<1>2. n \in Nat /\ m \in Nat /\ m <= n
  <2>1. next \subseteq Llm!Passed
    BY <1>1
  <2>2. IsFiniteSet(Llm!Passed)
    <3>1. Llm!Passed \subseteq LlmCallers /\ IsFiniteSet(LlmCallers)
      BY ServicesAssumption DEF Llm!Passed
    <3> QED
      BY <3>1, FS_Subset, Zenon
  <2>3. IsFiniteSet(next) /\ m <= n
    BY <2>1, <2>2, FS_Subset, Zenon
  <2> QED
    BY <2>2, <2>3, FS_CardinalityType, Zenon
<1>3. used \in Nat /\ MaxTokens \in Nat /\ Limit \in Nat /\ all \in Nat
  BY ServicesAssumption, FS_CardinalityType, Products
     DEF LlmInv, LlmTypeOK
<1>4. used + n * MaxTokens < Limit + all
  BY DEF LlmInv, Overrun
<1>5. m * MaxTokens \in Nat /\ n * MaxTokens \in Nat
      /\ m * MaxTokens <= n * MaxTokens
  BY <1>2, <1>3, Products
<1> HIDE DEF n, m, all
<1>6. used' + m * MaxTokens < Limit + all
  BY <1>3, <1>4, <1>5
<1> QED
  BY <1>1, <1>6 DEF Overrun, m, all

LEMMA LlmStep == LlmInv /\ [Llm!Next]_llmVars => LlmInv'
<1> SUFFICES ASSUME LlmInv, [Llm!Next]_llmVars
             PROVE  LlmInv'
  OBVIOUS
\* A step of one call that leaves its errors alone.
<1>1. ASSUME NEW c \in LlmCallers, NEW pc \in LlmSteps, Llm!Goto(c, pc),
             UNCHANGED errors, used' \in Nat, Overrun',
             pc # "failed", caller[c].pc # "failed"
      PROVE  LlmInv'
  <2> DEFINE new == [caller[c] EXCEPT !.pc = pc]
  <2>1. caller' = [caller EXCEPT ![c] = new]
    BY <1>1 DEF Llm!Goto
  <2>2. new = [pc |-> pc, provider |-> caller[c].provider,
               attempt |-> caller[c].attempt]
    <3>1. caller[c] \in [pc : LlmSteps, provider : Providers, attempt : Nat]
      BY DEF LlmInv, LlmTypeOK
    <3> QED
      BY <3>1
  <2>3. new \in [pc : LlmSteps, provider : Providers, attempt : Nat]
    BY <2>2 DEF LlmInv, LlmTypeOK
  <2>4. caller'[c] = new
    BY <2>1 DEF LlmInv, LlmTypeOK
  <2>5. AtCaller(c)'
    <3>1. /\ caller'[c].pc = pc /\ caller'[c].provider = caller[c].provider
          /\ caller'[c].attempt = caller[c].attempt
      BY <2>2, <2>4
    <3>2. AtCaller(c)
      BY DEF LlmInv
    <3> QED
      BY <1>1, <3>1, <3>2 DEF AtCaller
  <2>6. errors[c] \in Seq(Providers) /\ errors' = [errors EXCEPT ![c] = errors[c]]
    BY <1>1 DEF LlmInv, LlmTypeOK
  <2> QED
    BY <1>1, <2>1, <2>3, <2>5, <2>6, CallerStep
\* The same, when it does not pass the check either.
<1>2. ASSUME NEW c \in LlmCallers, NEW pc \in LlmSteps, Llm!Goto(c, pc),
             UNCHANGED <<errors, used>>,
             pc \in {"call", "record"} => caller[c].pc \in {"call", "record"},
             pc # "failed", caller[c].pc # "failed"
      PROVE  LlmInv'
  <2>1. Llm!Passed' \subseteq Llm!Passed
    BY <1>2 DEF Llm!Goto, Llm!Passed, LlmInv, LlmTypeOK
  <2>2. used' \in Nat /\ used' <= used
    BY <1>2 DEF LlmInv, LlmTypeOK
  <2> QED
    BY <1>1, <1>2, <2>1, <2>2, StillBounded
<1>3. ASSUME NEW c \in LlmCallers, Llm!Lookup(c)  PROVE LlmInv'
  BY <1>2, <1>3 DEF Llm!Lookup, LlmSteps
<1>4. ASSUME NEW c \in LlmCallers, Llm!CheckQuota(c)  PROVE LlmInv'
  <2>1. CASE used < Limit
    <3>1. Llm!Goto(c, "call") /\ UNCHANGED <<errors, used>>
      BY <1>4, <2>1 DEF Llm!CheckQuota, Llm!WithinLimit
    <3>2. Overrun'
      <4>1. PICK next : next = Llm!Passed'
        OBVIOUS
      <4> DEFINE n == Cardinality(LlmCallers)
                 m == Cardinality(next)
      <4>2. n \in Nat /\ m \in Nat /\ m <= n
        <5>1. next \subseteq LlmCallers /\ IsFiniteSet(LlmCallers)
          BY <4>1, ServicesAssumption DEF Llm!Passed
        <5>2. IsFiniteSet(next) /\ m <= n
          BY <5>1, FS_Subset, Zenon
        <5> QED
          BY <5>1, <5>2, FS_CardinalityType, Zenon
      <4>3. used \in Nat /\ MaxTokens \in Nat /\ Limit \in Nat
        BY ServicesAssumption DEF LlmInv, LlmTypeOK
      <4>4. m * MaxTokens \in Nat /\ n * MaxTokens \in Nat
            /\ m * MaxTokens <= n * MaxTokens
        BY <4>2, <4>3, Products
      <4> HIDE DEF n, m
      <4>5. used' + m * MaxTokens < Limit + n * MaxTokens
        BY <2>1, <3>1, <4>3, <4>4
      <4> QED
        BY <4>1, <4>5 DEF Overrun, n, m
    <3>3. used' \in Nat
      BY <3>1 DEF LlmInv, LlmTypeOK
    <3> QED
      BY <1>1, <1>4, <3>1, <3>2, <3>3 DEF Llm!CheckQuota, LlmSteps
  <2>2. CASE ~(used < Limit)
    BY <1>2, <1>4, <2>2 DEF Llm!CheckQuota, Llm!WithinLimit, LlmSteps
  <2> QED
    BY <2>1, <2>2
<1>5. ASSUME NEW c \in LlmCallers, Llm!Succeed(c)  PROVE LlmInv'
  BY <1>2, <1>5 DEF Llm!Succeed, LlmSteps
<1>6. ASSUME NEW c \in LlmCallers, Llm!Fail(c)  PROVE LlmInv'
  <2> DEFINE own == caller[c].provider
             s == Append(errors[c], own)
             new == Llm!NextAttempt(c)
  <2>1. /\ caller[c].pc = "call" /\ used' = used
        /\ errors' = [errors EXCEPT ![c] = s]
        /\ caller' = [caller EXCEPT ![c] = new]
    BY <1>6 DEF Llm!Fail
  <2>2. /\ own \in Providers /\ errors[c] \in Seq(Providers)
        /\ caller[c].attempt \in Nat
        /\ InOrder(errors[c], own) /\ own <= Len(MaxRetries)
        /\ Tries(errors[c], own) = caller[c].attempt - 1
        /\ caller[c].attempt <= MaxRetries[own]
    BY <2>1 DEF LlmInv, LlmTypeOK, AtCaller, Providers
  <2>3. s \in Seq(Providers) /\ InOrder(s, own)
        /\ Tries(s, own) = caller[c].attempt
    <3>1. Tries(s, own) = Tries(errors[c], own) + 1
      BY <2>2, OneMore
    <3> QED
      BY <2>2, <3>1, OneMore
  <2>4. \/ /\ caller[c].attempt < MaxRetries[own]
           /\ new = [pc |-> "call", provider |-> own,
                     attempt |-> caller[c].attempt + 1]
        \/ /\ caller[c].attempt = MaxRetries[own] /\ own < Len(MaxRetries)
           /\ new = [pc |-> "call", provider |-> own + 1, attempt |-> 1]
        \/ /\ caller[c].attempt = MaxRetries[own] /\ own = Len(MaxRetries)
           /\ new = [pc |-> "failed", provider |-> own,
                     attempt |-> caller[c].attempt]
    <3>1. caller[c] \in [pc : LlmSteps, provider : Providers, attempt : Nat]
      BY DEF LlmInv, LlmTypeOK
    <3>2. MaxRetries[own] \in Nat /\ Len(MaxRetries) \in Nat /\ own \in Nat
      BY <2>2, RetriesType DEF Providers
    <3>3. CASE caller[c].attempt < MaxRetries[own]
      BY <2>1, <3>1, <3>2, <3>3 DEF Llm!NextAttempt, Llm!Retries
    <3>4. CASE caller[c].attempt = MaxRetries[own] /\ own < Len(MaxRetries)
      BY <2>1, <3>1, <3>2, <3>4
         DEF Llm!NextAttempt, Llm!Retries, Llm!NProviders
    <3>5. CASE caller[c].attempt = MaxRetries[own] /\ own = Len(MaxRetries)
      BY <2>1, <3>1, <3>2, <3>5
         DEF Llm!NextAttempt, Llm!Retries, Llm!NProviders
    <3> QED
      BY <2>2, <3>2, <3>3, <3>4, <3>5
  <2>5. caller'[c] = new /\ errors'[c] = s
    BY <2>1 DEF LlmInv, LlmTypeOK
  <2> HIDE DEF s, new
  <2>6. new \in [pc : LlmSteps, provider : Providers, attempt : Nat]
    BY <2>2, <2>4 DEF Providers, LlmSteps
  <2>7. AtCaller(c)'
    <3>1. CASE /\ caller[c].attempt < MaxRetries[own]
               /\ new = [pc |-> "call", provider |-> own,
                         attempt |-> caller[c].attempt + 1]
      <4>1. /\ caller'[c].pc = "call" /\ caller'[c].provider = own
            /\ caller'[c].attempt = caller[c].attempt + 1
        BY <2>5, <3>1
      <4>2. MaxRetries[own] \in Nat
        BY <2>2, RetriesType
      <4> QED
        BY <2>2, <2>3, <2>5, <3>1, <4>1, <4>2 DEF AtCaller
    <3>2. CASE /\ caller[c].attempt = MaxRetries[own] /\ own < Len(MaxRetries)
               /\ new = [pc |-> "call", provider |-> own + 1, attempt |-> 1]
      <4>1. InOrder(s, own + 1) /\ Tries(s, own + 1) = 0
        <5>1. /\ own \in Nat /\ own + 1 \in Providers
              /\ \A i \in DOMAIN s : s[i] \in Nat /\ s[i] <= own
          BY <2>2, <2>3, <3>2, RetriesType, SMTT(30) DEF InOrder, Providers
        <5>2. \A i \in DOMAIN s : s[i] <= own + 1
          BY <5>1
        <5>3. \A p \in Providers : p < own + 1 => Tries(s, p) = MaxRetries[p]
          <6> SUFFICES ASSUME NEW p \in Providers, p < own + 1
                       PROVE  Tries(s, p) = MaxRetries[p]
            OBVIOUS
          <6>1. p < own \/ p = own
            BY <5>1 DEF Providers
          <6> QED
            BY <2>3, <3>2, <6>1 DEF InOrder
        <5>4. \A p \in Providers : own + 1 < p \/ own + 1 = p => Tries(s, p) = 0
          BY <2>3, <5>1 DEF InOrder, Providers
        <5> QED
          BY <2>3, <5>1, <5>2, <5>3, <5>4 DEF InOrder
      <4>2. own + 1 \in Providers
        BY <2>2, <3>2 DEF Providers
      <4> QED
        BY <2>5, <3>2, <4>1, <4>2, RetriesType DEF AtCaller
    <3>3. CASE /\ caller[c].attempt = MaxRetries[own] /\ own = Len(MaxRetries)
               /\ new = [pc |-> "failed", provider |-> own,
                         attempt |-> caller[c].attempt]
      BY <2>2, <2>3, <2>5, <3>3 DEF AtCaller
    <3> QED
      BY <2>4, <3>1, <3>2, <3>3
  <2>8. Llm!Passed' \subseteq Llm!Passed
    BY <2>1 DEF Llm!Passed, LlmInv, LlmTypeOK
  <2>9. used' \in Nat /\ used' <= used
    BY <2>1 DEF LlmInv, LlmTypeOK
  <2>10. Overrun'
    BY <2>8, <2>9, StillBounded
  <2> QED
    BY <2>1, <2>3, <2>6, <2>7, <2>9, <2>10, CallerStep
<1>7. ASSUME NEW c \in LlmCallers, Llm!Raise(c)  PROVE LlmInv'
  BY <1>2, <1>7 DEF Llm!Raise, LlmSteps
<1>8. ASSUME NEW c \in LlmCallers, Llm!Record(c)  PROVE LlmInv'
  <2>1. CASE Llm!Goto(c, "raised") /\ UNCHANGED used
    BY <1>2, <1>8, <2>1 DEF Llm!Record, LlmSteps
  <2>2. CASE Llm!Goto(c, "store") /\ \E n \in 1..MaxTokens : used' = used + n
    <3>1. PICK n \in 1..MaxTokens : used' = used + n
      BY <2>2
    <3>2. PICK next : next = Llm!Passed'
      OBVIOUS
    <3> DEFINE old == Cardinality(Llm!Passed)
               all == Cardinality(LlmCallers) * MaxTokens
    <3>3. IsFiniteSet(Llm!Passed)
      <4>1. Llm!Passed \subseteq LlmCallers /\ IsFiniteSet(LlmCallers)
        BY ServicesAssumption DEF Llm!Passed
      <4> QED
        BY <4>1, FS_Subset, Zenon
    <3>4. c \in Llm!Passed /\ next = Llm!Passed \ {c}
      BY <1>8, <2>2, <3>2 DEF Llm!Record, Llm!Goto, Llm!Passed, LlmInv, LlmTypeOK
    <3>5. old \in Nat /\ Cardinality(next) = old - 1
      BY <3>3, <3>4, FS_RemoveElement, FS_CardinalityType
    <3>6. used \in Nat /\ MaxTokens \in Nat /\ Limit \in Nat /\ all \in Nat
      BY ServicesAssumption, FS_CardinalityType, Products
         DEF LlmInv, LlmTypeOK
    <3>7. used + old * MaxTokens < Limit + all
      BY DEF LlmInv, Overrun
    <3>8. (old - 1) * MaxTokens = old * MaxTokens - MaxTokens
          /\ old * MaxTokens \in Nat
      BY <3>5, <3>6, Products
    <3> HIDE DEF old, all
    <3>9. used' + (old - 1) * MaxTokens < Limit + all
      BY <3>1, <3>6, <3>7, <3>8
    <3>10. Overrun'
      BY <3>2, <3>5, <3>9 DEF Overrun, all
    <3>11. used' \in Nat
      BY <3>1, <3>6
    <3> QED
      BY <1>1, <1>8, <2>2, <3>10, <3>11 DEF Llm!Record, LlmSteps
  <2> QED
    BY <1>8, <2>1, <2>2 DEF Llm!Record
<1>9. ASSUME NEW c \in LlmCallers, Llm!Store(c)  PROVE LlmInv'
  BY <1>2, <1>9 DEF Llm!Store, LlmSteps
<1>10. ASSUME NEW c \in LlmCallers, Llm!Return(c)  PROVE LlmInv'
  <2> DEFINE new == [pc |-> "idle", provider |-> 1, attempt |-> 1]
  <2>1. /\ caller' = [caller EXCEPT ![c] = new]
        /\ errors' = [errors EXCEPT ![c] = <<>>] /\ used' = used
    BY <1>10 DEF Llm!Return
  <2>2. /\ new \in [pc : LlmSteps, provider : Providers, attempt : Nat]
        /\ <<>> \in Seq(Providers)
    BY RetriesType DEF LlmSteps
  <2>3. caller'[c] = new /\ errors'[c] = <<>>
    BY <2>1 DEF LlmInv, LlmTypeOK
  <2>4. AtCaller(c)'
    BY <2>3, NoErrors, RetriesType DEF AtCaller
  <2>5. Llm!Passed' \subseteq Llm!Passed
    BY <2>1 DEF Llm!Passed, LlmInv, LlmTypeOK
  <2>6. used' \in Nat /\ used' <= used
    BY <2>1 DEF LlmInv, LlmTypeOK
  <2>7. Overrun'
    BY <2>5, <2>6, StillBounded
  <2> QED
    BY <2>1, <2>2, <2>4, <2>6, <2>7, CallerStep
<1>11. ASSUME Llm!Forget \/ UNCHANGED llmVars  PROVE LlmInv'
  BY <1>11 DEF Llm!Forget, llmVars, LlmInv, LlmTypeOK, AtCaller, Overrun,
               Llm!Passed
<1>12. ASSUME Llm!NewPeriod  PROVE LlmInv'
  <2>1. used' = 0 /\ UNCHANGED <<caller, errors>>
    BY <1>12 DEF Llm!NewPeriod
  <2>2. Llm!Passed' \subseteq Llm!Passed /\ used' \in Nat /\ used' <= used
    BY <2>1 DEF Llm!Passed, LlmInv, LlmTypeOK
  <2>3. Overrun'
    BY <2>2, StillBounded
  <2> QED
    BY <2>1, <2>2, <2>3 DEF LlmInv, LlmTypeOK, AtCaller
<1> QED
  BY <1>3, <1>4, <1>5, <1>6, <1>7, <1>8, <1>9, <1>10, <1>11, <1>12
     DEF Llm!Next

LEMMA LlmSafe == LlmInv => Llm!LlmCallsSafe
<1> SUFFICES ASSUME LlmInv  PROVE Llm!LlmCallsSafe
  OBVIOUS
<1>1. \A s : Llm!Cardinality(s) = Cardinality(s)
  BY DEF Llm!Cardinality, Cardinality
<1>2. Llm!OverrunBounded
  BY <1>1 DEF LlmInv, Overrun, Llm!OverrunBounded
<1>3. Llm!ProvidersInOrder
  <2> SUFFICES ASSUME NEW c \in LlmCallers
               PROVE  /\ \A i, j \in DOMAIN errors[c] :
                           i < j => errors[c][i] <= errors[c][j]
                      /\ \A p \in Providers :
                           /\ Tries(errors[c], p) <= MaxRetries[p]
                           /\ p < caller[c].provider \/ caller[c].pc = "failed"
                                => Tries(errors[c], p) > 0
                           /\ caller[c].provider < p => Tries(errors[c], p) = 0
    BY <1>1 DEF Llm!ProvidersInOrder, Llm!NProviders, Tries, Providers
  <2>1. AtCaller(c) /\ caller[c].provider \in Providers
        /\ caller[c].attempt \in Nat
    BY DEF LlmInv, LlmTypeOK
  <2>2. ASSUME NEW p \in Providers
        PROVE  /\ Tries(errors[c], p) <= MaxRetries[p]
               /\ p < caller[c].provider \/ caller[c].pc = "failed"
                    => Tries(errors[c], p) > 0
               /\ caller[c].provider < p => Tries(errors[c], p) = 0
    <3>1. p < caller[c].provider \/ p = caller[c].provider
          \/ caller[c].provider < p
      BY <2>1 DEF Providers
    <3>2. p <= Len(MaxRetries) /\ p \in Nat
      BY RetriesType DEF Providers
    <3> QED
      BY <2>1, <3>1, <3>2, RetriesType DEF AtCaller, InOrder, Providers
  <2> QED
    BY <2>1, <2>2 DEF AtCaller, InOrder
<1> QED
  BY <1>2, <1>3 DEF Llm!LlmCallsSafe

(***************************************************************************)
(* ProjectKeys.                                                            *)
(***************************************************************************)

AdminSteps == {"new", "log", "delete", "update", "create", "revoke", "done",
               "failed"}
KeyRows == [project : Nat, write : BOOLEAN, revoked : BOOLEAN]

AdminRows == [pc : AdminSteps, project : Nat \cup {None},
              key : ApiKeys \cup {None}]

AdminOK ==
  /\ admin \in [AdminCalls -> AdminRows]
  /\ \A a \in AdminCalls :
       admin[a].pc \notin {"new", "failed"} => admin[a].project \in Nat

KeysTypeOK ==
  /\ made \in Nat
  /\ project # None => project \in Nat /\ project <= made
  /\ \A k \in ApiKeys : key[k] # None => key[k] \in KeyRows
  /\ DOMAIN key = ApiKeys /\ key = [k \in ApiKeys |-> key[k]]
  /\ AdminOK
  /\ call \in [Calls -> [pc : {"new", "touch", "ready", "done", "failed"},
                         project : Nat \cup {None},
                         key : ApiKeys \cup {None, Projects!Admin},
                         write : BOOLEAN]]

\* A key belongs to the project that is there, and is on record.
AtApiKey(k) ==
  key[k] # None =>
    /\ key[k].project = project /\ k \in issued
    /\ Projects!Entry("apikey.created", project, k) \in logged
    /\ key[k].revoked => Projects!Entry("apikey.revoked", project, k) \in logged

\* A call is for a project that was there.  As long as it still is, so is the
\* key that opened it, and allows no less than when the call read it.
AtCall(c) ==
  call[c].pc # "new" =>
    /\ call[c].project \in Nat /\ call[c].project <= made
    /\ call[c].pc # "failed" /\ call[c].key # Projects!Admin =>
         /\ call[c].key \in ApiKeys /\ call[c].key \in issued
         /\ call[c].project = project =>
              /\ key[call[c].key] # None
              /\ call[c].write => key[call[c].key].write

AtValue(v) ==
  /\ v.by \in Calls /\ v.project = project
  /\ call[v.by].pc = "done" /\ call[v.by].project = project /\ call[v.by].write

ProjectLogged ==
  project # None
  /\ Projects!Entry("project.created", project, None) \notin logged =>
       \E a \in AdminCalls :
         admin[a].project = project /\ admin[a].pc \in {"log", "failed"}

KeysInv ==
  /\ KeysTypeOK
  /\ \A k \in ApiKeys : AtApiKey(k)
  /\ \A c \in Calls : AtCall(c)
  /\ \A v \in value : AtValue(v)
  /\ ProjectLogged

LEMMA KeysInit == Projects!Init => KeysInv
BY DEF Projects!Init, KeysInv, KeysTypeOK, AdminOK, AdminRows, AdminSteps,
       AtApiKey, AtCall, AtValue, ProjectLogged

LEMMA KeysGuarded == KeysInv => Projects!KeysGuard
<1> SUFFICES ASSUME KeysInv  PROVE Projects!KeysGuard
  OBVIOUS
<1>1. ASSUME NEW v \in value
      PROVE  /\ v.project = project
             /\ LET k == call[v.by].key IN
                k # Projects!Admin =>
                  key[k] # None /\ key[k].project = project /\ key[k].write
  BY DEF KeysInv, AtValue, AtCall, AtApiKey
<1> QED
  BY <1>1 DEF KeysInv, AtApiKey, ProjectLogged, Projects!KeysGuard,
              Projects!NothingOutlives, Projects!AdminAudited

\* What an update of two fields leaves.
LEMMA AdminMade ==
  ASSUME admin \in [AdminCalls -> AdminRows], NEW a \in AdminCalls,
         NEW pc \in AdminSteps, NEW n \in Nat,
         admin' = [admin EXCEPT ![a].pc = pc, ![a].project = n]
  PROVE  admin' \in [AdminCalls -> AdminRows]
BY DEF AdminRows

\* A step of an admin call that leaves projects, keys and secrets alone.
LEMMA AdminStep ==
  ASSUME KeysInv, AdminOK', ProjectLogged',
         UNCHANGED <<project, made, key, issued, value, call>>,
         logged \subseteq logged'
  PROVE  KeysInv'
<1>1. KeysTypeOK'
  BY DEF KeysInv, KeysTypeOK
<1> QED
  BY <1>1 DEF KeysInv, AtApiKey, AtCall, AtValue

\* Where an admin call goes on to.
LEMMA AdminGoto ==
  ASSUME KeysInv, NEW a \in AdminCalls, NEW pc \in AdminSteps,
         pc = "failed" \/ admin[a].pc \notin {"new", "failed"},
         pc # "new", Projects!Goto(a, pc)
  PROVE  /\ AdminOK'
         /\ admin'[a].pc = pc /\ admin'[a].project = admin[a].project
         /\ \A b \in AdminCalls : b # a => admin'[b] = admin[b]
<1>1. admin[a] \in AdminRows
  BY DEF KeysInv, KeysTypeOK, AdminOK
<1>2. [admin[a] EXCEPT !.pc = pc] =
        [pc |-> pc, project |-> admin[a].project, key |-> admin[a].key]
  BY <1>1 DEF AdminRows
<1>3. admin' = [admin EXCEPT ![a] = [admin[a] EXCEPT !.pc = pc]]
  BY DEF Projects!Goto
<1>4. admin' = [admin EXCEPT ![a] = [pc |-> pc, project |-> admin[a].project,
                                     key |-> admin[a].key]]
  BY <1>2, <1>3
<1> QED
  BY <1>1, <1>4 DEF KeysInv, KeysTypeOK, AdminOK, AdminRows

\* A call that goes on, without a change of anything else.
LEMMA CallOn ==
  ASSUME KeysInv, NEW c \in Calls,
         call' \in [Calls -> [pc : {"new", "touch", "ready", "done", "failed"},
                              project : Nat \cup {None},
                              key : ApiKeys \cup {None, Projects!Admin},
                              write : BOOLEAN]],
         \A d \in Calls : d # c => call'[d] = call[d],
         call[c].pc # "done", AtCall(c)',
         UNCHANGED <<project, made, key, issued, admin>>,
         logged \subseteq logged',
         \A v \in value' : v \in value \/ AtValue(v)'
  PROVE  KeysInv'
<1>1. KeysTypeOK'
  BY DEF KeysInv, KeysTypeOK, AdminOK
<1>2. \A d \in Calls : AtCall(d)'
  BY DEF KeysInv, AtCall
<1>3. ASSUME NEW v \in value'  PROVE AtValue(v)'
  <2>1. CASE v \in value
    <3>1. AtValue(v) /\ v.by # c
      BY <2>1 DEF KeysInv, AtValue
    <3> QED
      BY <3>1 DEF AtValue
  <2> QED
    BY <1>3, <2>1
<1> QED
  BY <1>1, <1>2, <1>3 DEF KeysInv, AtApiKey, ProjectLogged

LEMMA KeysStep == KeysInv /\ [Projects!Next]_keyVars => KeysInv'
<1> SUFFICES ASSUME KeysInv, [Projects!Next]_keyVars
             PROVE  KeysInv'
  OBVIOUS
<1>1. ASSUME NEW a \in AdminCalls, Projects!CreateProject(a)  PROVE KeysInv'
  <2>1. CASE project # None
    <3>1. /\ Projects!Goto(a, "failed") /\ admin[a].pc = "new"
          /\ UNCHANGED <<project, made, key, issued, value, logged, call>>
      BY <1>1, <2>1 DEF Projects!CreateProject
    <3>2. AdminOK' /\ \A b \in AdminCalls : b # a => admin'[b] = admin[b]
      BY <3>1, AdminGoto DEF AdminSteps
    <3>3. ProjectLogged'
      BY <3>1, <3>2 DEF KeysInv, ProjectLogged
    <3> QED
      BY <3>1, <3>2, <3>3, AdminStep
  <2>2. CASE project = None
    <3>1. /\ made' = made + 1 /\ project' = made + 1
          /\ admin' = [admin EXCEPT ![a].pc = "log", ![a].project = made + 1]
          /\ UNCHANGED <<key, issued, value, logged, call>>
      BY <1>1, <2>2 DEF Projects!CreateProject
    <3>2. \A k \in ApiKeys : key[k] = None
      BY <2>2, ServicesAssumption DEF KeysInv, KeysTypeOK, AdminOK, AtApiKey, KeyRows
    <3>3. value = {}
      BY <2>2, ServicesAssumption DEF KeysInv, AtValue, AtCall
    <3>4. admin'[a].pc = "log" /\ admin'[a].project = made + 1
      BY <3>1 DEF KeysInv, KeysTypeOK, AdminOK
    <3>5. KeysTypeOK'
      <4>1. AdminOK'
        <5>1. made + 1 \in Nat
          BY DEF KeysInv, KeysTypeOK
        <5>2. \A b \in AdminCalls : b # a => admin'[b] = admin[b]
          BY <3>1 DEF KeysInv, KeysTypeOK, AdminOK
        <5>3. admin' \in [AdminCalls -> AdminRows]
          <6>1. admin \in [AdminCalls -> AdminRows] /\ "log" \in AdminSteps
            BY DEF KeysInv, KeysTypeOK, AdminOK, AdminSteps
          <6> QED
            BY <3>1, <5>1, <6>1, AdminMade
        <5> QED
          BY <3>4, <5>1, <5>2, <5>3 DEF KeysInv, KeysTypeOK, AdminOK
      <4> QED
        BY <3>1, <3>2, <4>1 DEF KeysInv, KeysTypeOK
    <3>6. ProjectLogged'
      BY <3>1, <3>4 DEF ProjectLogged
    <3>7. \A c \in Calls : AtCall(c)'
      BY <3>1 DEF KeysInv, KeysTypeOK, AdminOK, AtCall
    <3> QED
      BY <3>1, <3>2, <3>3, <3>5, <3>6, <3>7 DEF KeysInv, AtApiKey
  <2> QED
    BY <2>1, <2>2
<1>2. ASSUME NEW a \in AdminCalls, Projects!LogProject(a)  PROVE KeysInv'
  <2>1. PICK pc \in {"done", "failed"} :
          /\ Projects!Goto(a, pc)
          /\ pc = "failed" => project # admin[a].project /\ logged' = logged
          /\ pc = "done" =>
               logged' = logged
                 \cup {Projects!Entry("project.created", project, None)}
    BY <1>2 DEF Projects!LogProject
  <2>2. UNCHANGED <<project, made, key, issued, value, call>>
        /\ logged \subseteq logged'
    BY <1>2 DEF Projects!LogProject
  <2>3. pc \in AdminSteps
    BY DEF AdminSteps
  <2>4. AdminOK' /\ \A b \in AdminCalls : b # a => admin'[b] = admin[b]
    BY <1>2, <2>1, <2>3, AdminGoto DEF Projects!LogProject
  <2>5. ProjectLogged'
    <3>1. CASE pc = "done"
      BY <2>1, <2>2, <3>1 DEF ProjectLogged
    <3>2. CASE pc = "failed"
      BY <2>1, <2>2, <2>4, <3>2 DEF KeysInv, ProjectLogged
    <3> QED
      BY <3>1, <3>2
  <2> QED
    BY <2>2, <2>4, <2>5, AdminStep
<1>3. ASSUME NEW a \in AdminCalls, NEW next \in AdminSteps,
             NEW k \in ApiKeys \cup {None}, Projects!FindProject(a, next, k)
      PROVE  KeysInv'
  <2>1. /\ admin[a].pc = "new" /\ project # None
        /\ admin' = [admin EXCEPT ![a] = [pc |-> next, project |-> project,
                                          key |-> k]]
        /\ UNCHANGED <<project, made, key, issued, value, logged, call>>
    BY <1>3 DEF Projects!FindProject
  <2>2. AdminOK' /\ \A b \in AdminCalls : b # a => admin'[b] = admin[b]
    <3>1. project \in Nat
      BY <2>1 DEF KeysInv, KeysTypeOK
    <3> QED
      BY <2>1, <3>1 DEF KeysInv, KeysTypeOK, AdminOK, AdminRows
  <2>3. ProjectLogged'
    BY <2>1, <2>2 DEF KeysInv, ProjectLogged
  <2> QED
    BY <2>1, <2>2, <2>3, AdminStep
<1>4. ASSUME NEW a \in AdminCalls, Projects!DeleteProject(a)  PROVE KeysInv'
  <2> DEFINE id == admin[a].project
  <2>1. /\ project' = IF project = id THEN None ELSE project
        /\ key' = [k \in ApiKeys |-> IF key[k] # None /\ key[k].project = id
                                       THEN None ELSE key[k]]
        /\ value' = {v \in value : v.project # id}
        /\ admin[a].pc = "delete" /\ Projects!Goto(a, "done")
        /\ UNCHANGED <<made, issued, logged, call>>
    BY <1>4 DEF Projects!DeleteProject
  <2>3. AdminOK' /\ \A b \in AdminCalls : b # a => admin'[b] = admin[b]
    BY <2>1, AdminGoto DEF AdminSteps
  <2>4. CASE project = id
    <3>1. project' = None /\ \A k \in ApiKeys : key'[k] = None
      BY <2>1, <2>4 DEF KeysInv, AtApiKey
    <3>2. value' = {}
      BY <2>1, <2>4 DEF KeysInv, AtValue
    <3>3. KeysTypeOK'
      BY <2>1, <2>3, <3>1 DEF KeysInv, KeysTypeOK
    <3>4. \A c \in Calls : AtCall(c)'
      BY <2>1, <3>1, ServicesAssumption DEF KeysInv, AtCall
    <3> QED
      BY <3>1, <3>2, <3>3, <3>4 DEF KeysInv, AtApiKey, ProjectLogged
  <2>5. CASE project # id
    <3>1. project' = project /\ \A k \in ApiKeys : key'[k] = key[k]
      BY <2>1, <2>5 DEF KeysInv, AtApiKey
    <3>2. KeysTypeOK'
      BY <2>1, <2>3, <3>1 DEF KeysInv, KeysTypeOK
    <3>3. \A c \in Calls : AtCall(c)'
      BY <2>1, <3>1 DEF KeysInv, AtCall
    <3>4. \A v \in value' : AtValue(v)'
      BY <2>1, <3>1 DEF KeysInv, AtValue
    <3>5. ProjectLogged'
      BY <2>1, <2>3, <3>1 DEF KeysInv, ProjectLogged
    <3> QED
      BY <2>1, <3>1, <3>2, <3>3, <3>4, <3>5 DEF KeysInv, AtApiKey
  <2> QED
    BY <2>4, <2>5
<1>5. ASSUME NEW a \in AdminCalls, NEW pc \in {"done", "failed"},
             Projects!Goto(a, pc), pc = "done" => admin[a].pc = "update",
             UNCHANGED <<project, made, key, issued, value, logged, call>>
      PROVE  KeysInv'
  <2>1. pc \in AdminSteps
    BY DEF AdminSteps
  <2>2. /\ AdminOK'
        /\ admin'[a].pc = pc /\ admin'[a].project = admin[a].project
        /\ \A b \in AdminCalls : b # a => admin'[b] = admin[b]
    BY <1>5, <2>1, AdminGoto
  <2>3. ProjectLogged'
    BY <1>5, <2>2 DEF KeysInv, ProjectLogged
  <2> QED
    BY <1>5, <2>2, <2>3, AdminStep
<1>6. ASSUME NEW a \in AdminCalls, Projects!UpdateProject(a)  PROVE KeysInv'
  BY <1>5, <1>6 DEF Projects!UpdateProject
<1>7. ASSUME NEW a \in AdminCalls, Projects!AdminFails(a)  PROVE KeysInv'
  BY <1>5, <1>7 DEF Projects!AdminFails
<1>8. ASSUME NEW a \in AdminCalls, Projects!CreateKey(a)  PROVE KeysInv'
  <2> DEFINE id == admin[a].project
             k == admin[a].key
  <2>1. /\ admin[a].pc = "create" /\ k \notin issued
        /\ issued' = issued \cup {k}
        /\ UNCHANGED <<project, made, value, call>>
    BY <1>8 DEF Projects!CreateKey
  <2>2. PICK pc \in {"done", "failed"} : Projects!Goto(a, pc)
    BY <1>8 DEF Projects!CreateKey
  <2>4. AdminOK' /\ \A b \in AdminCalls : b # a => admin'[b] = admin[b]
    BY <2>1, <2>2, AdminGoto DEF AdminSteps
  <2>5. \A l \in ApiKeys : key[l] # None => l # k
    BY <2>1 DEF KeysInv, AtApiKey
  <2>6. ASSUME logged \subseteq logged',
               \A b \in AdminCalls : admin[b].pc \in {"log", "failed"} => b # a
        PROVE  ProjectLogged'
    BY <2>1, <2>4, <2>6 DEF KeysInv, ProjectLogged
  <2>7. \A b \in AdminCalls : admin[b].pc \in {"log", "failed"} => b # a
    BY <2>1
  <2>8. CASE project = id
    <3>1. PICK write \in BOOLEAN :
            key' = [key EXCEPT ![k] = [project |-> id, write |-> write,
                                       revoked |-> FALSE]]
      BY <1>8, <2>8 DEF Projects!CreateKey
    <3>2. logged' = logged \cup {Projects!Entry("apikey.created", id, k)}
      BY <1>8, <2>8 DEF Projects!CreateKey
    <3> DEFINE new == [project |-> id, write |-> write, revoked |-> FALSE]
    <3>3. \A l \in ApiKeys : key'[l] = IF l = k THEN new ELSE key[l]
      BY <3>1 DEF KeysInv, KeysTypeOK, AdminOK
    <3>4. project # None /\ project \in Nat
      BY <2>1, <2>8, ServicesAssumption DEF KeysInv, KeysTypeOK, AdminOK
    <3>5. new \in KeyRows /\ new.project = project /\ ~new.revoked
      BY <2>8, <3>4 DEF KeyRows
    <3> HIDE DEF new
    <3>6. KeysTypeOK'
      <4>1. DOMAIN key' = ApiKeys /\ key' = [l \in ApiKeys |-> key'[l]]
        BY <3>1 DEF KeysInv, KeysTypeOK, AdminOK
      <4>2. \A l \in ApiKeys : key'[l] # None => key'[l] \in KeyRows
        BY <3>3, <3>5 DEF KeysInv, KeysTypeOK, AdminOK
      <4> QED
        BY <2>1, <2>4, <4>1, <4>2 DEF KeysInv, KeysTypeOK
    <3>7. ASSUME NEW l \in ApiKeys  PROVE AtApiKey(l)'
      <4>1. CASE l = k
        BY <2>1, <2>8, <3>2, <3>3, <3>5, <4>1 DEF AtApiKey
      <4>2. CASE l # k
        BY <2>1, <3>2, <3>3, <4>2 DEF KeysInv, AtApiKey
      <4> QED
        BY <4>1, <4>2
    <3>8. ASSUME NEW c \in Calls  PROVE AtCall(c)'
      BY <2>1, <2>5, <3>3 DEF KeysInv, AtCall
    <3>9. \A v \in value' : AtValue(v)'
      BY <2>1 DEF KeysInv, AtValue
    <3> QED
      BY <2>6, <2>7, <3>2, <3>6, <3>7, <3>8, <3>9 DEF KeysInv
  <2>9. CASE project # id
    <3>1. UNCHANGED <<key, logged>>
      BY <1>8, <2>9 DEF Projects!CreateKey
    <3>2. KeysTypeOK'
      BY <2>1, <2>4, <3>1 DEF KeysInv, KeysTypeOK
    <3> QED
      BY <2>1, <2>6, <2>7, <3>1, <3>2 DEF KeysInv, AtApiKey, AtCall, AtValue
  <2> QED
    BY <2>8, <2>9
<1>9. ASSUME NEW a \in AdminCalls, Projects!RevokeKey(a)  PROVE KeysInv'
  <2> DEFINE k == admin[a].key
  <2>1. /\ admin[a].pc = "revoke"
        /\ UNCHANGED <<project, made, issued, value, call>>
    BY <1>9 DEF Projects!RevokeKey
  <2>2. CASE key[k] # None
    <3>1. /\ key' = [key EXCEPT ![k].revoked = TRUE]
          /\ logged' = logged
               \cup {Projects!Entry("apikey.revoked", key[k].project, k)}
          /\ Projects!Goto(a, "done")
      BY <1>9, <2>2 DEF Projects!RevokeKey
    <3>3. AdminOK' /\ \A b \in AdminCalls : b # a => admin'[b] = admin[b]
      BY <2>1, <3>1, AdminGoto DEF AdminSteps
    <3>4. ASSUME NEW l \in ApiKeys, key[l] # None
          PROVE  /\ key'[l] \in KeyRows
                 /\ key'[l].project = key[l].project
                 /\ key'[l].write = key[l].write
                 /\ key'[l].revoked => key[l].revoked \/ l = k
      BY <3>1, <3>4 DEF KeysInv, KeysTypeOK, AdminOK, KeyRows
    <3>5. \A l \in ApiKeys : key'[l] # None /\ key[l] = None => l = k
      BY <3>1 DEF KeysInv, KeysTypeOK, AdminOK
    <3>6. KeysTypeOK'
      <4>1. DOMAIN key' = ApiKeys /\ key' = [l \in ApiKeys |-> key'[l]]
        BY <3>1 DEF KeysInv, KeysTypeOK, AdminOK
      <4>2. \A l \in ApiKeys : key'[l] # None => key'[l] \in KeyRows
        BY <2>2, <3>4, <3>5
      <4> QED
        BY <2>1, <3>3, <4>1, <4>2 DEF KeysInv, KeysTypeOK
    <3>7. ASSUME NEW l \in ApiKeys  PROVE AtApiKey(l)'
      BY <2>1, <2>2, <3>1, <3>4, <3>5 DEF KeysInv, AtApiKey
    <3>8. ASSUME NEW l \in ApiKeys, key[l] # None  PROVE key'[l] # None
      BY <3>4, <3>8, ServicesAssumption DEF KeyRows
    <3>9. \A c \in Calls : AtCall(c)'
      BY <2>1, <3>4, <3>8 DEF KeysInv, AtCall
    <3>10. \A v \in value' : AtValue(v)'
      BY <2>1 DEF KeysInv, AtValue
    <3>11. ProjectLogged'
      BY <2>1, <3>1, <3>3 DEF KeysInv, ProjectLogged
    <3> QED
      BY <3>6, <3>7, <3>9, <3>10, <3>11 DEF KeysInv
  <2>3. CASE ~(key[k] # None)
    BY <1>5, <1>9, <2>3 DEF Projects!RevokeKey
  <2> QED
    BY <2>2, <2>3
<1>10. ASSUME NEW c \in Calls, NEW k \in ApiKeys \cup {Projects!Admin},
              Projects!Authenticate(c, k)
       PROVE  KeysInv'
  <2>1. /\ call[c].pc = "new" /\ project # None
        /\ UNCHANGED <<project, made, key, issued, value, logged, admin>>
    BY <1>10 DEF Projects!Authenticate
  <2>2. PICK pc \in {"ready", "touch"}, write \in BOOLEAN :
          /\ call' = [call EXCEPT ![c] = [pc |-> pc, project |-> project,
                                          key |-> k, write |-> write]]
          /\ k # Projects!Admin => key[k] # None /\ write = key[k].write
    BY <1>10 DEF Projects!Authenticate, KeysInv, KeysTypeOK, AdminOK, KeyRows
  <2>3. project \in Nat /\ project <= made
    BY <2>1 DEF KeysInv, KeysTypeOK, AdminOK
  <2>4. call' \in [Calls -> [pc : {"new", "touch", "ready", "done", "failed"},
                             project : Nat \cup {None},
                             key : ApiKeys \cup {None, Projects!Admin},
                             write : BOOLEAN]]
    BY <2>2, <2>3 DEF KeysInv, KeysTypeOK, AdminOK
  <2>5. /\ call'[c] = [pc |-> pc, project |-> project, key |-> k,
                       write |-> write]
        /\ \A d \in Calls : d # c => call'[d] = call[d]
    BY <2>2 DEF KeysInv, KeysTypeOK, AdminOK
  <2>6. AtCall(c)'
    BY <2>1, <2>2, <2>3, <2>5 DEF KeysInv, AtCall, AtApiKey
  <2> QED
    BY <2>1, <2>4, <2>5, <2>6, CallOn
\* The later steps of a call.
<1>11. ASSUME NEW c \in Calls, NEW pc \in {"ready", "done", "failed"},
              call[c].pc \in {"touch", "ready"},
              call' = [call EXCEPT ![c].pc = pc],
              UNCHANGED <<project, made, key, issued, admin>>,
              logged \subseteq logged',
              \A v \in value' : v \in value \/ AtValue(v)'
       PROVE  KeysInv'
  <2>1. call' \in [Calls -> [pc : {"new", "touch", "ready", "done", "failed"},
                             project : Nat \cup {None},
                             key : ApiKeys \cup {None, Projects!Admin},
                             write : BOOLEAN]]
    BY <1>11 DEF KeysInv, KeysTypeOK, AdminOK
  <2>2. /\ call'[c].pc = pc /\ call'[c].project = call[c].project
        /\ call'[c].key = call[c].key /\ call'[c].write = call[c].write
        /\ \A d \in Calls : d # c => call'[d] = call[d]
    BY <1>11 DEF KeysInv, KeysTypeOK, AdminOK
  <2>3. AtCall(c)'
    BY <1>11, <2>2 DEF KeysInv, AtCall
  <2> QED
    BY <1>11, <2>1, <2>2, <2>3, CallOn
<1>12. ASSUME NEW c \in Calls, Projects!Touch(c)  PROVE KeysInv'
  <2>1. PICK pc \in {"ready", "failed"} : call' = [call EXCEPT ![c].pc = pc]
    BY <1>12 DEF Projects!Touch
  <2> QED
    BY <1>11, <1>12, <2>1 DEF Projects!Touch
<1>13. ASSUME NEW c \in Calls, Projects!Write(c)  PROVE KeysInv'
  <2> DEFINE id == call[c].project
             written == call[c].write /\ project = id
  <2>1. /\ call[c].pc = "ready"
        /\ call' = [call EXCEPT ![c].pc = IF written THEN "done" ELSE "failed"]
        /\ value' = IF written
             THEN {v \in value : v.project # id} \cup {[project |-> id, by |-> c]}
             ELSE value
        /\ UNCHANGED <<project, made, key, issued, admin>>
        /\ logged \subseteq logged'
    BY <1>13 DEF Projects!Write
  <2>2. CASE written
    <3>1. call' = [call EXCEPT ![c].pc = "done"]
      BY <2>1, <2>2
    <3>2. \A v \in value' : v \in value \/ v = [project |-> id, by |-> c]
      BY <2>1, <2>2
    <3>3. /\ call'[c].pc = "done" /\ call'[c].project = project
          /\ call'[c].write
      BY <2>2, <3>1 DEF KeysInv, KeysTypeOK, AdminOK
    <3>4. \A v \in value' : v \in value \/ AtValue(v)'
      BY <2>1, <2>2, <3>2, <3>3 DEF AtValue
    <3> QED
      BY <1>11, <2>1, <3>1, <3>4
  <2>3. CASE ~written
    BY <1>11, <2>1, <2>3
  <2> QED
    BY <2>2, <2>3
<1>14. CASE UNCHANGED keyVars
  BY <1>14 DEF keyVars, KeysInv, KeysTypeOK, AdminOK, AtApiKey, AtCall, AtValue,
               ProjectLogged
<1>15. ASSUME NEW a \in AdminCalls, NEW k \in ApiKeys, Projects!FindKey(a, k)
       PROVE  KeysInv'
  BY <1>3, <1>15 DEF Projects!FindKey, AdminSteps
<1>16. /\ "delete" \in AdminSteps /\ "update" \in AdminSteps
       /\ "create" \in AdminSteps
  BY DEF AdminSteps
<1> QED
  BY <1>1, <1>2, <1>3, <1>4, <1>6, <1>7, <1>8, <1>9, <1>10, <1>12, <1>13,
     <1>14, <1>15, <1>16 DEF Projects!Next

(***************************************************************************)
(* EnvStore.                                                               *)
(***************************************************************************)

Begun == {"select", "flush", "commit"}

EnvSteps == {"new", "done", "failed"} \cup Begun
Transactions ==
  [pc : EnvSteps, kind : {None, "write", "delete", "read", "export"},
   keys : Orders \cup {<<k>> : k \in Keys} \cup {<<None>>, <<>>},
   next : Nat, seen : {None} \cup Requests \cup [Keys -> Requests \cup {None}]]

EnvTypeOK ==
  /\ request \in [Requests -> Transactions]
  /\ \A k \in Keys :
       secret[k] # None => secret[k] \in [id : Requests, value : Requests]
  /\ holder \in [Keys -> Requests \cup {None}]

\* A request and the keys it names.
Named(r) ==
  request[r].pc # "new" =>
    \/ request[r].kind = "write" /\ request[r].keys \in Orders
    \/ /\ request[r].kind \in {"delete", "read"}
       /\ \E k \in Keys : request[r].keys = <<k>>
    \/ request[r].kind = "export" /\ request[r].keys = <<None>>

Names(r, k) ==
  \E i \in DOMAIN request[r].keys : request[r].keys[i] = k

Writer(r) == request[r].kind \in {"write", "delete"}

\* A writer holds the keys it has been through, at its commit all of them.
Holds(r) ==
  /\ request[r].pc \in {"select", "flush"} =>
       /\ request[r].next \in DOMAIN request[r].keys
       /\ request[r].kind = "write" =>
            \A i \in DOMAIN request[r].keys :
              i < request[r].next => holder[request[r].keys[i]] = r
       /\ request[r].kind # "write" => \A k \in Keys : holder[k] # r
  /\ request[r].pc = "flush" => Writer(r)
  /\ request[r].pc = "commit" /\ request[r].kind = "write" =>
       \A i \in DOMAIN request[r].keys : holder[request[r].keys[i]] = r

\* Who holds a key has begun to write it, and has not ended.
Held(k) ==
  holder[k] # None =>
    /\ request[holder[k]].pc \in Begun
    /\ Writer(holder[k]) /\ Names(holder[k], k)

\* A value was written by a request that has ended and has its audit row.
Written(k) ==
  secret[k] # None =>
    /\ request[secret[k].value].pc = "done"
    /\ [by |-> secret[k].value, key |-> k] \in audit

\* What an export has read.
ReadOK(r) ==
  request[r].kind = "export" /\ request[r].pc \in {"commit", "done"} =>
    /\ \A k \in Keys :
         request[r].seen[k] # None =>
           /\ request[r].seen[k] \in Requests
           /\ request[request[r].seen[k]].pc = "done"
    /\ Env!Unmixed(request[r].seen)

EnvInv ==
  /\ EnvTypeOK
  /\ \A r \in Requests : Named(r) /\ Holds(r) /\ ReadOK(r)
  /\ \A k \in Keys : Held(k) /\ Written(k)
  /\ Env!Unmixed(Env!Values)

LEMMA EnvInit == Env!Init => EnvInv
<1> SUFFICES ASSUME Env!Init  PROVE EnvInv
  OBVIOUS
<1>1. /\ \A r \in Requests : request[r].pc = "new"
      /\ \A k \in Keys : secret[k] = None /\ holder[k] = None
  BY DEF Env!Init
<1>2. Env!Unmixed(Env!Values)
  BY <1>1 DEF Env!Unmixed, Env!Values
<1>3. EnvTypeOK
  BY DEF Env!Init, EnvTypeOK, Transactions, EnvSteps
<1> QED
  BY <1>1, <1>2, <1>3
     DEF EnvInv, Begun, Named, Holds, Held, Written, ReadOK

LEMMA EnvWhole == EnvInv => Env!BatchesWhole
<1> SUFFICES ASSUME EnvInv  PROVE Env!BatchesWhole
  OBVIOUS
<1>1. \A k \in Keys :
        Env!Values[k] # None => [by |-> Env!Values[k], key |-> k] \in audit
  BY DEF EnvInv, Written, Env!Values
<1>2. \A r \in Requests :
        request[r].kind = "export" /\ request[r].pc = "done" =>
          Env!Unmixed(request[r].seen)
  BY DEF EnvInv, ReadOK
<1> QED
  BY <1>1, <1>2 DEF EnvInv, Env!BatchesWhole

\* A request is never both a holder and None.
LEMMA HolderNone == \A r \in Requests : r # None
BY ServicesAssumption

\* What a step of one request leaves of the others.
LEMMA OthersKeep ==
  ASSUME EnvInv, NEW r \in Requests, request[r].pc \notin {"done", "failed"},
         request' \in [Requests -> Transactions],
         \A q \in Requests : q # r => request'[q] = request[q],
         holder' \in [Keys -> Requests \cup {None}],
         \A k \in Keys : holder[k] \in {None, r} \/ holder'[k] = holder[k],
         \A k \in Keys :
           holder'[k] # r => holder'[k] = holder[k] \/ holder'[k] = None
  PROVE  \A q \in Requests : q # r => Named(q)' /\ Holds(q)' /\ ReadOK(q)'
<1> SUFFICES ASSUME NEW q \in Requests, q # r
             PROVE  Named(q)' /\ Holds(q)' /\ ReadOK(q)'
  OBVIOUS
<1>1. Named(q) /\ Holds(q) /\ ReadOK(q) /\ request'[q] = request[q]
  BY DEF EnvInv
<1>2. Named(q)'
  BY <1>1 DEF Named
<1>3. Holds(q)'
  <2>1. \A k \in Keys : holder[k] = q => holder'[k] = q
    BY ServicesAssumption
  <2>2. request[q].kind = "write" /\ request[q].pc # "new" =>
          \A i \in DOMAIN request[q].keys : request[q].keys[i] \in Keys
    BY <1>1, ServicesAssumption DEF Named
  <2>3. ASSUME request[q].kind = "write", request[q].pc # "new",
               NEW i \in DOMAIN request[q].keys,
               holder[request[q].keys[i]] = q
        PROVE  holder'[request[q].keys[i]] = q
    BY <2>1, <2>2, <2>3
  <2>5. /\ request'[q].pc = request[q].pc /\ request'[q].kind = request[q].kind
        /\ request'[q].keys = request[q].keys
        /\ request'[q].next = request[q].next
    BY <1>1
  <2>6. (request[q].pc = "flush" => Writer(q))'
    BY <1>1, <2>5 DEF Holds, Writer
  <2>7. (request[q].pc \in {"select", "flush"} =>
           /\ request[q].next \in DOMAIN request[q].keys
           /\ request[q].kind = "write" =>
                \A i \in DOMAIN request[q].keys :
                  i < request[q].next => holder[request[q].keys[i]] = q
           /\ request[q].kind # "write" => \A k \in Keys : holder[k] # q)'
    <3>1. \A k \in Keys : holder'[k] = q => holder[k] = q
      BY HolderNone
    <3> QED
      BY <1>1, <2>3, <2>5, <3>1 DEF Holds
  <2>8. (request[q].pc = "commit" /\ request[q].kind = "write" =>
           \A i \in DOMAIN request[q].keys : holder[request[q].keys[i]] = q)'
    BY <1>1, <2>3, <2>5 DEF Holds
  <2> QED
    BY <2>6, <2>7, <2>8 DEF Holds
<1>4. ReadOK(q)'
  <2> SUFFICES ASSUME request[q].kind = "export",
                      request[q].pc \in {"commit", "done"}
               PROVE  /\ \A k \in Keys :
                           request[q].seen[k] # None =>
                             /\ request[q].seen[k] \in Requests
                             /\ request'[request[q].seen[k]].pc = "done"
                      /\ Env!Unmixed(request[q].seen)'
    BY <1>1 DEF ReadOK
  <2>1. \A k \in Keys :
          request[q].seen[k] # None =>
            /\ request[q].seen[k] \in Requests
            /\ request[request[q].seen[k]].pc = "done"
            /\ request'[request[q].seen[k]] = request[request[q].seen[k]]
    BY <1>1 DEF ReadOK
  <2>2. Env!Unmixed(request[q].seen)
    BY <1>1 DEF ReadOK
  <2>3. Env!Unmixed(request[q].seen)'
    BY <1>1, <2>1, <2>2 DEF Env!Unmixed, Env!Sets
  <2> QED
    BY <2>1, <2>3
<1> QED
  BY <1>2, <1>3, <1>4

\* The table, when nothing is committed.
LEMMA TableKept ==
  ASSUME EnvInv, NEW r \in Requests, request[r].pc \notin {"done", "failed"},
         \A q \in Requests : q # r => request'[q] = request[q],
         UNCHANGED <<secret, audit>>
  PROVE  (\A k \in Keys : Written(k)') /\ Env!Unmixed(Env!Values)'
<1>1. \A k \in Keys :
        secret[k] # None =>
          /\ secret[k].value \in Requests
          /\ request[secret[k].value].pc = "done"
          /\ request'[secret[k].value] = request[secret[k].value]
  BY DEF EnvInv, EnvTypeOK, Written
<1>2. \A k \in Keys : Written(k)'
  BY <1>1 DEF EnvInv, Written
<1>3. Env!Unmixed(Env!Values)'
  BY <1>1 DEF EnvInv, Env!Unmixed, Env!Sets, Env!Values
<1> QED
  BY <1>2, <1>3

\* A step of one request that commits nothing.
LEMMA RequestStep ==
  ASSUME EnvInv, NEW r \in Requests, request[r].pc \notin {"done", "failed"},
         request' \in [Requests -> Transactions],
         \A q \in Requests : q # r => request'[q] = request[q],
         holder' \in [Keys -> Requests \cup {None}],
         \A k \in Keys : holder[k] \in {None, r} \/ holder'[k] = holder[k],
         \A k \in Keys :
           holder'[k] # r => holder'[k] = holder[k] \/ holder'[k] = None,
         Named(r)', Holds(r)', ReadOK(r)',
         \A k \in Keys : holder'[k] = r => Held(k)',
         UNCHANGED <<secret, audit>>
  PROVE  EnvInv'
<1>1. \A q \in Requests : Named(q)' /\ Holds(q)' /\ ReadOK(q)'
  BY OthersKeep
<1>2. (\A k \in Keys : Written(k)') /\ Env!Unmixed(Env!Values)'
  BY TableKept
<1>3. EnvTypeOK'
  BY DEF EnvInv, EnvTypeOK
<1>4. ASSUME NEW k \in Keys  PROVE Held(k)'
  <2>1. CASE holder'[k] # r /\ holder'[k] # None
    <3>1. holder'[k] = holder[k] /\ holder[k] \in Requests /\ Held(k)
      BY <2>1 DEF EnvInv, EnvTypeOK
    <3>2. request'[holder[k]] = request[holder[k]]
      BY <2>1, <3>1
    <3> QED
      BY <3>1, <3>2 DEF Held, Writer, Names
  <2>2. CASE holder'[k] = None
    BY <2>2 DEF Held
  <2> QED
    BY <2>1, <2>2
<1> QED
  BY <1>1, <1>2, <1>3, <1>4 DEF EnvInv

\* What updates of two fields leave.
LEMMA RequestSelected ==
  ASSUME request \in [Requests -> Transactions], NEW r \in Requests,
         NEW pc \in EnvSteps,
         NEW got \in {None} \cup Requests \cup [Keys -> Requests \cup {None}],
         request' = [request EXCEPT ![r].pc = pc, ![r].seen = got]
  PROVE  /\ request' \in [Requests -> Transactions]
         /\ request'[r].pc = pc /\ request'[r].seen = got
         /\ request'[r].kind = request[r].kind
         /\ request'[r].keys = request[r].keys
         /\ request'[r].next = request[r].next
         /\ \A q \in Requests : q # r => request'[q] = request[q]
BY DEF Transactions

LEMMA RequestFlushed ==
  ASSUME request \in [Requests -> Transactions], NEW r \in Requests,
         NEW pc \in EnvSteps, NEW next \in Nat,
         request' = [request EXCEPT ![r].pc = pc, ![r].next = next]
  PROVE  /\ request' \in [Requests -> Transactions]
         /\ request'[r].pc = pc /\ request'[r].next = next
         /\ request'[r].kind = request[r].kind
         /\ request'[r].keys = request[r].keys
         /\ request'[r].seen = request[r].seen
         /\ \A q \in Requests : q # r => request'[q] = request[q]
BY DEF Transactions

LEMMA RequestSet ==
  ASSUME request \in [Requests -> Transactions], NEW r \in Requests,
         NEW pc \in EnvSteps, Env!Set(r, pc)
  PROVE  /\ request' \in [Requests -> Transactions]
         /\ request'[r].pc = pc /\ request'[r].next = request[r].next
         /\ request'[r].kind = request[r].kind
         /\ request'[r].keys = request[r].keys
         /\ request'[r].seen = request[r].seen
         /\ \A q \in Requests : q # r => request'[q] = request[q]
BY DEF Transactions, Env!Set

\* The keys a begun writer names are keys.
LEMMA NamesKeys ==
  ASSUME EnvInv, NEW r \in Requests, request[r].pc # "new", Writer(r)
  PROVE  \A i \in DOMAIN request[r].keys : request[r].keys[i] \in Keys
BY ServicesAssumption DEF EnvInv, Named, Writer

LEMMA NamedKeys ==
  ASSUME EnvInv, NEW r \in Requests, request[r].pc # "new"
  PROVE  /\ Len(request[r].keys) \in Nat
         /\ DOMAIN request[r].keys = 1..Len(request[r].keys)
         /\ request[r].kind # "write" => Len(request[r].keys) = 1
<1>1. CASE request[r].kind = "write" /\ request[r].keys \in Orders
  BY <1>1, ServicesAssumption
<1>2. CASE /\ request[r].kind # "write"
           /\ \E k \in Keys \cup {None} : request[r].keys = <<k>>
  BY <1>2
<1> QED
  BY <1>1, <1>2 DEF EnvInv, Named

LEMMA EnvStep == EnvInv /\ [Env!Next]_envVars => EnvInv'
<1> SUFFICES ASSUME EnvInv, [Env!Next]_envVars
             PROVE  EnvInv'
  OBVIOUS
<1>0. /\ request \in [Requests -> Transactions]
      /\ holder \in [Keys -> Requests \cup {None}]
  BY DEF EnvInv, EnvTypeOK
<1>1. ASSUME NEW r \in Requests, NEW kind, NEW keys, Env!Begin(r, kind, keys),
             \/ kind = "write" /\ keys \in Orders
             \/ kind \in {"delete", "read"} /\ \E k \in Keys : keys = <<k>>
             \/ kind = "export" /\ keys = <<None>>
      PROVE  EnvInv'
  <2> DEFINE new == [pc |-> "select", kind |-> kind, keys |-> keys, next |-> 1,
                     seen |-> None]
  <2>1. /\ request[r].pc = "new" /\ request' = [request EXCEPT ![r] = new]
        /\ UNCHANGED <<secret, holder, audit>>
    BY <1>1 DEF Env!Begin
  <2>2. new \in Transactions
    BY <1>1 DEF Transactions, EnvSteps, Begun
  <2>3. /\ request' \in [Requests -> Transactions] /\ request'[r] = new
        /\ \A q \in Requests : q # r => request'[q] = request[q]
    BY <1>0, <2>1, <2>2
  <2>4. 1 \in DOMAIN keys
    BY <1>1, ServicesAssumption
  <2>5. \A k \in Keys : holder'[k] # r
    BY <2>1, HolderNone DEF EnvInv, Held, Begun
  <2>6. Named(r)'
    BY <1>1, <2>3 DEF Named
  <2>7. Holds(r)'
    <3>1. \A i \in DOMAIN keys : ~(i < 1)
      BY <1>1, ServicesAssumption
    <3> QED
      BY <2>3, <2>4, <2>5, <3>1 DEF Holds
  <2>8. ReadOK(r)'
    BY <2>3 DEF ReadOK
  <2> QED
    BY <1>0, <2>1, <2>3, <2>5, <2>6, <2>7, <2>8, RequestStep
\* A SELECT that holds nothing new, and reads what an export may.
<1>2. ASSUME NEW r \in Requests, NEW pc \in {"flush", "failed", "commit"},
             NEW got \in {None} \cup Requests \cup [Keys -> Requests \cup {None}],
             Env!SelectThen(r, pc, got),
             pc = "flush" => Writer(r),
             pc = "commit" => ~Writer(r),
             pc # "failed" \/ request[r].kind \in {"delete", "read"},
             request[r].kind = "export" =>
               got = Env!Values /\ got \in [Keys -> Requests \cup {None}]
      PROVE  EnvInv'
  <2>1. /\ request[r].pc = "select"
        /\ request' = [request EXCEPT ![r].pc = pc, ![r].seen = got]
        /\ UNCHANGED <<secret, holder, audit>>
    BY <1>2 DEF Env!SelectThen
  <2>2. pc \in EnvSteps
    BY DEF EnvSteps, Begun
  <2>3. /\ request' \in [Requests -> Transactions]
        /\ request'[r].pc = pc /\ request'[r].seen = got
        /\ request'[r].kind = request[r].kind
        /\ request'[r].keys = request[r].keys
        /\ request'[r].next = request[r].next
        /\ \A q \in Requests : q # r => request'[q] = request[q]
    BY <1>0, <2>1, <2>2, RequestSelected, Zenon
  <2>4. Named(r)'
    BY <2>1, <2>3 DEF EnvInv, Named
  <2>5. Holds(r)'
    BY <1>2, <2>1, <2>3 DEF EnvInv, Holds, Writer
  <2>6. ReadOK(r)'
    <3> SUFFICES ASSUME request[r].kind = "export", pc = "commit"
                 PROVE  /\ \A k \in Keys :
                             got[k] # None =>
                               /\ got[k] \in Requests
                               /\ request'[got[k]].pc = "done"
                        /\ Env!Unmixed(got)'
      BY <2>3 DEF ReadOK
    <3>1. got = Env!Values /\ Env!Unmixed(got)
      BY <1>2 DEF EnvInv
    <3>2. ASSUME NEW k \in Keys, got[k] # None
          PROVE  /\ got[k] \in Requests /\ request[got[k]].pc = "done"
                 /\ request'[got[k]] = request[got[k]]
      BY <2>1, <2>3, <3>1, <3>2 DEF EnvInv, EnvTypeOK, Written, Env!Values
    <3>3. Env!Unmixed(got)'
      BY <3>1, <3>2 DEF Env!Unmixed, Env!Sets
    <3> QED
      BY <3>2, <3>3
  <2>7. \A k \in Keys : holder'[k] = r => Held(k)'
    <3> SUFFICES ASSUME NEW k \in Keys, holder[k] = r
                 PROVE  Held(k)'
      BY <2>1
    <3>1. Writer(r) /\ Names(r, k) /\ r # None
      BY HolderNone DEF EnvInv, Held
    <3>2. CASE pc = "failed"
      BY <1>2, <2>1, <3>2 DEF EnvInv, Holds
    <3>3. CASE pc # "failed"
      BY <1>2, <2>1, <2>3, <3>1, <3>3 DEF Held, Writer, Names, Begun
    <3> QED
      BY <3>2, <3>3
  <2> QED
    BY <1>0, <2>1, <2>3, <2>4, <2>5, <2>6, <2>7, RequestStep
<1>3. ASSUME NEW r \in Requests, Env!Flush(r)  PROVE EnvInv'
  <2> DEFINE k == request[r].keys[request[r].next]
             more == request[r].next < Len(request[r].keys)
             pc == IF more THEN "select" ELSE "commit"
             next == IF more THEN request[r].next + 1 ELSE request[r].next
  <2>1. /\ request[r].pc = "flush" /\ Writer(r) /\ request[r].next \in Nat
        /\ request[r].next \in DOMAIN request[r].keys /\ Named(r)
    <3>1. request[r].pc = "flush"
      BY <1>3 DEF Env!Flush
    <3>2. Holds(r) /\ Named(r)
      BY DEF EnvInv
    <3>3. request[r].next \in Nat
      BY <1>0 DEF Transactions
    <3> QED
      BY <3>1, <3>2, <3>3 DEF Holds
  <2>2. k \in Keys
    BY <2>1, NamesKeys
  <2>3. /\ request' = [request EXCEPT ![r].pc = pc, ![r].next = next]
        /\ UNCHANGED <<secret, audit>>
    BY <1>3 DEF Env!Flush, Env!More
  <2>4. pc \in EnvSteps /\ next \in Nat
    BY <2>1 DEF EnvSteps, Begun
  <2> HIDE DEF pc, next
  <2>5. /\ request' \in [Requests -> Transactions]
        /\ request'[r].pc = pc /\ request'[r].next = next
        /\ request'[r].kind = request[r].kind
        /\ request'[r].keys = request[r].keys
        /\ request'[r].seen = request[r].seen
        /\ \A q \in Requests : q # r => request'[q] = request[q]
    BY <1>0, <2>3, <2>4, RequestFlushed, Zenon
  <2>6. \/ holder' = [holder EXCEPT ![k] = r] /\ holder[k] \in {None, r}
        \/ holder' = holder /\ request[r].kind # "write"
    <3>1. /\ ~Env!Waits(r) /\ ~Env!Refused(r)
          /\ holder' = [holder EXCEPT ![k] =
                IF request[r].kind = "write" \/ Env!SameRow(r) THEN r ELSE @]
      BY <1>3 DEF Env!Flush, Env!Key
    <3>2. CASE request[r].kind = "write" \/ Env!SameRow(r)
      <4>1. Env!SameRow(r) \/ request[r].seen = None
        BY <3>1, <3>2 DEF Env!Refused
      <4>2. holder[k] \in {None, r}
        BY <2>1, <3>1, <4>1 DEF Env!Waits, Env!Key
      <4> QED
        BY <3>1, <3>2, <4>2
    <3>3. CASE ~(request[r].kind = "write" \/ Env!SameRow(r))
      BY <1>0, <2>2, <3>1, <3>3
    <3> QED
      BY <3>2, <3>3
  <2>7. /\ holder' \in [Keys -> Requests \cup {None}]
        /\ \A l \in Keys : holder[l] \in {None, r} \/ holder'[l] = holder[l]
        /\ \A l \in Keys : holder'[l] # r => holder'[l] = holder[l]
        /\ \A l \in Keys : holder'[l] = r => holder[l] = r \/ l = k
        /\ \A l \in Keys : holder[l] = r => holder'[l] = r
        /\ request[r].kind = "write" => holder'[k] = r
    BY <1>0, <2>2, <2>6
  <2>8. Named(r)'
    BY <2>1, <2>5 DEF Named
  <2>9. Holds(r)'
    <3>1. \A i \in DOMAIN request[r].keys :
            request[r].keys[i] \in Keys /\ i \in Nat /\ i <= Len(request[r].keys)
      BY <2>1, NamesKeys, ServicesAssumption DEF Named, Writer
    <3>2. ASSUME request[r].kind = "write", NEW i \in DOMAIN request[r].keys,
                 i <= request[r].next
          PROVE  holder'[request[r].keys[i]] = r
      BY <2>1, <2>7, <3>1, <3>2 DEF EnvInv, Holds
    <3>3. CASE more
      <4>1. pc = "select" /\ next = request[r].next + 1
        BY <3>3 DEF pc, next
      <4>2. request[r].kind = "write" /\ next \in DOMAIN request[r].keys
        <5>1. /\ Len(request[r].keys) \in Nat
              /\ DOMAIN request[r].keys = 1..Len(request[r].keys)
              /\ request[r].kind # "write" => Len(request[r].keys) = 1
          BY <2>1, NamedKeys
        <5>2. request[r].next \in 1..Len(request[r].keys)
          BY <2>1, <5>1
        <5>3. request[r].next < Len(request[r].keys)
          BY <3>3
        <5>4. request[r].kind = "write"
          <6> SUFFICES ASSUME request[r].kind # "write"  PROVE FALSE
            OBVIOUS
          <6>1. Len(request[r].keys) = 1
            BY <5>1
          <6> QED
            BY <2>1, <5>2, <5>3, <6>1
        <5>5. next \in 1..Len(request[r].keys)
          BY <4>1, <5>1, <5>2, <5>3
        <5> QED
          BY <5>1, <5>4, <5>5
      <4>3. \A i \in DOMAIN request[r].keys : i < next => i <= request[r].next
        BY <2>1, <3>1, <4>1
      <4> QED
        BY <2>5, <3>2, <4>1, <4>2, <4>3 DEF Holds
    <3>4. CASE ~more
      <4>1. pc = "commit"
        BY <3>4 DEF pc
      <4>2. \A i \in DOMAIN request[r].keys : i <= request[r].next
        BY <2>1, <3>1, <3>4, ServicesAssumption DEF Named, Writer
      <4> QED
        BY <2>5, <3>2, <4>1, <4>2 DEF Holds
    <3> QED
      BY <3>3, <3>4
  <2>10. ReadOK(r)'
    BY <2>1, <2>5 DEF ReadOK, Writer
  <2>11. \A l \in Keys : holder'[l] = r => Held(l)'
    <3> SUFFICES ASSUME NEW l \in Keys, holder'[l] = r
                 PROVE  Held(l)'
      OBVIOUS
    <3>1. Names(r, l)
      BY <2>1, <2>7, HolderNone DEF EnvInv, Held, Names
    <3>2. pc \in Begun
      BY DEF pc, Begun
    <3> QED
      BY <2>1, <2>5, <3>1, <3>2 DEF Held, Writer, Names
  <2> QED
    BY <2>1, <2>3, <2>5, <2>7, <2>8, <2>9, <2>10, <2>11, RequestStep
\* The end of a request without a commit: it holds nothing any more.
<1>4. ASSUME NEW r \in Requests, request[r].pc \in Begun, Env!Set(r, "failed"),
             Env!Release(r), UNCHANGED <<secret, audit>>
      PROVE  EnvInv'
  <2>1. "failed" \in EnvSteps
    BY DEF EnvSteps
  <2>2. /\ request' \in [Requests -> Transactions]
        /\ request'[r].pc = "failed"
        /\ request'[r].kind = request[r].kind
        /\ request'[r].keys = request[r].keys
        /\ \A q \in Requests : q # r => request'[q] = request[q]
    BY <1>0, <1>4, <2>1, RequestSet
  <2>3. /\ holder' \in [Keys -> Requests \cup {None}]
        /\ \A k \in Keys : holder'[k] = IF holder[k] = r THEN None ELSE holder[k]
    BY <1>0, <1>4 DEF Env!Release
  <2>4. \A k \in Keys : holder'[k] # r
    BY <2>3, HolderNone
  <2>5. Named(r)' /\ Holds(r)' /\ ReadOK(r)'
    BY <1>4, <2>2 DEF EnvInv, Named, Holds, ReadOK, Begun
  <2> QED
    BY <1>4, <2>2, <2>3, <2>4, <2>5, RequestStep DEF Begun
<1>5. ASSUME NEW r \in Requests, Env!Commit(r)  PROVE EnvInv'
  <2>1. /\ request[r].pc = "commit" /\ Env!Set(r, "done") /\ Env!Release(r)
        /\ secret' = [k \in Keys |-> IF holder[k] = r THEN Env!Written(r, k)
                                     ELSE secret[k]]
        /\ audit' = audit \cup {[by |-> r, key |-> request[r].keys[i]] :
                                  i \in DOMAIN request[r].keys}
    BY <1>5 DEF Env!Commit
  <2>2. "done" \in EnvSteps
    BY DEF EnvSteps
  <2>3. /\ request' \in [Requests -> Transactions]
        /\ request'[r].pc = "done"
        /\ request'[r].kind = request[r].kind
        /\ request'[r].keys = request[r].keys
        /\ request'[r].seen = request[r].seen
        /\ \A q \in Requests : q # r => request'[q] = request[q]
    BY <1>0, <2>1, <2>2, RequestSet
  <2>4. /\ holder' \in [Keys -> Requests \cup {None}]
        /\ \A k \in Keys : holder'[k] = IF holder[k] = r THEN None ELSE holder[k]
    BY <1>0, <2>1 DEF Env!Release
  <2>5. \A k \in Keys :
          /\ holder[k] # r => secret'[k] = secret[k]
          /\ holder[k] = r =>
               /\ Writer(r) /\ Names(r, k)
               /\ request[r].kind = "delete" => secret'[k] = None
               /\ request[r].kind = "write" =>
                    /\ secret'[k].value = r
                    /\ secret'[k] \in [id : Requests, value : Requests]
    <3> SUFFICES ASSUME NEW k \in Keys
                 PROVE  /\ holder[k] # r => secret'[k] = secret[k]
                        /\ holder[k] = r =>
                             /\ Writer(r) /\ Names(r, k)
                             /\ request[r].kind = "delete" => secret'[k] = None
                             /\ request[r].kind = "write" =>
                                  /\ secret'[k].value = r
                                  /\ secret'[k] \in
                                       [id : Requests, value : Requests]
      OBVIOUS
    <3>1. holder[k] = r => Writer(r) /\ Names(r, k)
      BY HolderNone DEF EnvInv, Held
    <3>2. secret[k] # None => secret[k].id \in Requests
      BY DEF EnvInv, EnvTypeOK
    <3> QED
      BY <2>1, <3>1, <3>2 DEF Env!Written
  <2>6. EnvTypeOK'
    BY <2>3, <2>4, <2>5 DEF EnvInv, EnvTypeOK, Writer
  <2>7. \A k \in Keys : Held(k)'
    <3> SUFFICES ASSUME NEW k \in Keys, holder'[k] # None
                 PROVE  Held(k)'
      BY DEF Held
    <3>1. holder'[k] = holder[k] /\ holder[k] # r /\ holder[k] \in Requests
      BY <1>0, <2>4
    <3>2. request'[holder[k]] = request[holder[k]] /\ Held(k)
      BY <2>3, <3>1 DEF EnvInv
    <3> QED
      BY <3>1, <3>2 DEF Held, Writer, Names
  <2>8. \A q \in Requests : q # r => Named(q)' /\ Holds(q)' /\ ReadOK(q)'
    BY <2>1, <2>3, <2>4, OthersKeep
  <2>9. \A k \in Keys : Written(k)'
    <3> SUFFICES ASSUME NEW k \in Keys, secret'[k] # None
                 PROVE  /\ request'[secret'[k].value].pc = "done"
                        /\ [by |-> secret'[k].value, key |-> k] \in audit'
      BY DEF Written
    <3>1. CASE holder[k] = r
      <4>1. secret'[k].value = r /\ Names(r, k)
        BY <2>5, <3>1 DEF Writer
      <4> QED
        BY <2>1, <2>3, <4>1 DEF Names
    <3>2. CASE holder[k] # r
      <4>1. /\ secret'[k] = secret[k] /\ Written(k)
            /\ secret[k].value \in Requests
        BY <2>5, <3>2 DEF EnvInv, EnvTypeOK
      <4>2. secret[k].value # r
        BY <2>1, <4>1 DEF Written
      <4> QED
        BY <2>1, <2>3, <4>1, <4>2 DEF Written
    <3> QED
      BY <3>1, <3>2
  <2>10. Env!Unmixed(Env!Values)'
    \* Who commits two keys has held them both.
    <3>1. \A q \in Requests : \A k \in Keys :
            Env!Sets(q, k)' <=> Env!Sets(q, k)
      BY <2>3 DEF Env!Sets
    <3>2. ASSUME NEW k \in Keys, NEW l \in Keys, secret'[k] # None,
                 secret'[l] # None, secret'[k].value = r, Env!Sets(r, l)
          PROVE  secret'[l].value = r
      <4>1. holder[l] = r
        BY <2>1, <3>2 DEF EnvInv, Holds, Env!Sets
      <4> QED
        BY <2>5, <3>2, <4>1 DEF Env!Sets
    <3>3. ASSUME NEW k \in Keys, secret'[k] # None, secret'[k].value # r
          PROVE  secret'[k] = secret[k]
      BY <2>5, <3>3 DEF Writer
    <3>4. \A k \in Keys : secret'[k] # None => secret'[k].value \in Requests
      BY <2>6 DEF EnvTypeOK
    <3>5. ASSUME NEW k \in Keys, NEW l \in Keys, secret'[k] # None,
                 secret'[l] # None, Env!Sets(secret'[k].value, l),
                 Env!Sets(secret'[l].value, k)
          PROVE  secret'[k].value = secret'[l].value
      <4>1. CASE secret'[k].value = r \/ secret'[l].value = r
        BY <3>2, <3>5, <4>1
      <4>2. CASE secret'[k].value # r /\ secret'[l].value # r
        <5>1. secret'[k] = secret[k] /\ secret'[l] = secret[l]
          BY <3>3, <3>5, <4>2
        <5>2. secret[k].value # None /\ secret[l].value # None
          BY <3>5, <5>1, HolderNone DEF EnvInv, EnvTypeOK
        <5> QED
          BY <3>5, <5>1, <5>2 DEF EnvInv, Env!Unmixed, Env!Values
      <4> QED
        BY <4>1, <4>2
    <3> QED
      BY <3>1, <3>4, <3>5 DEF Env!Unmixed, Env!Values
  <2>11. Named(r)' /\ Holds(r)'
    BY <2>1, <2>3 DEF EnvInv, Named, Holds
  <2>12. ReadOK(r)'
    <3> SUFFICES ASSUME request[r].kind = "export"
                 PROVE  /\ \A k \in Keys :
                             request[r].seen[k] # None =>
                               /\ request[r].seen[k] \in Requests
                               /\ request'[request[r].seen[k]].pc = "done"
                        /\ Env!Unmixed(request[r].seen)'
      BY <2>3 DEF ReadOK
    <3>1. ReadOK(r)
      BY DEF EnvInv
    <3>2. ASSUME NEW k \in Keys, request[r].seen[k] # None
          PROVE  /\ request[r].seen[k] \in Requests
                 /\ request[request[r].seen[k]].pc = "done"
                 /\ request'[request[r].seen[k]] = request[request[r].seen[k]]
      BY <2>1, <2>3, <3>1, <3>2 DEF ReadOK
    <3>3. Env!Unmixed(request[r].seen)
      BY <2>1, <3>1 DEF ReadOK
    <3>4. Env!Unmixed(request[r].seen)'
      BY <2>3, <3>2, <3>3 DEF Env!Unmixed, Env!Sets
    <3> QED
      BY <3>2, <3>4
  <2> QED
    BY <2>6, <2>7, <2>8, <2>9, <2>10, <2>11, <2>12 DEF EnvInv
<1>6. ASSUME NEW r \in Requests, Env!Step(r)  PROVE EnvInv'
  <2>1. CASE Env!SelectToSet(r)
    <3> DEFINE k == Env!Key(r)
               got == IF secret[k] = None THEN None ELSE secret[k].id
    <3>1. request[r].kind = "write" /\ Env!SelectThen(r, "flush", got)
      BY <2>1 DEF Env!SelectToSet
    <3>2. k \in Keys
      <4>1. /\ request[r].pc = "select" /\ Writer(r)
            /\ request[r].next \in DOMAIN request[r].keys
        BY <3>1 DEF Env!SelectThen, Writer, EnvInv, Holds
      <4> QED
        BY <4>1, NamesKeys DEF Env!Key
    <3>3. got \in {None} \cup Requests
      BY <3>2 DEF EnvInv, EnvTypeOK
    <3> HIDE DEF got
    <3> QED
      BY <1>2, <3>1, <3>3 DEF Writer
  <2>2. CASE Env!SelectToDelete(r)
    <3> DEFINE k == Env!Key(r)
    <3>1. request[r].kind = "delete"
      BY <2>2 DEF Env!SelectToDelete
    <3>2. CASE secret[k] = None
      BY <1>2, <2>2, <3>1, <3>2 DEF Env!SelectToDelete
    <3>3. CASE secret[k] # None
      <4>1. Env!SelectThen(r, "flush", secret[k].id)
        BY <2>2, <3>3 DEF Env!SelectToDelete
      <4>2. k \in Keys
        <5>1. /\ request[r].pc = "select" /\ Writer(r)
              /\ request[r].next \in DOMAIN request[r].keys
          BY <3>1, <4>1 DEF Env!SelectThen, Writer, EnvInv, Holds
        <5> QED
          BY <5>1, NamesKeys DEF Env!Key
      <4>3. secret[k].id \in Requests
        BY <3>3, <4>2 DEF EnvInv, EnvTypeOK
      <4> QED
        BY <1>2, <3>1, <4>1, <4>3 DEF Writer
    <3> QED
      BY <3>2, <3>3
  <2>3. CASE Env!SelectToReveal(r)
    <3> DEFINE k == Env!Key(r)
    <3>1. request[r].kind = "read"
      BY <2>3 DEF Env!SelectToReveal
    <3>2. CASE Env!SelectThen(r, "failed", None)
      BY <1>2, <3>1, <3>2
    <3>3. CASE secret[k] # None /\ Env!SelectThen(r, "commit", secret[k].value)
      <4>1. k \in Keys
        <5>1. /\ request[r].pc = "select" /\ Named(r)
              /\ request[r].next \in DOMAIN request[r].keys
          BY <3>3 DEF Env!SelectThen, EnvInv, Holds
        <5> QED
          BY <3>1, <5>1 DEF Env!Key, Named
      <4>2. secret[k].value \in Requests
        BY <3>3, <4>1 DEF EnvInv, EnvTypeOK
      <4> QED
        BY <1>2, <3>1, <3>3, <4>2 DEF Writer
    <3> QED
      BY <2>3, <3>2, <3>3 DEF Env!SelectToReveal
  <2>4. CASE Env!SelectToExport(r)
    <3>1. request[r].kind = "export" /\ Env!SelectThen(r, "commit", Env!Values)
      BY <2>4 DEF Env!SelectToExport
    <3>2. Env!Values \in [Keys -> Requests \cup {None}]
      BY DEF Env!Values, EnvInv, EnvTypeOK
    <3> QED
      BY <1>2, <3>1, <3>2 DEF Writer
  <2>5. CASE Env!FlushFails(r)
    BY <1>4, <2>5 DEF Env!FlushFails, Env!Rollback, Begun
  <2>6. CASE Env!Deadlock(r)
    BY <1>4, <2>6 DEF Env!Deadlock, Env!Waits, Env!Rollback, Begun
  <2> QED
    BY <1>3, <1>5, <1>6, <2>1, <2>2, <2>3, <2>4, <2>5, <2>6 DEF Env!Step
<1>7. ASSUME NEW r \in Requests, Env!Fails(r)  PROVE EnvInv'
  BY <1>4, <1>7 DEF Env!Fails, Env!Rollback, Begun
<1>8. CASE UNCHANGED envVars
  <2>1. UNCHANGED <<secret, holder, request, audit>>
    BY <1>8 DEF envVars
  <2>2. Env!Unmixed(Env!Values)'
    BY <2>1 DEF EnvInv, Env!Unmixed, Env!Sets, Env!Values
  <2>3. \A r \in Requests : ReadOK(r)'
    BY <2>1 DEF EnvInv, ReadOK, Env!Unmixed, Env!Sets
  <2> QED
    BY <2>1, <2>2, <2>3
       DEF EnvInv, EnvTypeOK, Named, Holds, Held, Written, Writer, Names
<1> QED
  BY <1>1, <1>6, <1>7, <1>8 DEF Env!Next

(***************************************************************************)
(* The theorems: a step of Services is a step of one part, or leaves the   *)
(* part alone.                                                             *)
(***************************************************************************)

LEMMA PartInit ==
  Init => /\ Search!Init /\ Storage!Init /\ Health!Init /\ CacheOf!Init
          /\ Llm!Init /\ Env!Init /\ Projects!Init /\ Rate!Init
BY DEF Init

LEMMA PartStep ==
  [Next]_vars => /\ [Search!Next]_searchVars /\ [Storage!Next]_storageVars
                 /\ [Health!Next]_healthVars /\ [CacheOf!Next]_cacheVars
                 /\ [Llm!Next]_llmVars /\ [Env!Next]_envVars
                 /\ [Projects!Next]_keyVars /\ [Rate!Next]_rateVars
BY DEF Next, vars, searchVars, storageVars, healthVars, cacheVars, rateVars,
       envVars, keyVars, llmVars, RateNext, CacheNext, EnvNext, EnvUnchanged,
       KeysNext, LlmNext, SearchNext, StorageNext, HealthNext

\* Rate limiting (consume of either backend, by callers who may come with an
\* older reading of the clock): from any grant to any later one the bucket has
\* given no more than a full bucket and what was refilled in between.
THEOREM RateBoundHolds == Spec => []RateBound
<1>1. Init => RateInv
  BY PartInit, RateInit
<1>2. RateInv /\ [Next]_vars => RateInv'
  BY PartStep, RateStep
<1>3. RateInv => RateBound
  BY DEF RateInv, RateBound
<1> QED
  BY <1>1, <1>2, <1>3, PTL DEF Spec

\* Search (upsert_content's two commits): the tokens of a row are those of its
\* content, unless the call that wrote the content has not yet reached its
\* second commit, or was cut off before it.
THEOREM TokensCurrentHolds == Spec => []TokensCurrent
<1>1. Init => SearchInv
  BY PartInit, SearchInit
<1>2. SearchInv /\ [Next]_vars => SearchInv'
  BY PartStep, SearchStep
<1>3. SearchInv => TokensCurrent
  BY DEF SearchInv, TokensCurrent
<1> QED
  BY <1>1, <1>2, <1>3, PTL DEF Spec

\* File storage (delete_file): an object that has no row was uploaded after its
\* deletion had passed it, or its bucket refused to delete it while the warning
\* about that was disabled.
THEOREM OrphansExplainedHolds == Spec => []OrphansExplained
<1>1. Init => StorageInv
  BY PartInit, StorageInit
<1>2. StorageInv /\ [Next]_vars => StorageInv'
  BY PartStep, StorageStep
<1>3. StorageInv => OrphansExplained
  BY DEF StorageInv, OrphansExplained
<1> QED
  BY <1>1, <1>2, <1>3, PTL DEF Spec

\* Health (run_all with its stored answer): no answered result is CacheSeconds
\* old, and no stored answer that could still be given is without a check that
\* was registered that long.
THEOREM AnswersFreshHolds == Spec => []AnswersFresh
<1>1. Init => HealthInv
  BY PartInit, HealthInit
<1>2. HealthInv /\ [Next]_vars => HealthInv'
  BY PartStep, HealthStep
<1>3. HealthInv => AnswersFresh
  BY HealthFresh DEF AnswersFresh
<1> QED
  BY <1>1, <1>2, <1>3, PTL DEF Spec

\* Caching (cached calls against delete and the page-by-page delete_prefix):
\* an entry older than the source was when the last invalidation that ended had
\* begun was computed before this invalidation began and stored after it.
THEOREM StaleOnlyByOverlapHolds == Spec => []StaleOnlyByOverlap
<1>1. Init => CacheInv
  BY PartInit, CacheInit
<1>2. CacheInv /\ [Next]_vars => CacheInv'
  BY PartStep, CacheStep
<1>3. CacheInv => StaleOnlyByOverlap
  BY CacheStale DEF StaleOnlyByOverlap
<1> QED
  BY <1>1, <1>2, <1>3, PTL DEF Spec

\* Calls of a model (check_quota, call, record by concurrent callers): a period
\* exceeds the plan by less than one answer per caller; a provider is tried
\* only after each one before it has failed, none too often, and a call that
\* gives up with AllProvidersFailedError has had every one of them fail.
THEOREM LlmCallsSafeHolds == Spec => []LlmCallsSafe
<1>1. Init => LlmInv
  BY PartInit, LlmInit
<1>2. LlmInv /\ [Next]_vars => LlmInv'
  BY PartStep, LlmStep
<1>3. LlmInv => LlmCallsSafe
  BY LlmSafe DEF LlmCallsSafe
<1> QED
  BY <1>1, <1>2, <1>3, PTL DEF Spec

\* Env service: bulk writes are never mixed, in the table or in an export, and
\* each value has its audit row; nothing of a deleted project serves one that
\* is created again under its slug, and keys and projects are on record.
THEOREM EnvSafeHolds == Spec => []EnvSafe
<1>1. Init => EnvInv /\ KeysInv
  BY PartInit, EnvInit, KeysInit
<1>2. EnvInv /\ KeysInv /\ [Next]_vars => EnvInv' /\ KeysInv'
  BY PartStep, EnvStep, KeysStep
<1>3. EnvInv /\ KeysInv => EnvSafe
  BY EnvWhole, KeysGuarded DEF EnvSafe
<1> QED
  BY <1>1, <1>2, <1>3, PTL DEF Spec

(***************************************************************************)
(* The algorithms.  First the numbers: what holds of 0 and of the next     *)
(* number holds of all, and a function defined by recursion is what its    *)
(* equations say.  Both come from the order of the numbers being well-     *)
(* founded.                                                                *)
(***************************************************************************)

LEMMA LeastNumber ==
  ASSUME NEW S \in SUBSET Nat, S # {}
  PROVE  \E n \in S : \A m \in S : n <= m
<1> DEFINE less == OpToRel(<, Nat)
<1>1. \A m, n \in Nat : <<m, n>> \in less <=> m < n
  BY DEF OpToRel
<1>2. \E n \in S : \A m \in S : <<m, n>> \notin less
  BY NatLessThanWellFounded, WFMin, Zenon
<1> HIDE DEF less
<1>3. PICK n \in S : \A m \in S : <<m, n>> \notin less
  BY <1>2
<1>4. ASSUME NEW m \in S  PROVE n <= m
  <2>1. ~(m < n) /\ m \in Nat /\ n \in Nat
    BY <1>1, <1>3
  <2> QED
    BY <2>1
<1> QED
  BY <1>4

LEMMA Induction ==
  ASSUME NEW S, 0 \in S, \A n \in Nat : n \in S => n + 1 \in S
  PROVE  Nat \subseteq S
<1> DEFINE out == Nat \ S
<1> SUFFICES ASSUME out # {}  PROVE FALSE
  OBVIOUS
<1>1. PICK n \in out : \A m \in out : n <= m
  BY LeastNumber
<1> QED
  BY <1>1

LEMMA InductionTo ==
  ASSUME NEW L \in Nat, NEW S, 0 \in S, \A m \in Nat : m < L /\ m \in S
           => m + 1 \in S
  PROVE  \A m \in 0..L : m \in S
<1> DEFINE T == {m \in Nat : m <= L => m \in S}
<1>1. 0 \in T
  OBVIOUS
<1>2. \A m \in Nat : m \in T => m + 1 \in T
  OBVIOUS
<1>3. Nat \subseteq T
  <2> HIDE DEF T
  <2> QED
    BY <1>1, <1>2, Induction
<1> QED
  BY <1>3

LEMMA GreatestNumber ==
  ASSUME NEW S, S # {}, NEW n \in Nat, S \subseteq 0..n
  PROVE  \E m \in S : \A l \in S : l <= m
<1> DEFINE T == {l \in 0..n : n - l \in S}
<1>1. T \in SUBSET Nat /\ T # {}
  <2>1. PICK l \in S : TRUE
    OBVIOUS
  <2>2. n - l \in T
    BY <2>1
  <2>3. T \in SUBSET Nat
    OBVIOUS
  <2> HIDE DEF T
  <2> QED
    BY <2>2, <2>3
<1>2. PICK m \in T : \A l \in T : m <= l
  BY <1>1, LeastNumber
<1>3. ASSUME NEW l \in S  PROVE l <= n - m
  <2>1. n - l \in T
    OBVIOUS
  <2>2. m <= n - l
    BY <1>2, <2>1
  <2> QED
    BY <2>2
<1> QED
  BY <1>3

\* A function defined step by step: its first n + 1 values, and all of them.
Begins(f, n, a, step) ==
  f[0] = a /\ \A m \in 1..n : f[m] = step[<<m, f[m - 1]>>]

StepsOf(V) == [(Nat \ {0}) \X V -> V]
Follows(f, a, step) ==
  f[0] = a /\ \A m \in Nat \ {0} : f[m] = step[<<m, f[m - 1]>>]

LEMMA Recursion ==
  ASSUME NEW V, NEW a \in V, NEW step \in StepsOf(V)
  PROVE  \E f \in [Nat -> V] : Follows(f, a, step)
<1> DEFINE S == {n \in Nat : \E f \in [0..n -> V] : Begins(f, n, a, step)}
<1>1. 0 \in S
  <2>1. [m \in 0..0 |-> a] \in [0..0 -> V] /\ Begins([m \in 0..0 |-> a], 0, a, step)
    BY DEF Begins
  <2> QED
    BY <2>1, Zenon
<1>2. ASSUME NEW n \in Nat, n \in S  PROVE n + 1 \in S
  <2>1. PICK f \in [0..n -> V] : Begins(f, n, a, step)
    BY <1>2
  <2>2. PICK g : g = [m \in 0..(n + 1) |->
                        IF m = n + 1 THEN step[<<m, f[n]>>] ELSE f[m]]
    OBVIOUS
  <2>3. \A m \in 0..n : m # n + 1 /\ m \in 0..(n + 1)
    OBVIOUS
  <2>4. g \in [0..(n + 1) -> V]
    <3>1. n + 1 \in Nat \ {0} /\ n \in 0..n
      OBVIOUS
    <3>2. step[<<n + 1, f[n]>>] \in V
      BY <3>1 DEF StepsOf
    <3>3. \A m \in 0..(n + 1) : m = n + 1 \/ m \in 0..n
      OBVIOUS
    <3> QED
      BY <2>2, <3>2, <3>3
  <2>5. \A m \in 0..n : g[m] = f[m]
    BY <2>2, <2>3
  <2>6. g[n + 1] = step[<<n + 1, g[n]>>]
    BY <2>2, <2>5
  <2>7. \A m \in 1..(n + 1) : g[m] = step[<<m, g[m - 1]>>]
    <3> SUFFICES ASSUME NEW m \in 1..(n + 1)
                 PROVE  g[m] = step[<<m, g[m - 1]>>]
      OBVIOUS
    <3>1. CASE m = n + 1
      <4>1. m - 1 = n
        BY <3>1
      <4> QED
        BY <2>6, <3>1, <4>1
    <3>2. CASE m # n + 1
      <4>1. m \in 1..n /\ m \in 0..n /\ m - 1 \in 0..n
        BY <3>2
      <4>2. f[m] = step[<<m, f[m - 1]>>]
        BY <2>1, <4>1 DEF Begins
      <4> QED
        BY <2>5, <4>1, <4>2
    <3> QED
      BY <3>1, <3>2
  <2>8. Begins(g, n + 1, a, step)
    BY <2>1, <2>5, <2>7 DEF Begins
  <2> QED
    BY <2>4, <2>8
<1>3. \A n \in Nat : \E f \in [0..n -> V] : Begins(f, n, a, step)
  <2> HIDE DEF S
  <2>1. Nat \subseteq S
    BY <1>1, <1>2, Induction
  <2> QED
    BY <2>1 DEF S
<1> DEFINE begin(n) == CHOOSE f \in [0..n -> V] : Begins(f, n, a, step)
<1>4. \A n \in Nat : begin(n) \in [0..n -> V] /\ Begins(begin(n), n, a, step)
  BY <1>3
\* Two beginnings agree as far as both go.
<1>5. ASSUME NEW m \in Nat, NEW n \in Nat, m <= n  PROVE begin(m)[m] = begin(n)[m]
  <2> DEFINE f == begin(m)
             g == begin(n)
  <2>1. Begins(f, m, a, step) /\ Begins(g, n, a, step)
    BY <1>4
  <2> DEFINE T == {k \in Nat : k <= m => f[k] = g[k]}
  <2> HIDE DEF f, g
  <2>2. 0 \in T
    BY <2>1 DEF Begins
  <2>3. ASSUME NEW k \in Nat, k \in T  PROVE k + 1 \in T
    <3> SUFFICES ASSUME k + 1 <= m  PROVE f[k + 1] = g[k + 1]
      OBVIOUS
    <3>1. k + 1 \in 1..m /\ k + 1 \in 1..n /\ (k + 1) - 1 = k
      BY <1>5
    <3>2. f[k + 1] = step[<<k + 1, f[k]>>] /\ g[k + 1] = step[<<k + 1, g[k]>>]
      BY <2>1, <3>1 DEF Begins
    <3>3. f[k] = g[k]
      BY <2>3
    <3> QED
      BY <3>2, <3>3
  <2>4. m \in T
    <3> HIDE DEF T
    <3> QED
      BY <2>2, <2>3, Induction
  <2> QED
    BY <2>4 DEF f, g
<1> HIDE DEF begin
<1>6. PICK h : h = [n \in Nat |-> begin(n)[n]]
  OBVIOUS
<1>7. h \in [Nat -> V]
  <2>1. \A n \in Nat : n \in 0..n
    OBVIOUS
  <2>2. \A n \in Nat : begin(n)[n] \in V
    BY <1>4, <2>1
  <2> QED
    BY <1>6, <2>2
<1>8. h[0] = a
  BY <1>4, <1>6 DEF Begins
<1>9. ASSUME NEW m \in Nat \ {0}  PROVE h[m] = step[<<m, h[m - 1]>>]
  <2>1. m - 1 \in Nat /\ m - 1 <= m /\ m \in 1..m /\ m \in Nat
    OBVIOUS
  <2>2. begin(m)[m] = step[<<m, begin(m)[m - 1]>>]
    BY <1>4, <2>1 DEF Begins
  <2>3. begin(m - 1)[m - 1] = begin(m)[m - 1]
    BY <1>5, <2>1
  <2> QED
    BY <1>6, <2>1, <2>2, <2>3
<1> QED
  BY <1>7, <1>8, <1>9 DEF Follows

\* The same for a function on 0..L.
Recurs(f, L, a, step) ==
  f = [m \in 0..L |-> IF m = 0 THEN a ELSE step[<<m, f[m - 1]>>]]

LEMMA RecursionTo ==
  ASSUME NEW V, NEW a \in V, NEW L \in Nat, NEW step \in [(1..L) \X V -> V]
  PROVE  \E f \in [0..L -> V] : Recurs(f, L, a, step)
<1>1. PICK on : on = [p \in (Nat \ {0}) \X V |->
                        IF p[1] \in 1..L THEN step[p] ELSE p[2]]
  OBVIOUS
<1>2. on \in StepsOf(V)
  <2>1. \A p \in (Nat \ {0}) \X V :
          /\ p[2] \in V
          /\ p[1] \in 1..L => step[p] \in V
    OBVIOUS
  <2> QED
    BY <1>1, <2>1 DEF StepsOf
<1>3. PICK f \in [Nat -> V] : Follows(f, a, on)
  BY <1>2, Recursion
<1>4. PICK g : g = [m \in 0..L |-> f[m]]
  OBVIOUS
<1>5. g \in [0..L -> V]
  BY <1>4
<1>6. ASSUME NEW m \in 0..L
      PROVE  g[m] = IF m = 0 THEN a ELSE step[<<m, g[m - 1]>>]
  <2>1. CASE m = 0
    BY <1>3, <1>4, <2>1 DEF Follows
  <2>2. CASE m # 0
    <3>1. m \in Nat \ {0} /\ m \in 1..L /\ m - 1 \in 0..L /\ m - 1 \in Nat
      BY <2>2
    <3>2. f[m] = on[<<m, f[m - 1]>>]
      BY <1>3, <3>1 DEF Follows
    <3>3. f[m - 1] \in V
      BY <3>1
    <3>4. on[<<m, f[m - 1]>>] = step[<<m, f[m - 1]>>]
      BY <1>1, <3>1, <3>3
    <3> QED
      BY <1>4, <2>2, <3>1, <3>2, <3>4
  <2> QED
    BY <2>1, <2>2
<1>7. g = [m \in 0..L |-> IF m = 0 THEN a ELSE step[<<m, g[m - 1]>>]]
  <2>1. g = [m \in 0..L |-> g[m]]
    BY <1>4
  <2> QED
    BY <1>6, <2>1
<1> QED
  BY <1>5, <1>7 DEF Recurs

\* Two functions that begin alike and go on alike are alike.
Alike(f, g, L) ==
  /\ f[0] = g[0]
  /\ \A m \in 1..L : f[m - 1] = g[m - 1] => f[m] = g[m]

LEMMA SameValues ==
  ASSUME NEW L \in Nat, NEW f, NEW g, Alike(f, g, L)
  PROVE  \A m \in 0..L : f[m] = g[m]
<1> DEFINE S == {m \in Nat : m <= L => f[m] = g[m]}
<1>1. 0 \in S
  BY DEF Alike
<1>2. ASSUME NEW m \in Nat, m \in S  PROVE m + 1 \in S
  <2> SUFFICES ASSUME m + 1 <= L  PROVE f[m + 1] = g[m + 1]
    OBVIOUS
  <2>1. m + 1 \in 1..L /\ (m + 1) - 1 = m /\ m <= L
    OBVIOUS
  <2>2. f[m] = g[m]
    BY <1>2, <2>1
  <2>3. f[(m + 1) - 1] = g[(m + 1) - 1] => f[m + 1] = g[m + 1]
    BY <2>1 DEF Alike
  <2> QED
    BY <2>1, <2>2, <2>3
<1>3. Nat \subseteq S
  <2> HIDE DEF S
  <2> QED
    BY <1>1, <1>2, Induction
<1> QED
  BY <1>3

(***************************************************************************)
(* FeatureFlags.                                                           *)
(***************************************************************************)

\* Feature flags (is_enabled, get_all_enabled): for every flag, user and
\* environment, both ways of asking give the same answer, and a user who has a
\* feature keeps it when its rollout grows by one percent.
THEOREM FlagsDecide ==
  ASSUME NEW flag \in Flags!Flag, NEW user \in Flags!User, NEW environment
  PROVE  Flags!FlagsAgree(flag, user, environment)
<1> DEFINE more == [flag EXCEPT !.rolloutPercentage = @ + 1]
<1>1. /\ flag.rolloutPercentage \in Int /\ more.isActive = flag.isActive
      /\ more.rules = flag.rules
      /\ more.rolloutPercentage = flag.rolloutPercentage + 1
  BY DEF Flags!Flag
<1>2. user # Flags!Nobody => user.score \in Int
  BY DEF Flags!User
<1>3. Flags!AllEnabled(flag, user, environment)
        <=> Flags!IsEnabled(flag, user, environment)
  BY DEF Flags!AllEnabled, Flags!IsEnabled, Flags!InRollout
<1>4. Flags!IsEnabled(flag, user, environment)
        => Flags!IsEnabled(more, user, environment)
  <2> HIDE DEF more
  <2> QED
    BY <1>1, <1>2 DEF Flags!IsEnabled, Flags!InRollout
<1> QED
  BY <1>3, <1>4 DEF Flags!FlagsAgree

(***************************************************************************)
(* HealthStatus: each dependency counts by its worst, and the overall      *)
(* status is the worst of them.                                            *)
(***************************************************************************)

LEMMA WorstIs ==
  ASSUME NEW S \in SUBSET {"healthy", "degraded", "unhealthy"}
  PROVE  Deep!WorstOf(S) = IF "unhealthy" \in S THEN "unhealthy"
                           ELSE IF "degraded" \in S THEN "degraded"
                           ELSE "healthy"
<1> DEFINE worst == IF "unhealthy" \in S THEN "unhealthy"
                    ELSE IF "degraded" \in S THEN "degraded" ELSE "healthy"
           over(s, other) == Deep!Severity[other] <= Deep!Severity[s]
<1>1. /\ Deep!Severity["healthy"] = 0 /\ Deep!Severity["degraded"] = 1
      /\ Deep!Severity["unhealthy"] = 2
  BY DEF Deep!Severity
<1>2. worst \in S \cup {"healthy"} /\ \A other \in S : over(worst, other)
  BY <1>1
<1>3. \A s \in S \cup {"healthy"} :
        (\A other \in S : over(s, other)) => s = worst
  BY <1>1
<1>4. (CHOOSE s \in S \cup {"healthy"} : \A other \in S : over(s, other)) = worst
  <2> HIDE DEF over, worst
  <2> QED
    BY <1>2, <1>3
<1> QED
  BY <1>4 DEF Deep!WorstOf

LEMMA RunOneIs ==
  ASSUME NEW d \in Deep!Dependency
  PROVE  Deep!RunOne(d) = IF Deep!Useless(d) THEN "unhealthy"
                          ELSE IF Deep!Slow(d) THEN "degraded"
                          ELSE "healthy"
BY DEF Deep!Dependency, Deep!Behaviour, Deep!RunOne, Deep!CacheCheck,
       Deep!PingCheck, Deep!ByLatency, Deep!Useless, Deep!Slow

LEMMA CodeIs ==
  ASSUME NEW D \in SUBSET Deep!Dependency, NEW strict \in BOOLEAN
  PROVE  Deep!DeepHealthCode(D, strict)
           = IF \E d \in D : Deep!Useless(d) \/ (strict /\ Deep!Slow(d))
               THEN 503 ELSE 200
<1> DEFINE S == {Deep!RunOne(d) : d \in D}
<1>1. S \in SUBSET {"healthy", "degraded", "unhealthy"}
  BY RunOneIs
<1>2. "unhealthy" \in S <=> \E d \in D : Deep!Useless(d)
  BY RunOneIs
<1>3. "unhealthy" \notin S =>
        ("degraded" \in S <=> \E d \in D : Deep!Slow(d))
  BY RunOneIs
<1> HIDE DEF S
<1>4. Deep!Overall(D) = Deep!WorstOf(S)
  BY DEF Deep!Overall, S
<1> QED
  BY <1>1, <1>2, <1>3, <1>4, WorstIs DEF Deep!DeepHealthCode

\* Health (GET /health/deep): for any set of dependencies, an instance leaves
\* rotation exactly when one of them is of no use, or is slow and that is
\* configured to count; a dependency more never brings it back.
THEOREM RotationDecided ==
  \A D \in SUBSET Deep!Dependency, strict \in BOOLEAN :
    Deep!OutOfRotation(D, strict)
<1> SUFFICES ASSUME NEW D \in SUBSET Deep!Dependency, NEW strict \in BOOLEAN
             PROVE  Deep!OutOfRotation(D, strict)
  OBVIOUS
<1>1. \A d \in D : D \ {d} \in SUBSET Deep!Dependency
  OBVIOUS
<1>2. Deep!DeepHealthCode(D, strict) = 503 <=>
        \E d \in D : Deep!Useless(d) \/ (strict /\ Deep!Slow(d))
  BY CodeIs
<1>3. ASSUME NEW d \in D
      PROVE  Deep!DeepHealthCode(D \ {d}, strict)
               <= Deep!DeepHealthCode(D, strict)
  BY <1>1, CodeIs
<1> QED
  BY <1>2, <1>3 DEF Deep!OutOfRotation

(***************************************************************************)
(* AccessTokens: in half seconds, so that the whole seconds of a token's   *)
(* claims are halves of its times.                                         *)
(***************************************************************************)

LEMMA Halves ==
  ASSUME NEW t \in Nat, NEW m \in Nat
  PROVE  /\ t \div 2 \in Nat /\ 2 * (t \div 2) <= t /\ t <= 2 * (t \div 2) + 1
         /\ (t + 120 * m) \div 2 = t \div 2 + 60 * m
OBVIOUS

LEMMA LifetimeIs ==
  ASSUME NEW maker \in Access!Config
  PROVE  \E m \in Nat : Access!Lifetime(maker) = 120 * m
<1>1. PICK m \in Nat : maker.minutes = m
  BY DEF Access!Config
<1>2. 2 * 60 * m = 120 * m
  OBVIOUS
<1>3. Access!Lifetime(maker) = 2 * 60 * m
  BY <1>1, Zenon DEF Access!Lifetime
<1> QED
  BY <1>2, <1>3

\* The times of a token: how long it lasts, and the whole seconds it is made in
\* and ends in.
TokenTimes(maker, minted, lasts, half, ends) ==
  /\ Access!Lifetime(maker) = lasts /\ Access!Second(minted) = half
  /\ Access!Second(minted + lasts) = ends /\ 2 * ends = 2 * half + lasts
  /\ \A t \in Nat :
       /\ t < 2 * half + lasts => t < minted + lasts
       /\ t \in minted..(minted + lasts - 2)
            => 2 * half <= t /\ t < 2 * half + lasts

LEMMA TokenTimesAre ==
  ASSUME NEW maker \in Access!Config, NEW minted \in Nat
  PROVE  \E lasts, half, ends \in Nat :
           TokenTimes(maker, minted, lasts, half, ends)
<1>1. PICK m \in Nat : Access!Lifetime(maker) = 120 * m
  BY LifetimeIs
<1>2. PICK half \in Nat : half = minted \div 2
  BY Halves
<1>3. PICK lasts \in Nat : lasts = 120 * m
  OBVIOUS
<1>4. PICK ends \in Nat : ends = half + 60 * m
  OBVIOUS
<1>5. /\ 2 * half <= minted /\ minted <= 2 * half + 1
      /\ (minted + lasts) \div 2 = ends
  BY <1>2, <1>3, <1>4, Halves
<1>6. 2 * ends = 2 * half + lasts
  BY <1>3, <1>4
<1>7. ASSUME NEW t \in Nat
      PROVE  /\ t < 2 * half + lasts => t < minted + lasts
             /\ t \in minted..(minted + lasts - 2)
                  => 2 * half <= t /\ t < 2 * half + lasts
  BY <1>5
<1> QED
  BY <1>1, <1>2, <1>3, <1>5, <1>6, <1>7, ZenonT(30) DEF TokenTimes, Access!Second

\* Access tokens (create_access_token, get_user_from_access_token,
\* current_user): for any two services' settings, user, extra claims and times,
\* a token opens the services of its key, issuer and audience, as its user,
\* while that user is active and for the time it was made for.
THEOREM TokensAccepted ==
  ASSUME NEW maker \in Access!Config, NEW checker \in Access!Config,
         NEW user, user # None, user # "no uuid",
         NEW active, user \in DOMAIN active, active[user] \in BOOLEAN,
         NEW extra, "nbf" \in DOMAIN extra => extra.nbf \in Int,
         NEW minted \in Nat, NEW now \in Nat
  PROVE  Access!TokensOpen(maker, checker, user, extra, active, minted, now)
<1> DEFINE token == Access!CreateAccessToken(maker, user, extra, minted)
           found == Access!CurrentUser(checker, "Bearer", token, active, now)
           notYet == "nbf" \in DOMAIN extra /\ ~(2 * extra.nbf <= now)
           allowed == /\ Access!SameScope(maker, checker) /\ active[user]
                      /\ "nbf" \in DOMAIN extra => 2 * extra.nbf <= now
<1>1. PICK lasts \in Nat, half \in Nat, ends \in Nat :
        TokenTimes(maker, minted, lasts, half, ends)
  BY TokenTimesAre
<1>3. ASSUME Access!KeysLoad(maker.private, maker.public),
             token # None
      PROVE  /\ Access!SameScope(maker, maker) /\ found \in {user, None}
             /\ found = user => allowed /\ now < minted + lasts
             /\ allowed /\ now \in minted..(minted + lasts - 2)
                  => found = user
             /\ Access!CurrentUser(checker, "Basic", token, active, now) = None
  <2>1. /\ token.key = maker.private.id
        /\ DOMAIN token.claims = Access!Reserved \cup DOMAIN extra
        /\ token.claims.sub = user /\ token.claims.iat = half
        /\ token.claims.exp = ends
        /\ token.claims.iss = maker.iss /\ token.claims.aud = maker.aud
        /\ token.claims.jti = "uuid" /\ token.claims.type = "access"
        /\ "nbf" \in DOMAIN extra => token.claims.nbf = extra.nbf
    <3>1. "nbf" \notin Access!Reserved
      BY DEF Access!Reserved
    <3>2. /\ Access!Second(minted) = half
          /\ Access!Second(minted + Access!Lifetime(maker)) = ends
      BY <1>1, Zenon DEF TokenTimes
    <3> QED
      BY <1>3, <3>1, <3>2 DEF Access!CreateAccessToken, Access!Reserved
  <2> HIDE DEF token
  <2>2. "nbf" \in DOMAIN token.claims <=> "nbf" \in DOMAIN extra
    BY <2>1 DEF Access!Reserved
  <2>3. Access!Accepts(checker, token, now) <=>
          /\ Access!SameScope(maker, checker)
          /\ 2 * half <= now
          /\ ~notYet
          /\ now < 2 * half + lasts
    <3>1. Access!Reserved \subseteq DOMAIN token.claims
      BY <2>1
    <3>2. 2 * token.claims.exp = 2 * half + lasts /\ 2 * token.claims.iat = 2 * half
      BY <1>1, <2>1, Zenon DEF TokenTimes
    <3>3. token.claims.jti # "no uuid" /\ token.claims.sub # "no uuid"
      BY <2>1
    <3>4. ("nbf" \in DOMAIN token.claims => 2 * token.claims.nbf <= now)
            <=> ~notYet
      BY <2>1, <2>2
    <3> HIDE DEF notYet
    <3> QED
      BY <2>1, <3>1, <3>2, <3>3, <3>4 DEF Access!Accepts, Access!SameScope
  <2>4. found = IF Access!Accepts(checker, token, now) /\ active[user]
                  THEN user ELSE None
    BY <2>1 DEF Access!CurrentUser, Access!UserFromAccessToken
  <2>5. Access!CurrentUser(checker, "Basic", token, active, now) = None
    BY DEF Access!CurrentUser
  <2>6. Access!SameScope(maker, maker)
    BY <1>3 DEF Access!SameScope, Access!KeysLoad
  <2> HIDE DEF found
  <2>7. ASSUME found = user  PROVE allowed /\ now < minted + lasts
    <3>1. Access!Accepts(checker, token, now) /\ active[user]
      BY <2>4, <2>7
    <3>2. now < 2 * half + lasts => now < minted + lasts
      BY <1>1, Zenon DEF TokenTimes
    <3> QED
      BY <2>3, <3>1, <3>2, Zenon
  <2>8. ASSUME allowed, now \in minted..(minted + lasts - 2)
        PROVE  found = user
    <3>1. 2 * half <= now /\ now < 2 * half + lasts
      BY <1>1, <2>8, Zenon DEF TokenTimes
    <3>2. Access!Accepts(checker, token, now) /\ active[user]
      BY <2>3, <2>8, <3>1, Zenon
    <3> QED
      BY <2>4, <3>2
  <2> QED
    BY <2>4, <2>5, <2>6, <2>7, <2>8
<1> QED
  BY <1>1, <1>3, Zenon DEF Access!TokensOpen, TokenTimes

(***************************************************************************)
(* InjectionGuard: the sum of one weight more is that much more.           *)
(***************************************************************************)

\* The sum of a sequence, as a fold from its first element on.
SumOf(f, w) ==
  /\ f \in [0..Len(w) -> Nat]
  /\ f[0] = 0 /\ \A m \in 1..Len(w) : f[m] = f[m - 1] + w[m]
  /\ Guard!Sum(w) = f[Len(w)]

LEMMA SumIs ==
  ASSUME NEW w \in Seq(Nat)
  PROVE  \E f : SumOf(f, w)
<1> DEFINE L == Len(w)
           go == [p \in (1..L) \X Nat |-> p[2] + w[p[1]]]
           eq(f) == f = [n \in 0..L |-> IF n = 0 THEN 0 ELSE f[n - 1] + w[n]]
<1>1. go \in [(1..L) \X Nat -> Nat] /\ L \in Nat /\ 0 \in Nat
  <2>1. \A p \in (1..L) \X Nat : p[2] + w[p[1]] \in Nat
    OBVIOUS
  <2> QED
    BY <2>1
<1>2. PICK h \in [0..L -> Nat] : Recurs(h, L, 0, go)
  <2> HIDE DEF go, L
  <2> QED
    BY <1>1, RecursionTo
<1>3. eq(h)
  <2>1. ASSUME NEW m \in 0..L, m # 0
        PROVE  go[<<m, h[m - 1]>>] = h[m - 1] + w[m]
    <3>1. m \in 1..L /\ m - 1 \in 0..L
      BY <2>1
    <3>2. <<m, h[m - 1]>> \in (1..L) \X Nat
      BY <3>1
    <3> QED
      BY <3>2
  <2> HIDE DEF go, L
  <2> QED
    BY <1>2, <2>1 DEF Recurs
<1>4. PICK f : eq(f) /\ Guard!Sum(w) = f[L]
  <2>1. Guard!Sum(w) = (CHOOSE f : eq(f))[L]
    BY Zenon DEF Guard!Sum
  <2>2. eq(CHOOSE f : eq(f))
    <3> HIDE DEF eq
    <3> QED
      BY <1>3
  <2> QED
    BY <2>1, <2>2
<1>5. ASSUME NEW m \in 0..L
      PROVE  f[m] = IF m = 0 THEN 0 ELSE f[m - 1] + w[m]
  BY <1>4, Zenon
<1>6. ASSUME NEW m \in 0..L
      PROVE  h[m] = IF m = 0 THEN 0 ELSE h[m - 1] + w[m]
  BY <1>3, Zenon
<1>7. \A m \in 0..L : f[m] = h[m]
  <2>1. f[0] = h[0]
    BY <1>1, <1>5, <1>6
  <2>2. \A m \in 1..L : f[m - 1] = h[m - 1] => f[m] = h[m]
    <3> SUFFICES ASSUME NEW m \in 1..L, f[m - 1] = h[m - 1]  PROVE f[m] = h[m]
      OBVIOUS
    <3>1. m \in 0..L /\ m # 0
      BY <1>1
    <3> QED
      BY <1>5, <1>6, <3>1
  <2> HIDE DEF L
  <2>3. Alike(f, h, L)
    BY <2>1, <2>2 DEF Alike
  <2> QED
    BY <1>1, <2>3, SameValues
<1>8. f = [m \in 0..L |-> f[m]]
  BY <1>4
<1>9. f \in [0..L -> Nat]
  BY <1>7, <1>8
<1>10. \A m \in 1..L : m \in 0..L /\ m # 0
  BY <1>1
<1>11. 0 \in 0..L
  BY <1>1
<1> QED
  BY <1>4, <1>5, <1>9, <1>10, <1>11, Zenon DEF SumOf

LEMMA SumAppend ==
  ASSUME NEW w \in Seq(Nat), NEW x \in Nat
  PROVE  /\ Guard!Sum(w) \in Nat
         /\ Guard!Sum(Append(w, x)) = Guard!Sum(w) + x
<1>1. PICK f : SumOf(f, w)
  BY SumIs
<1>2. Append(w, x) \in Seq(Nat)
  OBVIOUS
<1>3. PICK g : SumOf(g, Append(w, x))
  BY <1>2, SumIs
<1>4. PICK L \in Nat : L = Len(w)
  OBVIOUS
<1>5. /\ Len(Append(w, x)) = L + 1 /\ Append(w, x)[L + 1] = x
      /\ \A m \in 1..L : Append(w, x)[m] = w[m]
  BY <1>4
<1>6. \A m \in 0..L : f[m] = g[m]
  <2>1. f[0] = g[0]
    BY <1>1, <1>3 DEF SumOf
  <2>2. \A m \in 1..L : f[m - 1] = g[m - 1] => f[m] = g[m]
    <3> SUFFICES ASSUME NEW m \in 1..L, f[m - 1] = g[m - 1]
                 PROVE  f[m] = g[m]
      OBVIOUS
    <3>1. m \in 1..(L + 1)
      OBVIOUS
    <3>2. f[m] = f[m - 1] + w[m]
      BY <1>1, <1>4 DEF SumOf
    <3>3. g[m] = g[m - 1] + Append(w, x)[m]
      BY <1>3, <1>5, <3>1 DEF SumOf
    <3> QED
      BY <1>5, <3>2, <3>3
  <2>3. Alike(f, g, L)
    BY <2>1, <2>2 DEF Alike
  <2> QED
    BY <2>3, SameValues
<1>7. L + 1 \in 1..(L + 1) /\ (L + 1) - 1 = L /\ L \in 0..L
  OBVIOUS
<1>8. g[L + 1] = g[L] + x
  BY <1>3, <1>5, <1>7 DEF SumOf
<1>9. Guard!Sum(w) = f[L] /\ f[L] \in Nat /\ Guard!Sum(Append(w, x)) = g[L + 1]
  BY <1>1, <1>3, <1>4, <1>5, <1>7 DEF SumOf
<1> QED
  BY <1>6, <1>7, <1>8, <1>9

\* Injection guard (check): for any weights and thresholds, a text whose score
\* reaches a threshold is not allowed at any log level, and a pattern more makes
\* no decision lighter.
THEOREM GuardDecides ==
  ASSUME NEW weights \in Seq(Nat), NEW further \in Nat,
         NEW flagThreshold \in Nat, NEW blockThreshold \in Nat, NEW level_
  PROVE  Guard!GuardFailsClosed(weights, further, flagThreshold,
                                blockThreshold, level_)
<1> DEFINE more == Append(weights, further)
<1>1. PICK s \in Nat, t \in Nat :
        s = Guard!Score(weights) /\ t = Guard!Score(more) /\ s <= t
  <2>1. PICK u \in Nat, v \in Nat :
          u = Guard!Sum(weights) /\ v = Guard!Sum(more) /\ v = u + further
    BY SumAppend
  <2>2. /\ Guard!Score(weights) = IF u > 100 THEN 100 ELSE u
        /\ Guard!Score(more) = IF v > 100 THEN 100 ELSE v
    BY <2>1, Zenon DEF Guard!Score
  <2> QED
    BY <2>1, <2>2
<1> HIDE DEF more
<1> QED
  BY <1>1 DEF Guard!GuardFailsClosed, Guard!Check, Guard!Decision,
              Guard!Logged, Guard!Rank, more

(***************************************************************************)
(* ChatHistory: of turns in the order of their times, any limit turns that *)
(* no other is later than have the times of the last ones; where the times *)
(* differ, they are the last ones.                                         *)
(***************************************************************************)

Crowds(f, a, b, c, d) ==
  /\ a \in Int /\ b \in Int /\ c \in Int /\ d \in Int
  /\ a <= b /\ d - c < b - a /\ f \in [a..b -> c..d]
Meets(f, a, b) == \E x, y \in a..b : x # y /\ f[x] = f[y]

LEMMA TooFew ==
  ASSUME NEW f, NEW a, NEW b, NEW c, NEW d, Crowds(f, a, b, c, d)
  PROVE  Meets(f, a, b)
<1>0. /\ a \in Int /\ b \in Int /\ c \in Int /\ d \in Int
      /\ a <= b /\ d - c < b - a /\ f \in [a..b -> c..d]
  BY DEF Crowds
<1>1. Cardinality(c..d) < Cardinality(a..b)
  <2>1. /\ Cardinality(a..b) = b - a + 1
        /\ Cardinality(c..d) = IF c > d THEN 0 ELSE d - c + 1
    BY <1>0, FS_Interval
  <2> QED
    BY <1>0, <2>1
<1>2. IsFiniteSet(a..b) /\ IsFiniteSet(c..d)
  BY <1>0, FS_Interval
<1> QED
  BY <1>0, <1>1, <1>2, FS_PigeonHole DEF Meets

InOrderOf(t, n) == \A i, j \in 1..n : i <= j => t[i] <= t[j]
Differ(p, k) == \A i, j \in 1..k : p[i] = p[j] => i = j
Latest(p, t, n, k) ==
  /\ \A i, j \in 1..k : i < j => t[p[j]] <= t[p[i]]
  /\ \A m \in 1..n : (\A i \in 1..k : p[i] # m) =>
       \A i \in 1..k : t[m] <= t[p[i]]

LEMMA LatestAre ==
  ASSUME NEW n \in Nat, NEW k \in Nat, k <= n,
         NEW t \in [1..n -> Int], NEW p \in [1..k -> 1..n],
         InOrderOf(t, n), Differ(p, k), Latest(p, t, n, k),
         NEW i \in 1..k
  PROVE  t[p[i]] = t[n - i + 1]
<1> DEFINE m == n - i + 1
<1>0. m \in 1..n /\ p[i] \in 1..n /\ t[m] \in Int /\ t[p[i]] \in Int
  OBVIOUS
<1>1. ASSUME t[p[i]] > t[m]  PROVE FALSE
  <2>1. \A j \in 1..i : j \in 1..k /\ p[j] \in (m + 1)..n
    <3> SUFFICES ASSUME NEW j \in 1..i  PROVE j \in 1..k /\ p[j] \in (m + 1)..n
      OBVIOUS
    <3>1. j \in 1..k /\ p[j] \in 1..n
      OBVIOUS
    <3>2. t[p[i]] <= t[p[j]]
      <4>1. CASE j = i
        BY <1>0, <4>1
      <4>2. CASE j < i
        BY <3>1, <4>2 DEF Latest
      <4> QED
        BY <4>1, <4>2
    <3>3. t[p[j]] \in Int /\ ~(t[p[j]] <= t[m])
      BY <1>0, <1>1, <3>1, <3>2
    <3>4. ~(p[j] <= m)
      BY <1>0, <3>1, <3>3 DEF InOrderOf
    <3> QED
      BY <1>0, <3>1, <3>4
  <2>2. PICK f : f = [j \in 1..i |-> p[j]]
    OBVIOUS
  <2>3. f \in [1..i -> (m + 1)..n]
    BY <2>1, <2>2
  <2>4. Crowds(f, 1, i, m + 1, n)
    <3>1. i \in Int /\ m \in Int /\ m + 1 \in Int /\ n \in Int /\ 1 <= i /\ n - (m + 1) < i - 1
      BY <1>0
    <3> HIDE DEF m
    <3> QED
      BY <2>3, <3>1, SMTT(30) DEF Crowds
  <2>5. Meets(f, 1, i)
    BY <2>4, TooFew
  <2>6. PICK x \in 1..i, y \in 1..i : x # y /\ f[x] = f[y]
    BY <2>5 DEF Meets
  <2> QED
    BY <2>1, <2>2, <2>6 DEF Differ
<1>2. ASSUME t[p[i]] < t[m]  PROVE FALSE
  <2>1. \A l \in m..n : \E j \in 1..(i - 1) : p[j] = l
    <3> SUFFICES ASSUME NEW l \in m..n  PROVE \E j \in 1..(i - 1) : p[j] = l
      OBVIOUS
    <3>1. l \in 1..n /\ t[l] \in Int /\ t[m] <= t[l]
      BY <1>0 DEF InOrderOf
    <3>2. ~(t[l] <= t[p[i]])
      BY <1>0, <1>2, <3>1
    <3>3. PICK j \in 1..k : p[j] = l
      BY <3>1, <3>2 DEF Latest
    <3>4. ~(i < j)
      BY <3>2, <3>3 DEF Latest
    <3>5. i # j
      BY <3>2, <3>3, <1>0
    <3> QED
      BY <3>3, <3>4, <3>5
  <2>2. PICK g : g = [l \in m..n |-> CHOOSE j \in 1..(i - 1) : p[j] = l]
    OBVIOUS
  <2>3. g \in [m..n -> 1..(i - 1)] /\ \A l \in m..n : p[g[l]] = l
    BY <2>1, <2>2
  <2>4. Crowds(g, m, n, 1, i - 1)
    <3>1. m \in Int /\ n \in Int /\ 1 \in Int /\ i - 1 \in Int
          /\ m <= n /\ (i - 1) - 1 < n - m
      BY <1>0
    <3> HIDE DEF m
    <3> QED
      BY <2>3, <3>1 DEF Crowds
  <2>5. Meets(g, m, n)
    BY <2>4, TooFew
  <2>6. PICK x \in m..n, y \in m..n : x # y /\ g[x] = g[y]
    BY <2>5 DEF Meets
  <2> QED
    BY <2>3, <2>6
<1> QED
  BY <1>0, <1>1, <1>2

TurnSet(turns) == {turns[i] : i \in DOMAIN turns}
Times(turns) == [i \in 1..Len(turns) |-> turns[i].createdAt]
ByTime(turns) == [r \in TurnSet(turns) |-> -r.createdAt]

LEMMA TurnsAre ==
  ASSUME NEW turns, History!Conversation(turns)
  PROVE  /\ Len(turns) \in Nat /\ DOMAIN turns = 1..Len(turns)
         /\ \A i \in 1..Len(turns) :
              /\ turns[i] \in TurnSet(turns) /\ turns[i].place = i
              /\ turns[i].createdAt \in Int
              /\ Times(turns)[i] = turns[i].createdAt
              /\ ByTime(turns)[turns[i]] = -turns[i].createdAt
         /\ \A r \in TurnSet(turns) : r.place \in 1..Len(turns) /\ r
              = turns[r.place]
<1>1. turns \in Seq([place : Nat, createdAt : Int])
  BY DEF History!Conversation
<1>2. Len(turns) \in Nat /\ DOMAIN turns = 1..Len(turns)
  BY <1>1
<1>3. \A i \in 1..Len(turns) : turns[i] \in [place : Nat, createdAt : Int]
  BY <1>1, ElementOfSeq
<1>4. \A i \in 1..Len(turns) : turns[i].place = i
  BY <1>2 DEF History!Conversation
<1>5. \A i \in 1..Len(turns) : turns[i].createdAt \in Int
  BY <1>3
<1>6. \A i \in 1..Len(turns) : turns[i] \in TurnSet(turns)
  BY <1>2 DEF TurnSet
<1>7. \A r \in TurnSet(turns) : r.place \in 1..Len(turns) /\ r = turns[r.place]
  BY <1>2, <1>4 DEF TurnSet
<1>8. \A i \in 1..Len(turns) : Times(turns)[i] = turns[i].createdAt
  BY DEF Times
<1>9. \A i \in 1..Len(turns) : ByTime(turns)[turns[i]] = -turns[i].createdAt
  BY <1>6 DEF ByTime
<1> QED
  BY <1>2, <1>4, <1>5, <1>6, <1>7, <1>8, <1>9

LEMMA TurnsCounted ==
  ASSUME NEW turns, History!Conversation(turns)
  PROVE  /\ IsFiniteSet(TurnSet(turns))
         /\ Cardinality(TurnSet(turns)) = Len(turns)
<1> DEFINE S == TurnSet(turns)
           T == 1..Len(turns)
<1>1. DOMAIN turns = T /\ Len(turns) \in Nat /\ turns \in [T -> S]
  <2>1. turns \in Seq([place : Nat, createdAt : Int])
    BY DEF History!Conversation
  <2> QED
    BY <2>1 DEF TurnSet
<1>2. turns \in Bijection(T, S)
  <2>1. \A i, j \in T : turns[i] = turns[j] => i = j
    BY <1>1 DEF History!Conversation
  <2>2. \A x \in S : \E i \in T : turns[i] = x
    BY <1>1 DEF TurnSet
  <2>3. turns \in Injection(T, S)
    BY <1>1, <2>1 DEF Injection, IsInjective
  <2> QED
    BY <1>1, <2>2, <2>3 DEF Bijection, Surjection
<1>3. ExistsBijection(T, S)
  BY <1>2 DEF ExistsBijection
<1>4. IsFiniteSet(T) /\ Cardinality(T) = Len(turns)
  BY <1>1, FS_Interval
<1> QED
  BY <1>3, <1>4, FS_Bijection

\* The last k elements of a sequence of n.
LastOf(s, n, k) == [i \in 1..k |-> s[(n - k) + i]]
Kept(turns, k) == LastOf(turns, Len(turns), k)

FirstBy(s, rows, ord) ==
  /\ \A i, j \in DOMAIN s : s[i] = s[j] => i = j
  /\ \A i, j \in DOMAIN s : i < j => ord[s[i]] <= ord[s[j]]
  /\ \A r \in rows \ {s[i] : i \in DOMAIN s}, i \in DOMAIN s :
       ord[s[i]] <= ord[r]
Few(limit, rows) ==
  IF limit < Cardinality(rows) THEN limit ELSE Cardinality(rows)

LEMMA AnswersAre ==
  \A rows, ord, limit :
    LET answers == {s \in [1..Few(limit, rows) -> rows] : FirstBy(s, rows, ord)} IN
    /\ Results!Answers(rows, ord, limit) = answers
    /\ History!Results!Answers(rows, ord, limit) = answers
  BY DEF Results!Answers, Results!Least, Results!Cardinality, Cardinality,
         History!Results!Cardinality, History!Results!Answers,
         History!Results!Least, FirstBy, Few

\* The limit, or the turns there are.
LEMMA Fewer ==
  ASSUME NEW limit \in Nat, NEW turns, History!Conversation(turns)
  PROVE  \E k \in Nat : /\ k = Few(limit, TurnSet(turns)) /\ k <= Len(turns)
                       /\ k = IF limit < Len(turns) THEN limit ELSE Len(turns)
<1>1. Len(turns) \in Nat
  BY TurnsAre
<1>2. Cardinality(TurnSet(turns)) = Len(turns)
  BY TurnsCounted
<1>3. CASE limit < Len(turns)
  BY <1>1, <1>2, <1>3 DEF Few
<1>4. CASE ~(limit < Len(turns))
  BY <1>1, <1>2, <1>4 DEF Few
<1> QED
  BY <1>3, <1>4

Turned(s, k) == [i \in 1..k |-> s[(k - i) + 1]]

LEMMA HistoriesAre ==
  ASSUME NEW turns, NEW limit, NEW k \in Nat, k = Few(limit, TurnSet(turns))
  PROVE  \A hs : hs \in History!SupabaseHistories(turns, limit) <=>
           \E s \in [1..k -> TurnSet(turns)] :
             FirstBy(s, TurnSet(turns), ByTime(turns)) /\ hs = Turned(s, k)
<1>1. History!Results!Answers(TurnSet(turns), ByTime(turns), limit) =
        {s \in [1..k -> TurnSet(turns)] : FirstBy(s, TurnSet(turns), ByTime(turns))}
  BY AnswersAre, Zenon
<1>2. History!SupabaseHistories(turns, limit) =
        {History!Reversed(s) :
           s \in {q \in [1..k -> TurnSet(turns)] :
             FirstBy(q, TurnSet(turns), ByTime(turns))}}
  <2>1. History!SupabaseHistories(turns, limit) =
        {History!Reversed(s) :
          s \in History!Results!Answers(TurnSet(turns), ByTime(turns), limit)}
    BY DEF History!SupabaseHistories, History!Rows, TurnSet, ByTime
  <2> QED
    BY <1>1, <2>1
<1>3. ASSUME NEW s \in [1..k -> TurnSet(turns)]
      PROVE  History!Reversed(s) = Turned(s, k)
  <2>1. Len(s) = k /\ DOMAIN s = 1..k
    OBVIOUS
  <2> QED
    BY <2>1 DEF History!Reversed, Turned
<1> QED
  BY <1>2, <1>3

LEMMA ChosenAre ==
  ASSUME NEW turns, History!Conversation(turns), NEW k \in Nat,
         NEW s \in [1..k -> TurnSet(turns)],
         FirstBy(s, TurnSet(turns), ByTime(turns))
  PROVE  \E p \in [1..k -> 1..Len(turns)] :
           /\ Differ(p, k) /\ Latest(p, Times(turns), Len(turns), k)
           /\ \A i \in 1..k : s[i] = turns[p[i]]
<1>1. PICK p : p = [i \in 1..k |-> s[i].place]
  OBVIOUS
<1>2. /\ p \in [1..k -> 1..Len(turns)]
      /\ \A i \in 1..k : p[i] \in 1..Len(turns) /\ s[i] = turns[p[i]]
  BY <1>1, TurnsAre
<1>3. Differ(p, k)
  BY <1>2 DEF Differ, FirstBy
<1>4. \A i \in 1..k : ByTime(turns)[s[i]]
        = -Times(turns)[p[i]] /\ Times(turns)[p[i]] \in Int
  <2> SUFFICES ASSUME NEW i \in 1..k
               PROVE  /\ ByTime(turns)[s[i]] = -Times(turns)[p[i]]
                      /\ Times(turns)[p[i]] \in Int
    OBVIOUS
  <2>1. p[i] \in 1..Len(turns) /\ s[i] = turns[p[i]]
    BY <1>2
  <2> QED
    BY <2>1, TurnsAre
<1>5. ASSUME NEW i \in 1..k, NEW j \in 1..k, i < j
      PROVE  Times(turns)[p[j]] <= Times(turns)[p[i]]
  <2>1. ByTime(turns)[s[i]] <= ByTime(turns)[s[j]]
    BY <1>5 DEF FirstBy
  <2>2. /\ ByTime(turns)[s[i]] = -Times(turns)[p[i]] /\ Times(turns)[p[i]] \in Int
        /\ ByTime(turns)[s[j]] = -Times(turns)[p[j]] /\ Times(turns)[p[j]] \in Int
    BY <1>4
  <2> QED
    BY <2>1, <2>2
<1>6. ASSUME NEW m \in 1..Len(turns), \A i \in 1..k : p[i] # m, NEW i \in 1..k
      PROVE  Times(turns)[m] <= Times(turns)[p[i]]
  <2>1. turns[m] \in TurnSet(turns) \ {s[j] : j \in DOMAIN s}
    <3>1. turns[m] \in TurnSet(turns) /\ turns[m].place = m
      BY TurnsAre
    <3>2. \A j \in 1..k : s[j].place = p[j]
      BY <1>1
    <3> QED
      BY <1>6, <3>1, <3>2
  <2>2. ByTime(turns)[s[i]] <= ByTime(turns)[turns[m]]
    BY <2>1 DEF FirstBy
  <2>3. /\ ByTime(turns)[s[i]] = -Times(turns)[p[i]] /\ Times(turns)[p[i]] \in Int
        /\ ByTime(turns)[turns[m]] = -Times(turns)[m] /\ Times(turns)[m] \in Int
    BY <1>4, TurnsAre
  <2> QED
    BY <2>2, <2>3
<1>7. Latest(p, Times(turns), Len(turns), k)
  BY <1>5, <1>6 DEF Latest
<1> QED
  BY <1>2, <1>3, <1>7

LEMMA InOrderTimes ==
  ASSUME NEW turns, History!Conversation(turns)
  PROVE  /\ Times(turns) \in [1..Len(turns) -> Int]
         /\ InOrderOf(Times(turns), Len(turns))
<1>1. \A i \in 1..Len(turns) : Times(turns)[i]
        = turns[i].createdAt /\ turns[i].createdAt \in Int
  BY TurnsAre
<1>2. \A i, j \in 1..Len(turns) : i <= j => turns[i].createdAt <= turns[j].createdAt
  BY TurnsAre DEF History!Conversation
<1> QED
  BY <1>1, <1>2 DEF InOrderOf, Times

\* Where the database may begin with any of the rows of one time, the times of
\* the rows it answers are those of the last ones.
LEMMA HistoryTimes ==
  ASSUME NEW turns, History!Conversation(turns), NEW k \in Nat, k <= Len(turns),
         NEW s \in [1..k -> TurnSet(turns)],
         FirstBy(s, TurnSet(turns), ByTime(turns)), NEW i \in 1..k
  PROVE  \E j \in 1..Len(turns) :
           /\ Turned(s, k)[i] = turns[j]
           /\ turns[j].createdAt = Kept(turns, k)[i].createdAt
<1>1. Len(turns) \in Nat
  BY TurnsAre
<1>2. PICK p \in [1..k -> 1..Len(turns)] :
        /\ Differ(p, k) /\ Latest(p, Times(turns), Len(turns), k)
        /\ \A m \in 1..k : s[m] = turns[p[m]]
  BY ChosenAre
<1>3. PICK m \in 1..k : m = (k - i) + 1
  OBVIOUS
<1>4. /\ (Len(turns) - m) + 1 = (Len(turns) - k) + i
      /\ (Len(turns) - k) + i \in 1..Len(turns)
  BY <1>1, <1>3
<1>5. Times(turns)[p[m]] = Times(turns)[(Len(turns) - m) + 1]
  <2>1. PICK t, n : t = Times(turns) /\ n = Len(turns)
    OBVIOUS
  <2>2. /\ n \in Nat /\ k <= n /\ InOrderOf(t, n)
        /\ t \in [1..n -> Int] /\ p \in [1..k -> 1..n]
        /\ Differ(p, k) /\ Latest(p, t, n, k)
    BY <1>1, <1>2, <2>1, InOrderTimes
  <2>3. t[p[m]] = t[n - m + 1]
    BY <2>2, LatestAre
  <2> QED
    BY <2>1, <2>3
<1>6. Turned(s, k)[i] = turns[p[m]] /\ p[m] \in 1..Len(turns)
  BY <1>2, <1>3 DEF Turned
<1>7. PICK l \in 1..Len(turns) :
        l = (Len(turns) - k) + i /\ Times(turns)[p[m]] = Times(turns)[l]
  BY <1>4, <1>5
<1>8. turns[p[m]].createdAt = turns[l].createdAt
  BY <1>6, <1>7, TurnsAre
<1>9. Kept(turns, k)[i] = turns[l]
  BY <1>7 DEF Kept, LastOf
<1> QED
  BY <1>6, <1>8, <1>9

\* The last k turns, which are an answer themselves.
LEMMA LastTurns ==
  ASSUME NEW turns, History!Conversation(turns), NEW k \in Nat, k <= Len(turns)
  PROVE  \E s \in [1..k -> TurnSet(turns)] :
           /\ FirstBy(s, TurnSet(turns), ByTime(turns))
           /\ Turned(s, k) = Kept(turns, k)
<1>1. Len(turns) \in Nat
  BY TurnsAre
<1>2. PICK s : s = [i \in 1..k |-> turns[(Len(turns) - i) + 1]]
  OBVIOUS
<1>3. \A i \in 1..k : (Len(turns) - i) + 1 \in 1..Len(turns)
  BY <1>1
<1>4. /\ s \in [1..k -> TurnSet(turns)]
      /\ \A i \in 1..k : s[i] = turns[(Len(turns) - i) + 1]
  BY <1>2, <1>3, TurnsAre
<1>5. ASSUME NEW i \in 1..k, NEW j \in 1..k, s[i] = s[j]  PROVE i = j
  <2>1. s[i].place = (Len(turns) - i) + 1 /\ s[j].place = (Len(turns) - j) + 1
    <3>1. \A l \in 1..Len(turns) : turns[l].place = l
      BY TurnsAre
    <3>2. \A l \in 1..k : s[l].place = (Len(turns) - l) + 1
      BY <1>3, <1>4, <3>1
    <3> QED
      BY <3>2
  <2> QED
    BY <1>1, <1>5, <2>1
<1>6. ASSUME NEW m \in 1..Len(turns), NEW l \in 1..Len(turns), m <= l
      PROVE  ByTime(turns)[turns[l]] <= ByTime(turns)[turns[m]]
  <2>1. turns[m].createdAt <= turns[l].createdAt
    BY <1>6, TurnsAre DEF History!Conversation
  <2>2. /\ ByTime(turns)[turns[l]] = -turns[l].createdAt
        /\ ByTime(turns)[turns[m]] = -turns[m].createdAt
        /\ turns[m].createdAt \in Int /\ turns[l].createdAt \in Int
    BY TurnsAre
  <2> QED
    BY <2>1, <2>2
<1>7. ASSUME NEW i \in 1..k, NEW j \in 1..k, i < j
      PROVE  ByTime(turns)[s[i]] <= ByTime(turns)[s[j]]
  <2>1. (Len(turns) - j) + 1 <= (Len(turns) - i) + 1
    BY <1>1, <1>7
  <2> QED
    BY <1>3, <1>4, <1>6, <2>1
<1>8. ASSUME NEW r \in TurnSet(turns) \ {s[i] : i \in DOMAIN s}, NEW i \in 1..k
      PROVE  ByTime(turns)[s[i]] <= ByTime(turns)[r]
  <2>1. PICK m \in 1..Len(turns) : r = turns[m]
    BY TurnsAre
  <2>2. m <= (Len(turns) - i) + 1
    <3> SUFFICES ASSUME ~(m <= (Len(turns) - i) + 1)  PROVE FALSE
      OBVIOUS
    <3>1. PICK j \in 1..k : j = (Len(turns) - m) + 1
      BY <1>1
    <3>2. s[j] = turns[m]
      <4>1. (Len(turns) - j) + 1 = m
        BY <1>1, <3>1
      <4> QED
        BY <1>4, <4>1
    <3> QED
      BY <1>4, <1>8, <2>1, <3>2
  <2> QED
    BY <1>3, <1>4, <1>6, <2>1, <2>2
<1>9. FirstBy(s, TurnSet(turns), ByTime(turns))
  BY <1>4, <1>5, <1>7, <1>8 DEF FirstBy
<1>10. Turned(s, k) = Kept(turns, k)
  <2>1. ASSUME NEW i \in 1..k
        PROVE  s[(k - i) + 1] = turns[(Len(turns) - k) + i]
    <3>1. (k - i) + 1 \in 1..k /\ (Len(turns) - ((k - i) + 1)) + 1
            = (Len(turns) - k) + i
      BY <1>1
    <3> QED
      BY <1>4, <3>1
  <2> QED
    BY <2>1 DEF Turned, Kept, LastOf
<1> QED
  BY <1>4, <1>9, <1>10

TailAt(s, n, k, a) == n = Len(s) /\ k <= n /\ a = (n - k) + 1

LEMMA TailIs ==
  ASSUME NEW S, NEW s \in Seq(S), NEW n \in Nat, NEW k \in Nat, NEW a \in Nat,
         TailAt(s, n, k, a)
  PROVE  /\ SubSeq(s, a, n) = LastOf(s, n, k)
         /\ LastOf(s, n, k) \in Seq(S) /\ Len(LastOf(s, n, k)) = k
<1> n = Len(s) /\ k <= n /\ a = (n - k) + 1
  BY DEF TailAt
<1>0. PICK w : w = LastOf(s, n, k)
  OBVIOUS
<1>1. \A i \in 1..k : (n - k) + i \in 1..n
  OBVIOUS
<1>2. \A i \in 1..k : s[(n - k) + i] \in S
  BY <1>1
<1>3. w \in [1..k -> S] /\ \A i \in 1..k : w[i] = s[(n - k) + i]
  BY <1>0, <1>2 DEF LastOf
<1>4. w \in Seq(S) /\ Len(w) = k
  BY <1>3
<1>6. PICK q : q = SubSeq(s, a, n)
  OBVIOUS
<1>7. a..n \subseteq 1..n /\ \A i \in a..n : s[i] \in S
  OBVIOUS
<1>8. /\ q \in Seq(S) /\ Len(q) = k
      /\ \A i \in 1..k : q[i] = s[(a + i) - 1]
  <2>1. /\ q \in Seq(S) /\ Len(q) = IF a <= n THEN (n - a) + 1 ELSE 0
        /\ \A i \in 1..((n - a) + 1) : q[i] = s[(a + i) - 1]
    BY <1>6, <1>7, SubSeqProperties
  <2>2. (n - a) + 1 = k
    OBVIOUS
  <2> QED
    BY <2>1, <2>2
<1>9. \A i \in 1..k : (a + i) - 1 = (n - k) + i
  OBVIOUS
<1>10. \A i \in 1..k : q[i] = w[i]
  <2> SUFFICES ASSUME NEW i \in 1..k  PROVE q[i] = w[i]
    OBVIOUS
  <2>1. q[i] = s[(a + i) - 1] /\ w[i] = s[(n - k) + i]
    BY <1>3, <1>8
  <2> QED
    BY <1>9, <2>1
<1>11. q = w
  BY <1>4, <1>8, <1>10, SeqEqual
<1> QED
  BY <1>0, <1>4, <1>6, <1>11

LEMMA KeptIs ==
  ASSUME NEW turns, History!Conversation(turns), NEW limit \in Nat, NEW k \in Nat,
         k = IF limit < Len(turns) THEN limit ELSE Len(turns)
  PROVE  /\ History!InMemoryHistory(turns, limit) =
              IF limit = 0 THEN turns ELSE Kept(turns, k)
         /\ k <= limit
<1>1. turns \in Seq([place : Nat, createdAt : Int])
  BY DEF History!Conversation
<1>2. PICK n \in Nat : n = Len(turns) /\ DOMAIN turns = 1..n
  BY TurnsAre
<1>3. CASE limit = 0
  BY <1>1, <1>3, SubSeqFull DEF History!InMemoryHistory
<1>4. CASE limit # 0 /\ limit > n
  <2>1. Kept(turns, k) = turns
    BY <1>1, <1>2, <1>4 DEF Kept, LastOf
  <2>2. History!InMemoryHistory(turns, limit) = turns
    BY <1>1, <1>2, <1>4, SubSeqFull DEF History!InMemoryHistory
  <2> QED
    BY <1>2, <1>4, <2>1, <2>2
<1>5. CASE limit # 0 /\ ~(limit > n)
  <2>1. k = limit
    BY <1>2, <1>5
  <2>2. (n - k) + 1 \in Nat /\ k <= n
    BY <1>5, <2>1
  <2>6. PICK a \in Nat : a = (n - k) + 1
    BY <2>2
  <2>5. History!InMemoryHistory(turns, limit) = SubSeq(turns, a, n)
    BY <1>2, <1>5, <2>1, <2>6 DEF History!InMemoryHistory
  <2>3. SubSeq(turns, a, n) = Kept(turns, k)
    <3>1. k <= n /\ n = Len(turns)
      BY <1>2, <2>2
    <3>2. TailAt(turns, n, k, a)
      BY <2>6, <3>1 DEF TailAt
    <3>3. SubSeq(turns, a, n) = LastOf(turns, n, k)
      BY <1>1, <3>2, TailIs
    <3> QED
      BY <3>1, <3>3 DEF Kept
  <2>4. limit # 0 /\ k <= limit
    BY <1>5, <2>1
  <2> QED
    BY <2>3, <2>4, <2>5
<1> QED
  BY <1>2, <1>3, <1>4, <1>5

LEMMA KeptTurns ==
  ASSUME NEW turns, History!Conversation(turns), NEW k \in Nat, k <= Len(turns)
  PROVE  /\ Len(Kept(turns, k)) = k /\ DOMAIN Kept(turns, k) = 1..k
         /\ History!IsEnd(Kept(turns, k), turns)
<1>1. PICK n \in Nat : n = Len(turns) /\ DOMAIN turns = 1..n
  BY TurnsAre
<1>2. turns \in Seq([place : Nat, createdAt : Int])
  BY DEF History!Conversation
<1>3. PICK w : w = Kept(turns, k)
  OBVIOUS
<1>4. /\ w \in Seq([place : Nat, createdAt : Int]) /\ Len(w) = k
      /\ \A i \in 1..k : w[i] = turns[(n - k) + i]
  <2>1. w = LastOf(turns, n, k)
    BY <1>1, <1>3 DEF Kept
  <2>2. PICK a \in Nat : a = (n - k) + 1
    BY <1>1, SMTT(30)
  <2>3. w \in Seq([place : Nat, createdAt : Int]) /\ Len(w) = k
    <3>1. TailAt(turns, n, k, a)
      BY <1>1, <2>2 DEF TailAt
    <3> QED
      BY <1>2, <2>1, <3>1, TailIs
  <2> QED
    BY <2>1, <2>3 DEF LastOf
<1>5. DOMAIN w = 1..k
  BY <1>4
<1> QED
  BY <1>1, <1>3, <1>4, <1>5 DEF History!IsEnd

\* Conversation history (get_history): for every conversation and limit, the
\* list backend and the database backend answer turns of the same times, and the
\* same turns where no two share a time; at limit 0 the one answers all and the
\* other none.
THEOREM HistoriesAgree ==
  ASSUME NEW turns, History!Conversation(turns), NEW limit \in Nat
  PROVE  History!BackendsAgree(turns, limit)
<1>1. PICK k \in Nat : /\ k = Few(limit, TurnSet(turns)) /\ k <= Len(turns)
                       /\ k = IF limit < Len(turns) THEN limit ELSE Len(turns)
  BY Fewer
<1>2. PICK n \in Nat : n = Len(turns) /\ DOMAIN turns = 1..n
  BY TurnsAre
<1>5. k = Few(limit, TurnSet(turns)) /\ k <= Len(turns)
  BY <1>1
<1>6. \A hs : hs \in History!SupabaseHistories(turns, limit) <=>
        \E s \in [1..k -> TurnSet(turns)] :
          FirstBy(s, TurnSet(turns), ByTime(turns)) /\ hs = Turned(s, k)
  BY <1>5, HistoriesAre
<1>3. CASE limit = 0
  <2>1. k = 0
    BY <1>1, <1>2, <1>3
  <2>2. \E s \in [1..k -> TurnSet(turns)] :
          FirstBy(s, TurnSet(turns), ByTime(turns))
    BY <1>1, LastTurns
  <2>3. \A s : Turned(s, k) = <<>>
    BY <2>1 DEF Turned
  <2>4. History!SupabaseHistories(turns, limit) = {<<>>}
    BY <1>6, <2>2, <2>3
  <2>5. History!InMemoryHistory(turns, limit) = turns
    BY <1>1, <1>3, KeptIs
  <2> QED
    BY <1>3, <2>4, <2>5 DEF History!BackendsAgree
<1>4. CASE limit # 0
  <2>1. History!InMemoryHistory(turns, limit) = Kept(turns, k) /\ k <= limit
    BY <1>1, <1>4, KeptIs
  <2>2. /\ Len(Kept(turns, k)) = k /\ DOMAIN Kept(turns, k) = 1..k
        /\ History!IsEnd(Kept(turns, k), turns)
    BY <1>1, KeptTurns
  <2>3. ASSUME NEW hs \in History!SupabaseHistories(turns, limit)
        PROVE  /\ hs = [i \in 1..k |-> hs[i]] /\ Len(hs) = k
               /\ \A i \in 1..k : \E j \in 1..n :
                    /\ hs[i] = turns[j]
                    /\ turns[j].createdAt = Kept(turns, k)[i].createdAt
    <3>1. PICK s \in [1..k -> TurnSet(turns)] :
            FirstBy(s, TurnSet(turns), ByTime(turns)) /\ hs = Turned(s, k)
      BY <1>6
    <3>2. \A i \in 1..k : \E j \in 1..n :
            hs[i] = turns[j] /\ turns[j].createdAt = Kept(turns, k)[i].createdAt
      BY <1>2, <1>5, <3>1, HistoryTimes
    <3>4. hs = [i \in 1..k |-> hs[i]] /\ Len(hs) = k
      BY <3>1 DEF Turned
    <3> QED
      BY <3>2, <3>4
  <2>4. ASSUME \A i, j \in DOMAIN turns :
                 turns[i].createdAt = turns[j].createdAt => i = j
        PROVE  History!SupabaseHistories(turns, limit) = {Kept(turns, k)}
    <3>1. Kept(turns, k) \in History!SupabaseHistories(turns, limit)
      <4>1. \E s \in [1..k -> TurnSet(turns)] :
              FirstBy(s, TurnSet(turns), ByTime(turns)) /\ Turned(s, k)
                = Kept(turns, k)
        BY <1>5, LastTurns
      <4> QED
        BY <1>6, <4>1
    <3>2. ASSUME NEW hs \in History!SupabaseHistories(turns, limit)
          PROVE  hs = Kept(turns, k)
      <4>1. ASSUME NEW i \in 1..k  PROVE hs[i] = Kept(turns, k)[i]
        <5>1. PICK l \in 1..n : l = (n - k) + i
          BY <1>2, <1>5
        <5>2. Kept(turns, k)[i] = turns[l]
          BY <1>2, <5>1 DEF Kept, LastOf
        <5>3. PICK j \in 1..n : hs[i] = turns[j] /\ turns[j].createdAt
                     = turns[l].createdAt
          BY <2>3, <5>2
        <5>4. j = l
          BY <1>2, <2>4, <5>3
        <5> QED
          BY <5>2, <5>3, <5>4
      <4>2. Kept(turns, k) = [i \in 1..k |-> Kept(turns, k)[i]]
        BY DEF Kept, LastOf
      <4> QED
        BY <2>3, <4>1, <4>2
    <3> QED
      BY <3>1, <3>2
  <2>5. \A hs \in History!SupabaseHistories(turns, limit) :
          /\ Len(hs) = Len(Kept(turns, k))
          /\ \A i \in DOMAIN Kept(turns, k) : hs[i].createdAt
               = Kept(turns, k)[i].createdAt
    BY <2>2, <2>3
  <2> QED
    BY <1>4, <2>1, <2>2, <2>4, <2>5 DEF History!BackendsAgree
<1> QED
  BY <1>3, <1>4

(***************************************************************************)
(* SearchResults: by induction over the rows of both answers, what has     *)
(* been combined are the semantic rows and, after them, keyword matches in *)
(* their order, with no id that has been met left out.                     *)
(***************************************************************************)

LEMMA SameCardinality == \A S : Results!Cardinality(S) = Cardinality(S)
  BY DEF Results!Cardinality, Cardinality

Combines(f, both) ==
  f[0] = <<>> /\ \A m \in 1..Len(both) : f[m] = Results!Combined(f[m - 1], both[m])

LEMMA CombinedIs ==
  ASSUME NEW R, NEW semantic \in Seq(R), NEW keyword \in Seq(R), NEW limit
  PROVE  \E f : /\ Combines(f, semantic \o keyword)
                /\ Results!HybridSearch(semantic, keyword, limit) =
                     SubSeq(f[Len(semantic \o keyword)], 1,
                            Results!Least(limit, Len(f[Len(semantic \o keyword)])))
<1> DEFINE both == semantic \o keyword
           L == Len(both)
           go == [p \in (1..L) \X Seq(R) |-> Results!Combined(p[2], both[p[1]])]
           eq(f) == f = [n \in 0..L |->
                           IF n = 0 THEN <<>>
                             ELSE Results!Combined(f[n - 1], both[n])]
<1>0. both \in Seq(R) /\ L \in Nat /\ <<>> \in Seq(R)
  BY EmptySeq
<1>1. go \in [(1..L) \X Seq(R) -> Seq(R)]
  <2>1. \A p \in (1..L) \X Seq(R) : Results!Combined(p[2], both[p[1]]) \in Seq(R)
    <3> SUFFICES ASSUME NEW m \in 1..L, NEW q \in Seq(R)
                 PROVE  Results!Combined(q, both[m]) \in Seq(R)
      OBVIOUS
    <3>1. both[m] \in R
      BY <1>0
    <3> QED
      BY <3>1 DEF Results!Combined
  <2> QED
    BY <2>1
<1>2. PICK h \in [0..L -> Seq(R)] : Recurs(h, L, <<>>, go)
  <2> HIDE DEF go, L, both
  <2> QED
    BY <1>0, <1>1, RecursionTo
<1>3. eq(h)
  <2>1. ASSUME NEW m \in 0..L, m # 0
        PROVE  go[<<m, h[m - 1]>>] = Results!Combined(h[m - 1], both[m])
    <3>1. m \in 1..L /\ m - 1 \in 0..L
      BY <1>0, <2>1
    <3>2. <<m, h[m - 1]>> \in (1..L) \X Seq(R)
      BY <3>1
    <3> QED
      BY <3>2
  <2> HIDE DEF go, L, both
  <2> QED
    BY <1>2, <2>1 DEF Recurs
<1>4. PICK f : eq(f) /\ Results!HybridSearch(semantic, keyword, limit) =
                         SubSeq(f[L], 1, Results!Least(limit, Len(f[L])))
  <2>1. Results!HybridSearch(semantic, keyword, limit) =
          SubSeq((CHOOSE f : eq(f))[L], 1,
                 Results!Least(limit, Len((CHOOSE f : eq(f))[L])))
    BY Zenon DEF Results!HybridSearch
  <2>2. eq(CHOOSE f : eq(f))
    <3> HIDE DEF eq
    <3> QED
      BY <1>3
  <2> QED
    BY <2>1, <2>2
<1>5. ASSUME NEW m \in 0..L
      PROVE  f[m] = IF m = 0 THEN <<>> ELSE Results!Combined(f[m - 1], both[m])
  BY <1>4, Zenon
<1>6. Combines(f, both)
  <2>1. f[0] = <<>>
    BY <1>0, <1>5
  <2>2. ASSUME NEW m \in 1..L  PROVE f[m] = Results!Combined(f[m - 1], both[m])
    <3>1. m \in 0..L /\ m # 0
      BY <1>0
    <3> QED
      BY <1>5, <3>1
  <2> QED
    BY <2>1, <2>2 DEF Combines
<1> QED
  BY <1>4, <1>6

\* What has been combined of the first m rows.
ApartIn(q, n) == \A i, j \in 1..n : q[i].id = q[j].id => i = j
Gathers(q, m, semantic, k, keyword, R) ==
  /\ q \in Seq(R) /\ ApartIn(q, Len(q))
  /\ \A i \in 1..Len(q) : i <= k => q[i] = semantic[i]
  /\ \A i \in 1..Len(q) : i > k =>
       \E l \in 1..Len(keyword) : l <= m - k /\ q[i] = keyword[l]
  /\ m <= k => Len(q) = m
  /\ m >= k => Len(q) >= k

\* Keyword matches are in their order, and each id of what has been met is here.
InPlace(q, k, keyword) ==
  \A i, j \in 1..Len(q), l, p \in 1..Len(keyword) :
    k < i /\ i < j /\ q[i] = keyword[l] /\ q[j] = keyword[p] => l < p
HasMet(q, m, both) ==
  \A l \in 1..m : \E i \in 1..Len(q) : q[i].id = both[l].id

LEMMA TakenOnce ==
  ASSUME NEW R, NEW q \in Seq(R), NEW r \in R, ApartIn(q, Len(q))
  PROVE  /\ Results!Combined(q, r) \in Seq(R)
         /\ ApartIn(Results!Combined(q, r), Len(Results!Combined(q, r)))
<1>1. CASE Results!Seen(q, r)
  BY <1>1 DEF Results!Combined
<1>2. CASE ~Results!Seen(q, r)
  <2>1. PICK w : w = Append(q, r)
    OBVIOUS
  <2>2. /\ w \in Seq(R) /\ Len(w) = Len(q) + 1 /\ w[Len(q) + 1] = r
        /\ \A i \in 1..Len(q) : w[i] = q[i]
        /\ Len(q) \in Nat
    BY <2>1
  <2>3. \A i \in 1..Len(q) : q[i].id # r.id
    BY <1>2 DEF Results!Seen
  <2>4. ASSUME NEW i \in 1..(Len(q) + 1), NEW j \in 1..(Len(q) + 1), w[i].id
                 = w[j].id
        PROVE  i = j
    <3>1. CASE i \in 1..Len(q) /\ j \in 1..Len(q)
      BY <2>2, <2>4, <3>1 DEF ApartIn
    <3>2. CASE i = Len(q) + 1 /\ j \in 1..Len(q)
      BY <2>2, <2>3, <2>4, <3>2
    <3>3. CASE j = Len(q) + 1 /\ i \in 1..Len(q)
      BY <2>2, <2>3, <2>4, <3>3
    <3> QED
      BY <2>2, <3>1, <3>2, <3>3
  <2> QED
    BY <1>2, <2>1, <2>2, <2>4 DEF Results!Combined, ApartIn
<1> QED
  BY <1>1, <1>2

\* Rows of both answers by their place.
LEMMA BothAre ==
  ASSUME NEW R, NEW semantic \in Seq(R), NEW keyword \in Seq(R),
         NEW k \in Nat, k = Len(semantic),
         NEW m \in Nat, m < Len(semantic \o keyword),
         NEW r, r = (semantic \o keyword)[m + 1]
  PROVE  /\ r \in R /\ Len(semantic \o keyword) = k + Len(keyword)
         /\ m < k => r = semantic[m + 1]
         /\ m >= k => /\ (m + 1) - k \in 1..Len(keyword)
                      /\ r = keyword[(m + 1) - k]
<1>1. k = Len(semantic)
  OBVIOUS
<1>2. /\ semantic \o keyword \in Seq(R)
      /\ Len(semantic \o keyword) = k + Len(keyword) /\ Len(keyword) \in Nat
      /\ \A i \in 1..(k + Len(keyword)) : (semantic \o keyword)[i] =
            IF i <= k THEN semantic[i] ELSE keyword[i - k]
  BY <1>1, ConcatProperties
<1>3. m + 1 \in 1..(k + Len(keyword))
  BY <1>1, <1>2
<1>4. r = IF m + 1 <= k THEN semantic[m + 1] ELSE keyword[(m + 1) - k]
  BY <1>2, <1>3
<1>5. CASE m < k
  <2>1. m + 1 <= k /\ m + 1 \in 1..k
    BY <1>1, <1>5
  <2>2. r = semantic[m + 1]
    BY <1>4, <2>1
  <2>3. semantic[m + 1] \in R
    BY <1>1, <2>1, ElementOfSeq
  <2> QED
    BY <1>1, <1>2, <1>5, <2>2, <2>3
<1>6. CASE ~(m < k)
  <2>1. ~(m + 1 <= k) /\ (m + 1) - k \in 1..Len(keyword)
    BY <1>1, <1>2, <1>3, <1>6
  <2>2. r = keyword[(m + 1) - k]
    BY <1>4, <2>1
  <2>3. keyword[(m + 1) - k] \in R
    BY <2>1, ElementOfSeq
  <2> QED
    BY <1>1, <1>2, <1>6, <2>1, <2>2, <2>3
<1> QED
  BY <1>5, <1>6

LEMMA CombinesOn ==
  ASSUME NEW R, NEW semantic \in Seq(R), NEW keyword \in Seq(R),
         NEW k \in Nat, k = Len(semantic), ApartIn(semantic, k),
         NEW m \in Nat, m < Len(semantic \o keyword),
         NEW q, Gathers(q, m, semantic, k, keyword, R)
  PROVE  Gathers(Results!Combined(q, (semantic \o keyword)[m + 1]), m + 1,
           semantic, k, keyword, R)
<1>1. k = Len(semantic)
  OBVIOUS
<1>2. PICK r : r = (semantic \o keyword)[m + 1]
  OBVIOUS
<1>3. q \in Seq(R) /\ Len(q) \in Nat /\ DOMAIN q = 1..Len(q)
  <2>1. q \in Seq(R)
    BY DEF Gathers
  <2> QED
    BY <2>1
<1>4. r \in R /\ (m < k => r = semantic[m + 1])
      /\ (m >= k => /\ (m + 1) - k \in 1..Len(keyword)
                    /\ r = keyword[(m + 1) - k])
  BY <1>1, <1>2, BothAre
<1>5. PICK w : w = Results!Combined(q, r)
  OBVIOUS
<1>6. w \in Seq(R) /\ ApartIn(w, Len(w))
  BY <1>3, <1>4, <1>5, TakenOnce DEF Gathers
<1>7. /\ \A i \in 1..Len(q) : i <= k => q[i] = semantic[i]
      /\ m <= k => Len(q) = m
      /\ m >= k => Len(q) >= k
  BY <1>1 DEF Gathers
<1>10. \A i \in 1..Len(q) : i > k =>
         \E l \in 1..Len(keyword) : l <= (m + 1) - k /\ q[i] = keyword[l]
  <2>1. \A l \in 1..Len(keyword) : l <= m - k => l <= (m + 1) - k
    OBVIOUS
  <2> QED
    BY <1>1, <2>1 DEF Gathers
<1>8. CASE m < k
  <2>1. ~Results!Seen(q, r)
    <3> SUFFICES ASSUME NEW i \in 1..Len(q), q[i].id = r.id  PROVE FALSE
      BY <1>3 DEF Results!Seen
    <3>3. Len(q) = m
      BY <1>7, <1>8
    <3>4. i # m + 1 /\ i \in 1..k /\ m + 1 \in 1..k /\ i <= k
      BY <1>3, <1>8, <3>3
    <3>1. q[i] = semantic[i] /\ i # m + 1 /\ i \in 1..k /\ m + 1 \in 1..k
      BY <1>7, <3>4
    <3>2. r = semantic[m + 1]
      BY <1>4, <1>8
    <3> QED
      BY <1>1, <3>1, <3>2 DEF ApartIn
  <2>2. w = Append(q, r)
    BY <1>5, <2>1 DEF Results!Combined
  <2>3. /\ Len(w) = Len(q) + 1 /\ w[Len(q) + 1] = r
        /\ \A i \in 1..Len(q) : w[i] = q[i]
    BY <1>3, <1>4, <2>2
  <2>4. Len(q) = m /\ r = semantic[m + 1]
    BY <1>4, <1>7, <1>8
  <2>5. \A i \in 1..Len(w) : i <= k /\ w[i] = semantic[i]
    <3> SUFFICES ASSUME NEW i \in 1..(m + 1)  PROVE i <= k /\ w[i] = semantic[i]
      BY <2>3, <2>4
    <3>1. CASE i = m + 1
      BY <1>8, <2>3, <2>4, <3>1
    <3>2. CASE i \in 1..m
      BY <1>7, <1>8, <2>3, <2>4, <3>2
    <3> QED
      BY <3>1, <3>2
  <2>6. Gathers(w, m + 1, semantic, k, keyword, R)
    BY <1>1, <1>6, <1>8, <2>3, <2>4, <2>5 DEF Gathers
  <2> QED
    BY <1>2, <1>5, <2>6
<1>9. CASE ~(m < k)
  <2>1. Len(q) >= k
    BY <1>7, <1>9
  <2>4. \E l \in 1..Len(keyword) : l <= (m + 1) - k /\ r = keyword[l]
    BY <1>4, <1>9
  <2>2. CASE Results!Seen(q, r)
    <3>1. w = q
      BY <1>5, <2>2 DEF Results!Combined
    <3>2. Len(w) >= k /\ ~(m + 1 <= k)
      BY <1>9, <2>1, <3>1
    <3>3. /\ \A i \in 1..Len(w) : i <= k => w[i] = semantic[i]
          /\ \A i \in 1..Len(w) : i > k =>
               \E l \in 1..Len(keyword) : l <= (m + 1) - k /\ w[i] = keyword[l]
      BY <1>7, <1>10, <3>1
    <3>4. Gathers(w, m + 1, semantic, k, keyword, R)
      BY <1>6, <3>2, <3>3, Zenon DEF Gathers
    <3> QED
      BY <1>2, <1>5, <3>4
  <2>3. CASE ~Results!Seen(q, r)
    <3>1. w = Append(q, r)
      BY <1>5, <2>3 DEF Results!Combined
    <3>2. /\ Len(w) = Len(q) + 1 /\ w[Len(q) + 1] = r
          /\ \A i \in 1..Len(q) : w[i] = q[i]
      BY <1>3, <1>4, <3>1
    <3>3. \A i \in 1..Len(w) :
            /\ i <= k => w[i] = semantic[i]
            /\ i > k => \E l \in 1..Len(keyword) :
                          l <= (m + 1) - k /\ w[i] = keyword[l]
      <4> SUFFICES ASSUME NEW i \in 1..(Len(q) + 1)
                   PROVE  /\ i <= k => w[i] = semantic[i]
                          /\ i > k => \E l \in 1..Len(keyword) :
                                        l <= (m + 1) - k /\ w[i] = keyword[l]
        BY <3>2
      <4>1. CASE i = Len(q) + 1
        BY <1>1, <1>3, <2>1, <2>4, <3>2, <4>1
      <4>2. CASE i \in 1..Len(q)
        BY <1>7, <1>10, <3>2, <4>2
      <4> QED
        BY <1>3, <4>1, <4>2, SMTT(30)
    <3>4. Len(w) >= k /\ ~(m + 1 <= k)
      BY <1>3, <1>9, <2>1, <3>2
    <3>5. Gathers(w, m + 1, semantic, k, keyword, R)
      BY <1>6, <3>3, <3>4 DEF Gathers
    <3> QED
      BY <1>2, <1>5, <3>5
  <2> QED
    BY <2>2, <2>3
<1> QED
  BY <1>8, <1>9

\* One more row of both answers: it is met, and a match is behind the others.
LEMMA MeetsOn ==
  ASSUME NEW R, NEW semantic \in Seq(R), NEW keyword \in Seq(R),
         NEW k \in Nat, k = Len(semantic),
         \A l, p \in 1..Len(keyword) : keyword[l] = keyword[p] => l = p,
         NEW m \in Nat, m < Len(semantic \o keyword),
         NEW q, Gathers(q, m, semantic, k, keyword, R),
         InPlace(q, k, keyword), HasMet(q, m, semantic \o keyword),
         NEW w, w = Results!Combined(q, (semantic \o keyword)[m + 1])
  PROVE  InPlace(w, k, keyword) /\ HasMet(w, m + 1, semantic \o keyword)
<1>1. PICK r : r = (semantic \o keyword)[m + 1]
  OBVIOUS
<1>2. q \in Seq(R) /\ Len(q) \in Nat
  BY DEF Gathers
<1>3. r \in R /\ (m >= k => /\ (m + 1) - k \in 1..Len(keyword)
                            /\ r = keyword[(m + 1) - k])
  BY <1>1, BothAre
<1>4. CASE Results!Seen(q, r)
  <2>1. w = q
    BY <1>1, <1>4 DEF Results!Combined
  <2>2. \E i \in 1..Len(q) : q[i].id = r.id
    BY <1>2, <1>4 DEF Results!Seen
  <2>3. HasMet(q, m + 1, semantic \o keyword)
    <3> SUFFICES ASSUME NEW l \in 1..(m + 1)
                 PROVE  \E i \in 1..Len(q) : q[i].id = (semantic \o keyword)[l].id
      BY DEF HasMet
    <3>1. l \in 1..m \/ l = m + 1
      OBVIOUS
    <3> QED
      BY <1>1, <2>2, <3>1 DEF HasMet
  <2> QED
    BY <2>1, <2>3
<1>5. CASE ~Results!Seen(q, r)
  <2>1. w = Append(q, r)
    BY <1>1, <1>5 DEF Results!Combined
  <2>2. /\ Len(w) = Len(q) + 1 /\ w[Len(q) + 1] = r
        /\ \A i \in 1..Len(q) : w[i] = q[i] /\ i \in 1..Len(w)
        /\ Len(q) + 1 \in 1..Len(w)
    BY <1>2, <1>3, <2>1
  <2>3. HasMet(w, m + 1, semantic \o keyword)
    <3> SUFFICES ASSUME NEW l \in 1..(m + 1)
                 PROVE  \E i \in 1..Len(w) : w[i].id = (semantic \o keyword)[l].id
      BY DEF HasMet
    <3>1. CASE l = m + 1
      BY <1>1, <2>2, <3>1
    <3>2. CASE l \in 1..m
      <4>1. PICK i \in 1..Len(q) : q[i].id = (semantic \o keyword)[l].id
        BY <3>2 DEF HasMet
      <4> QED
        BY <2>2, <4>1
    <3>3. l = m + 1 \/ l \in 1..m
      OBVIOUS
    <3> QED
      BY <3>1, <3>2, <3>3
  <2>4. InPlace(w, k, keyword)
    <3> SUFFICES ASSUME NEW i \in 1..Len(w), NEW j \in 1..Len(w),
                        NEW l \in 1..Len(keyword), NEW p \in 1..Len(keyword),
                        k < i, i < j, w[i] = keyword[l], w[j] = keyword[p]
                 PROVE  l < p
      BY Zenon DEF InPlace
    <3>1. i \in 1..Len(q)
      BY <1>2, <2>2
    <3>2. CASE j \in 1..Len(q)
      BY <2>2, <3>1, <3>2 DEF InPlace
    <3>3. CASE j = Len(q) + 1
      <4>1. PICK o \in 1..Len(keyword) : o <= m - k /\ q[i] = keyword[o]
        BY <3>1 DEF Gathers
      <4>2. o = l
        BY <2>2, <3>1, <4>1
      <4>3. m >= k
        BY <4>1
      <4>4. p = (m + 1) - k
        BY <1>3, <2>2, <3>3, <4>3
      <4> QED
        BY <4>1, <4>2, <4>4
    <3> QED
      BY <1>2, <2>2, <3>2, <3>3
  <2> QED
    BY <2>3, <2>4
<1> QED
  BY <1>4, <1>5

LEMMA CombinedAll ==
  ASSUME NEW R, NEW semantic \in Seq(R), NEW keyword \in Seq(R),
         \A l, p \in 1..Len(keyword) : keyword[l] = keyword[p] => l = p,
         NEW k \in Nat, k = Len(semantic), ApartIn(semantic, k),
         NEW f, Combines(f, semantic \o keyword),
         NEW L, L = Len(semantic \o keyword)
  PROVE  /\ Gathers(f[L], L, semantic, k, keyword, R)
         /\ InPlace(f[L], k, keyword) /\ HasMet(f[L], L, semantic \o keyword)
<1> DEFINE S == {m \in Nat : /\ Gathers(f[m], m, semantic, k, keyword, R)
                             /\ InPlace(f[m], k, keyword)
                             /\ HasMet(f[m], m, semantic \o keyword)}
<1>0. L \in Nat /\ L >= k
  OBVIOUS
<1>1. 0 \in S
  <2>1. f[0] = <<>>
    BY DEF Combines
  <2>2. <<>> \in Seq(R) /\ Len(<<>>) = 0
    BY EmptySeq
  <2>3. Gathers(<<>>, 0, semantic, k, keyword, R)
    BY <2>2 DEF Gathers, ApartIn
  <2>4. InPlace(<<>>, k, keyword) /\ HasMet(<<>>, 0, semantic \o keyword)
    BY <2>2 DEF InPlace, HasMet
  <2> QED
    BY <2>1, <2>3, <2>4
<1>2. ASSUME NEW m \in Nat, m < L, m \in S  PROVE m + 1 \in S
  <2>1. m + 1 \in 1..L /\ (m + 1) - 1 = m
    BY <1>0, <1>2
  <2>2. f[m + 1] = Results!Combined(f[m], (semantic \o keyword)[m + 1])
    BY <2>1 DEF Combines
  <2>3. /\ Gathers(f[m], m, semantic, k, keyword, R)
        /\ InPlace(f[m], k, keyword) /\ HasMet(f[m], m, semantic \o keyword)
    BY <1>2
  <2>4. Gathers(f[m + 1], m + 1, semantic, k, keyword, R)
    BY <1>2, <2>2, <2>3, CombinesOn
  <2>5. InPlace(f[m + 1], k, keyword) /\ HasMet(f[m + 1], m + 1, semantic \o keyword)
    BY <1>2, <2>2, <2>3, MeetsOn
  <2> QED
    BY <2>4, <2>5
<1>3. \A m \in 0..L : m \in S
  <2> HIDE DEF S
  <2> QED
    BY <1>0, <1>1, <1>2, InductionTo
<1>4. L \in 0..L
  BY <1>0
<1> QED
  BY <1>3, <1>4

LEMMA AnswerSeq ==
  ASSUME NEW rows, IsFiniteSet(rows), NEW limit \in Nat, NEW ord,
         NEW s \in Results!Answers(rows, ord, limit)
  PROVE  /\ s \in Seq(rows) /\ Len(s) \in Nat /\ DOMAIN s = 1..Len(s)
         /\ Len(s) <= limit /\ Len(s) = Few(limit, rows)
         /\ s \in [1..Len(s) -> rows]
         /\ \A i, j \in 1..Len(s) : s[i] = s[j] => i = j
<1>1. Cardinality(rows) \in Nat
  BY FS_CardinalityType
<1>2. PICK k \in Nat : k = Few(limit, rows) /\ k <= limit
  BY <1>1 DEF Few
<1>3. s \in [1..k -> rows] /\ FirstBy(s, rows, ord)
  BY <1>2, AnswersAre, Zenon
<1>4. s \in Seq(rows) /\ Len(s) = k /\ DOMAIN s = 1..k
  BY <1>3
<1>5. \A i, j \in 1..k : s[i] = s[j] => i = j
  BY <1>3, <1>4 DEF FirstBy
<1> QED
  BY <1>2, <1>3, <1>4, <1>5

LEMMA CountedIds ==
  ASSUME NEW R, NEW q \in Seq(R), ApartIn(q, Len(q))
  PROVE  Cardinality({q[i].id : i \in DOMAIN q}) = Len(q)
<1> DEFINE S == {q[i].id : i \in DOMAIN q}
<1>1. PICK n \in Nat : n = Len(q) /\ DOMAIN q = 1..n
  OBVIOUS
<1>2. PICK g : g = [i \in 1..n |-> q[i].id]
  OBVIOUS
<1>3. g \in [1..n -> S] /\ \A x \in S : \E i \in 1..n : g[i] = x
  BY <1>1, <1>2
<1>4. \A i, j \in 1..n : g[i] = g[j] => i = j
  BY <1>1, <1>2 DEF ApartIn
<1>5. g \in Bijection(1..n, S)
  BY <1>3, <1>4 DEF Bijection, Surjection, Injection, IsInjective
<1>6. ExistsBijection(1..n, S)
  BY <1>5 DEF ExistsBijection
<1> QED
  BY <1>1, <1>6, FS_CountingElements

\* What HybridIsUnion says of an answer.
Unites(semantic, keyword, result, added, ids, limit) ==
  /\ Len(semantic) <= Len(result) /\ Len(result) <= limit
  /\ \A i \in DOMAIN semantic : result[i] = semantic[i]
  /\ Results!Cardinality(ids) = Len(result)
  /\ \A i \in added : \E l \in DOMAIN keyword : result[i] = keyword[l]
  /\ \A i, j \in added, l, p \in DOMAIN keyword :
       i < j /\ result[i] = keyword[l] /\ result[j] = keyword[p]
         => l < p
  /\ \A p \in DOMAIN keyword : keyword[p].id \notin ids =>
       /\ Len(result) = limit
       /\ \A i \in added, l \in DOMAIN keyword :
            result[i] = keyword[l] => l < p

\* Search (hybrid_search): whatever the approximate index finds and whatever
\* happens to the table between the two queries, a hybrid answer is the semantic
\* rows, then the keyword matches that are not among them in their order, each
\* id once; a match is missing only where the limit cuts, and no worse one then
\* surfaces in its place.
THEOREM HybridsAgree ==
  ASSUME NEW rows, Results!Indexed(rows), NEW now, Results!Indexed(now),
         NEW limit \in Nat
  PROVE  Results!HybridIsUnion(rows, now, limit)
<1> DEFINE both == rows \cup now
           matches == {r \in now : r.rank > 0}
<1>1. IsFiniteSet(rows) /\ IsFiniteSet(matches)
      /\ rows \subseteq both /\ matches \subseteq both
  <2>1. IsFiniteSet(rows) /\ IsFiniteSet(now)
    BY DEF Results!Indexed, Results!IsFiniteSet, IsFiniteSet
  <2>2. matches \in SUBSET now
    OBVIOUS
  <2>3. IsFiniteSet(matches)
    <3> HIDE DEF matches
    <3> QED
      BY <2>1, <2>2, FS_Subset
  <2> QED
    BY <2>1, <2>3
<1>2. PICK best : best = [r \in matches |-> -r.rank]
  OBVIOUS
<1>3. ASSUME NEW found \in SUBSET rows, NEW near,
             NEW semantic \in Results!Answers(found, near, limit),
             NEW keyword \in Results!Answers(matches, best, limit),
             NEW result, result = Results!HybridSearch(semantic, keyword, limit),
             NEW added, added = (Len(semantic) + 1)..Len(result),
             NEW ids, ids = {result[i].id : i \in DOMAIN result}
      PROVE  Unites(semantic, keyword, result, added, ids, limit)
  <2>0. IsFiniteSet(found)
    BY <1>1, FS_Subset
  <2>1. PICK k \in Nat : k = Len(semantic)
    BY <2>0, AnswerSeq
  <2>2. /\ semantic \in Seq(found) /\ k <= limit
        /\ semantic \in [1..k -> found] /\ DOMAIN semantic = 1..k
        /\ \A i, j \in 1..k : semantic[i] = semantic[j] => i = j
    BY <2>0, <2>1, AnswerSeq
  <2>3. /\ keyword \in Seq(matches) /\ DOMAIN keyword = 1..Len(keyword)
        /\ Len(keyword) \in Nat
        /\ \A l, p \in 1..Len(keyword) : keyword[l] = keyword[p] => l = p
    <3> HIDE DEF matches
    <3> QED
      BY <1>1, AnswerSeq
  <2>4. semantic \in Seq(both) /\ keyword \in Seq(both)
    <3>1. found \subseteq both
      OBVIOUS
    <3> HIDE DEF both, matches
    <3> QED
      BY <1>1, <2>2, <2>3, <3>1, SeqMonotonic
  <2>6. ApartIn(semantic, k)
    BY <2>2 DEF ApartIn, Results!Indexed
  <2> HIDE DEF both, matches
  <2>7. PICK L : L = Len(semantic \o keyword)
    OBVIOUS
  <2>8. PICK f : /\ Combines(f, semantic \o keyword)
                 /\ result = SubSeq(f[L], 1, Results!Least(limit, Len(f[L])))
    BY <1>3, <2>4, <2>7, CombinedIs
  <2>9. PICK q : q = f[L]
    OBVIOUS
  <2>10. /\ Gathers(q, L, semantic, k, keyword, both)
         /\ InPlace(q, k, keyword) /\ HasMet(q, L, semantic \o keyword)
    BY <2>1, <2>3, <2>4, <2>6, <2>7, <2>8, <2>9, CombinedAll
  <2>11. /\ L = k + Len(keyword) /\ L \in Nat
         /\ \A p \in 1..Len(keyword) :
              k + p \in 1..L /\ (semantic \o keyword)[k + p] = keyword[p]
    BY <2>1, <2>3, <2>4, <2>7, ConcatProperties
  <2>12. /\ q \in Seq(both) /\ ApartIn(q, Len(q)) /\ Len(q) \in Nat
         /\ \A i \in 1..Len(q) : i <= k => q[i] = semantic[i]
         /\ Len(q) >= k
    BY <2>3, <2>10, <2>11 DEF Gathers
  <2>23. \A i \in 1..Len(q) : i > k => \E l \in 1..Len(keyword) : q[i] = keyword[l]
    BY <2>10 DEF Gathers
  <2>13. PICK n \in Nat : n = Results!Least(limit, Len(q))
    BY <2>12 DEF Results!Least
  <2>14. /\ k <= n /\ n <= limit /\ n <= Len(q) /\ (n = limit \/ n = Len(q))
    BY <2>2, <2>12, <2>13 DEF Results!Least
  <2>15. /\ result \in Seq(both) /\ Len(result) = n /\ DOMAIN result = 1..n
         /\ \A i \in 1..n : result[i] = q[i]
    BY <2>8, <2>9, <2>12, <2>13, <2>14
  <2>16. ApartIn(result, n)
    BY <2>12, <2>14, <2>15 DEF ApartIn
  <2>17. \A i \in 1..k : result[i] = semantic[i]
    BY <2>12, <2>14, <2>15
  <2>18. Results!Cardinality(ids) = n
    <3>1. Cardinality({result[i].id : i \in DOMAIN result}) = Len(result)
      BY <2>15, <2>16, CountedIds
    <3> QED
      BY <1>3, <2>15, <3>1, SameCardinality
  <2>19. \A i \in added : i \in 1..n /\ i \in 1..Len(q) /\ k < i
    BY <1>3, <2>1, <2>14, <2>15
  <2>20. \A i \in added : \E l \in 1..Len(keyword) : result[i] = keyword[l]
    BY <2>15, <2>19, <2>23
  <2>21. \A i, j \in added, l, p \in 1..Len(keyword) :
           i < j /\ result[i] = keyword[l] /\ result[j] = keyword[p] => l < p
    BY <2>10, <2>15, <2>19 DEF InPlace
  <2>22. ASSUME NEW p \in 1..Len(keyword), keyword[p].id \notin ids
         PROVE  /\ n = limit
                /\ \A i \in added, l \in 1..Len(keyword) :
                     result[i] = keyword[l] => l < p
    <3>1. PICK j \in 1..Len(q) : q[j].id = keyword[p].id
      BY <2>10, <2>11 DEF HasMet
    <3>2. ~(j <= n)
      BY <1>3, <2>12, <2>15, <2>22, <3>1
    <3>3. PICK o \in 1..Len(keyword) : q[j] = keyword[o]
      BY <2>12, <2>14, <2>23, <3>1, <3>2
    <3>4. keyword[o] = keyword[p]
      <4>1. keyword[o] \in now /\ keyword[p] \in now
        BY <2>3 DEF matches
      <4> QED
        BY <3>1, <3>3, <4>1 DEF Results!Indexed
    <3>5. ASSUME NEW i \in added, NEW l \in 1..Len(keyword),
                 result[i] = keyword[l]
          PROVE  l < p
      <4>1. i \in 1..Len(q) /\ k < i /\ i < j /\ q[i] = keyword[l]
        BY <2>12, <2>14, <2>15, <2>19, <3>2, <3>5
      <4> QED
        BY <2>10, <3>1, <3>3, <3>4, <4>1 DEF InPlace
    <3> QED
      BY <2>12, <2>14, <3>2, <3>5
  <2> QED
    BY <2>1, <2>2, <2>3, <2>14, <2>15, <2>17, <2>18, <2>20, <2>21, <2>22
       DEF Unites
<1>4. ASSUME NEW semantic \in Results!SemanticSearch(rows, limit)
      PROVE  \E found \in SUBSET rows : \E near :
               semantic \in Results!Answers(found, near, limit)
  BY <1>4 DEF Results!SemanticSearch
<1>5. Results!KeywordSearch(now, limit) = Results!Answers(matches, best, limit)
  BY <1>2 DEF Results!KeywordSearch
<1> SUFFICES ASSUME NEW semantic \in Results!SemanticSearch(rows, limit),
                    NEW keyword \in Results!KeywordSearch(now, limit)
             PROVE  LET result == Results!HybridSearch(semantic, keyword, limit)
                        added == (Len(semantic) + 1)..Len(result)
                        ids == {result[i].id : i \in DOMAIN result} IN
                    Unites(semantic, keyword, result, added, ids, limit)
  BY Zenon DEF Results!HybridIsUnion, Unites
<1>6. PICK found \in SUBSET rows : \E near :
        semantic \in Results!Answers(found, near, limit)
  BY <1>4
<1>7. PICK near : semantic \in Results!Answers(found, near, limit)
  BY <1>6
<1> HIDE DEF matches
<1> QED
  BY <1>3, <1>5, <1>7

(***************************************************************************)
(* EnvTemplates: the places of vars have a last one for each name, and     *)
(* lists of templates with the same members have the same vars.            *)
(***************************************************************************)

Placed(given, catalog, templates) ==
  /\ \A i, j : <<i, j>> \in DOMAIN given <=>
       /\ i \in 1..Len(templates)
       /\ j \in 1..Len(Templates!VarsOf(catalog, templates[i]))
  /\ \A p \in DOMAIN given :
       /\ \E i, j \in Nat : p = <<i, j>>
       /\ given[p] = Templates!VarsOf(catalog, templates[p[1]])[p[2]]
       /\ given[p] \in Templates!VarSpec

LEMMA VarsOfAre ==
  ASSUME NEW catalog, Templates!Catalog(catalog)
  PROVE  \A k \in STRING :
           Templates!VarsOf(catalog, k) \in Seq(Templates!VarSpec)
BY EmptySeq DEF Templates!Catalog, Templates!VarsOf

LEMMA VarsAre ==
  ASSUME NEW catalog, Templates!Catalog(catalog), NEW templates \in Seq(STRING)
  PROVE  Placed(Templates!Vars(catalog, templates), catalog, templates)
<1> DEFINE given == Templates!Vars(catalog, templates)
<1>1. \A k \in STRING : Templates!VarsOf(catalog, k) \in Seq(Templates!VarSpec)
  BY VarsOfAre
<1>2. DOMAIN given = UNION {{i} \X DOMAIN Templates!VarsOf(catalog, templates[i]) :
                              i \in DOMAIN templates}
  BY DEF Templates!Vars
<1>3. \A p \in DOMAIN given : given[p]
        = Templates!VarsOf(catalog, templates[p[1]])[p[2]]
  BY DEF Templates!Vars
<1>4. /\ DOMAIN templates = 1..Len(templates) /\ Len(templates) \in Nat
      /\ \A i \in 1..Len(templates) : templates[i] \in STRING
  OBVIOUS
<1>5. \A i \in 1..Len(templates) :
        /\ Templates!VarsOf(catalog, templates[i]) \in Seq(Templates!VarSpec)
        /\ DOMAIN Templates!VarsOf(catalog, templates[i]) =
             1..Len(Templates!VarsOf(catalog, templates[i]))
  <2> SUFFICES ASSUME NEW i \in 1..Len(templates)
               PROVE  Templates!VarsOf(catalog, templates[i])
                        \in Seq(Templates!VarSpec)
    OBVIOUS
  <2>1. templates[i] \in STRING
    BY <1>4
  <2> QED
    BY <1>1, <2>1
<1>6. \A i, j : <<i, j>> \in DOMAIN given <=>
        /\ i \in 1..Len(templates)
        /\ j \in 1..Len(Templates!VarsOf(catalog, templates[i]))
  BY <1>2, <1>4, <1>5
<1>7. ASSUME NEW p \in DOMAIN given
      PROVE  \E i, j \in Nat : p = <<i, j>> /\ given[p] \in Templates!VarSpec
  <2>1. PICK i \in 1..Len(templates) :
          p \in {i} \X DOMAIN Templates!VarsOf(catalog, templates[i])
    BY <1>2, <1>4
  <2>2. PICK j \in 1..Len(Templates!VarsOf(catalog, templates[i])) : p = <<i, j>>
    BY <1>5, <2>1
  <2>3. Templates!VarsOf(catalog, templates[i])[j] \in Templates!VarSpec
    BY <1>5, <2>2, ElementOfSeq
  <2> QED
    BY <1>3, <2>2, <2>3
<1> QED
  BY <1>3, <1>6, <1>7 DEF Placed

Paired(given, n) ==
  \A p \in DOMAIN given : \E i \in 0..n, j \in Nat : p = <<i, j>>
Bounded(given, n) ==
  \A i \in 0..n : \E m \in Nat : \A j : <<i, j>> \in DOMAIN given => j \in 0..m

\* Of the places with a name there is a last one.
LEMMA LastPlace ==
  ASSUME NEW given, NEW n \in Nat, Paired(given, n), Bounded(given, n),
         NEW name, \E p \in DOMAIN given : given[p].name = name
  PROVE  \E p \in DOMAIN given :
           /\ given[p].name = name
           /\ \A q \in DOMAIN given : given[q].name = name
                => Templates!NotAfter(q, p)
<1> DEFINE S == {i \in 0..n : \E j \in Nat :
             <<i, j>> \in DOMAIN given /\ given[<<i, j>>].name = name}
<1>1. S # {} /\ S \subseteq 0..n
  <2>1. PICK p \in DOMAIN given : given[p].name = name
    OBVIOUS
  <2>2. PICK i \in 0..n, j \in Nat : p = <<i, j>>
    BY <2>1 DEF Paired
  <2>3. i \in S
    BY <2>1, <2>2
  <2> QED
    BY <2>3
<1>2. PICK i \in S : \A l \in S : l <= i
  <2> HIDE DEF S
  <2> QED
    BY <1>1, GreatestNumber
<1> DEFINE T == {j \in Nat :
             <<i, j>> \in DOMAIN given /\ given[<<i, j>>].name = name}
<1>3. PICK m \in Nat : T \subseteq 0..m
  BY DEF Bounded
<1>4. T # {}
  OBVIOUS
<1>5. PICK j \in T : \A l \in T : l <= j
  <2> HIDE DEF T
  <2> QED
    BY <1>3, <1>4, GreatestNumber
<1>6. ASSUME NEW q \in DOMAIN given, given[q].name = name
      PROVE  Templates!NotAfter(q, <<i, j>>)
  <2>1. PICK a \in 0..n, b \in Nat : q = <<a, b>>
    BY DEF Paired
  <2>2. a \in S
    BY <1>6, <2>1
  <2>3. a <= i
    BY <1>2, <2>2
  <2>4. CASE a = i
    BY <1>5, <1>6, <2>1, <2>4 DEF Templates!NotAfter
  <2>5. CASE a # i
    BY <2>1, <2>3, <2>5 DEF Templates!NotAfter
  <2> QED
    BY <2>4, <2>5
<1> QED
  BY <1>5, <1>6
NamesOf(given) == {given[p].name : p \in DOMAIN given}

LEMMA ByNameIs ==
  ASSUME NEW given, NEW n \in Nat, Paired(given, n), Bounded(given, n)
  PROVE  /\ DOMAIN Templates!ByName(given) = NamesOf(given)
         /\ \A name \in NamesOf(given) : \E p \in DOMAIN given :
              given[p].name = name /\ Templates!ByName(given)[name] = given[p]
<1>1. DOMAIN Templates!ByName(given) = NamesOf(given)
  BY DEF Templates!ByName, NamesOf
<1>2. ASSUME NEW name \in NamesOf(given)
      PROVE  \E p \in DOMAIN given :
               given[p].name = name /\ Templates!ByName(given)[name] = given[p]
  <2> DEFINE last(p) == /\ given[p].name = name
                        /\ \A q \in DOMAIN given :
                             given[q].name = name => Templates!NotAfter(q, p)
  <2>1. \E p \in DOMAIN given : last(p)
    BY LastPlace DEF NamesOf
  <2>2. PICK p : p = CHOOSE q \in DOMAIN given : last(q)
    OBVIOUS
  <2>3. p \in DOMAIN given /\ last(p)
    <3> HIDE DEF last
    <3> QED
      BY <2>1, <2>2
  <2>4. Templates!ByName(given)[name] = given[p]
    BY <2>2 DEF Templates!ByName, NamesOf
  <2> QED
    BY <2>3, <2>4
<1> QED
  BY <1>1, <1>2

VarSet(given) == {given[p] : p \in DOMAIN given}

LEMMA VarsInOrder ==
  ASSUME NEW catalog, Templates!Catalog(catalog), NEW templates \in Seq(STRING),
           NEW given,
         given = Templates!Vars(catalog, templates)
  PROVE  Paired(given, Len(templates)) /\ Bounded(given, Len(templates))
<1>1. Len(templates) \in Nat
  OBVIOUS
<1>6. Placed(given, catalog, templates)
  BY VarsAre
<1>4. \A i, j : <<i, j>> \in DOMAIN given <=>
        /\ i \in 1..Len(templates)
        /\ j \in 1..Len(Templates!VarsOf(catalog, templates[i]))
  BY <1>6 DEF Placed
<1>5. \A k \in STRING : Templates!VarsOf(catalog, k) \in Seq(Templates!VarSpec)
  BY VarsOfAre
<1>2. Paired(given, Len(templates))
  BY <1>6, <1>1 DEF Paired, Placed
<1>3. ASSUME NEW i \in 0..Len(templates)
      PROVE  \E m \in Nat : \A j : <<i, j>> \in DOMAIN given => j \in 0..m
  <2>1. CASE i = 0
    <3>1. \A j : <<i, j>> \notin DOMAIN given
      <4>1. i \notin 1..Len(templates)
        BY <1>1, <2>1
      <4> QED
        BY <1>4, <4>1
    <3>2. \A j : <<i, j>> \in DOMAIN given => j \in 0..0
      BY <3>1
    <3> QED
      BY <3>2
  <2>2. CASE i # 0
    <3>1. templates[i] \in STRING
      BY <1>1, <2>2
    <3>2. Templates!VarsOf(catalog, templates[i]) \in Seq(Templates!VarSpec)
      BY <1>5, <3>1
    <3>3. PICK m \in Nat : m = Len(Templates!VarsOf(catalog, templates[i]))
      BY <3>2
    <3>4. \A j : <<i, j>> \in DOMAIN given => j \in 1..m
      BY <1>4, <3>3
    <3>5. 1..m \subseteq 0..m
      OBVIOUS
    <3> QED
      BY <3>4, <3>5
  <2> QED
    BY <2>1, <2>2
<1> QED
  BY <1>2, <1>3 DEF Bounded

LEMMA SameVars ==
  ASSUME NEW catalog, Templates!Catalog(catalog), NEW templates \in Seq(STRING),
         NEW others, others = Templates!Otherwise(templates)
  PROVE  /\ others \in Seq(STRING)
         /\ VarSet(Templates!Vars(catalog, templates)) =
              VarSet(Templates!Vars(catalog, others))
<1> DEFINE in(v, k) == \E j \in 1..Len(Templates!VarsOf(catalog, k)) :
                         v = Templates!VarsOf(catalog, k)[j]
           of(ts) == {v \in Templates!VarSpec : \E i \in 1..Len(ts) : in(v, ts[i])}
<1>1. ASSUME NEW ts \in Seq(STRING)
      PROVE  VarSet(Templates!Vars(catalog, ts)) = of(ts)
  <2>1. PICK given : given = Templates!Vars(catalog, ts)
    OBVIOUS
  <2>6. Placed(given, catalog, ts)
    BY <2>1, VarsAre
  <2>2. \A i, j : <<i, j>> \in DOMAIN given <=>
          i \in 1..Len(ts) /\ j \in 1..Len(Templates!VarsOf(catalog, ts[i]))
    BY <2>6 DEF Placed
  <2>3. \A p \in DOMAIN given :
          /\ \E i, j \in Nat : p = <<i, j>>
          /\ given[p] = Templates!VarsOf(catalog, ts[p[1]])[p[2]]
          /\ given[p] \in Templates!VarSpec
    BY <2>6 DEF Placed
  <2>4. VarSet(given) \subseteq of(ts)
    <3> SUFFICES ASSUME NEW p \in DOMAIN given  PROVE given[p] \in of(ts)
      BY DEF VarSet
    <3>1. PICK i \in Nat, j \in Nat : p = <<i, j>>
      BY <2>3
    <3>2. i \in 1..Len(ts) /\ j \in 1..Len(Templates!VarsOf(catalog, ts[i]))
      <4>1. <<i, j>> \in DOMAIN given
        BY <3>1
      <4> QED
        BY <2>2, <4>1
    <3>3. /\ given[p] = Templates!VarsOf(catalog, ts[p[1]])[p[2]]
          /\ given[p] \in Templates!VarSpec
      BY <2>3
    <3>4. p[1] = i /\ p[2] = j
      BY <3>1
    <3> QED
      BY <3>2, <3>3, <3>4
  <2>5. of(ts) \subseteq VarSet(given)
    <3> SUFFICES ASSUME NEW i \in 1..Len(ts),
                        NEW j \in 1..Len(Templates!VarsOf(catalog, ts[i]))
                 PROVE  Templates!VarsOf(catalog, ts[i])[j] \in VarSet(given)
      OBVIOUS
    <3>1. <<i, j>> \in DOMAIN given
      BY <2>2
    <3>2. given[<<i, j>>] = Templates!VarsOf(catalog, ts[i])[j]
      BY <2>3, <3>1
    <3> QED
      BY <3>1, <3>2 DEF VarSet
  <2> HIDE DEF of
  <2> QED
    BY <2>1, <2>4, <2>5
<1>2. PICK n \in Nat : n = Len(templates) /\ DOMAIN templates = 1..n
  OBVIOUS
<1>3. PICK back : back = Templates!Reversed(templates)
  OBVIOUS
<1>4. /\ back \in Seq(STRING) /\ Len(back) = n
      /\ \A i \in 1..n : back[i] = templates[(n - i) + 1]
  <2>1. back = [i \in 1..n |-> templates[(n - i) + 1]]
    BY <1>2, <1>3 DEF Templates!Reversed
  <2>2. \A i \in 1..n : (n - i) + 1 \in 1..n
    OBVIOUS
  <2>3. \A i \in 1..n : templates[(n - i) + 1] \in STRING
    BY <1>2, <2>2, ElementOfSeq
  <2> QED
    BY <2>1, <2>3
<1>5. others = back \o back
  BY <1>3 DEF Templates!Otherwise
<1>6. /\ others \in Seq(STRING) /\ Len(others) = n + n
      /\ \A i \in 1..(n + n) : others[i] = IF i <= n THEN back[i] ELSE back[i - n]
  <2>1. /\ back \o back \in Seq(STRING)
        /\ Len(back \o back) = Len(back) + Len(back)
        /\ \A i \in 1..(Len(back) + Len(back)) : (back \o back)[i] =
             IF i <= Len(back) THEN back[i] ELSE back[i - Len(back)]
    <3>1. back \in Seq(STRING)
      BY <1>4
    <3> QED
      BY <3>1, ConcatProperties, Zenon
  <2> QED
    BY <1>4, <1>5, <2>1
<1>7. \A i \in 1..n : \E j \in 1..(n + n) : others[j] = templates[i]
  <2> SUFFICES ASSUME NEW i \in 1..n
               PROVE  \E j \in 1..(n + n) : others[j] = templates[i]
    OBVIOUS
  <2>1. PICK j \in 1..n : j = (n - i) + 1
    OBVIOUS
  <2>2. (n - j) + 1 = i /\ j \in 1..(n + n) /\ j <= n
    BY <2>1
  <2> QED
    BY <1>4, <1>6, <2>2
<1>8. \A j \in 1..(n + n) : \E i \in 1..n : others[j] = templates[i]
  <2> SUFFICES ASSUME NEW j \in 1..(n + n)
               PROVE  \E i \in 1..n : others[j] = templates[i]
    OBVIOUS
  <2>1. \E l \in 1..n : others[j] = back[l]
    <3>1. CASE j <= n
      BY <1>6, <3>1
    <3>2. CASE ~(j <= n)
      <4>1. j - n \in 1..n
        BY <3>2
      <4> QED
        BY <1>6, <3>2, <4>1
    <3> QED
      BY <3>1, <3>2
  <2>2. PICK l \in 1..n : others[j] = back[l]
    BY <2>1
  <2>3. (n - l) + 1 \in 1..n
    OBVIOUS
  <2> QED
    BY <1>4, <2>2, <2>3
<1>9. of(templates) = of(others)
  <2> HIDE DEF in
  <2> QED
    BY <1>2, <1>6, <1>7, <1>8
<1> QED
  <2> HIDE DEF of
  <2> QED
    BY <1>1, <1>6, <1>9
NamesIn(S) == {v.name : v \in S}
NeededIn(S) == {v.name : v \in {w \in S : w.required}}
Dict(d, given) ==
  /\ DOMAIN d = NamesIn(VarSet(given))
  /\ \A name \in DOMAIN d : \E p \in DOMAIN given :
       given[p].name = name /\ given[p] \in Templates!VarSpec /\ d[name] = given[p]

Requires(given) == [p \in {q \in DOMAIN given : given[q].required} |-> given[p]]

LEMMA RequiresIs ==
  ASSUME NEW given, NEW n, Paired(given, n), Bounded(given, n)
  PROVE  /\ Paired(Requires(given), n) /\ Bounded(Requires(given), n)
         /\ NamesOf(Requires(given)) = NeededIn(VarSet(given))
         /\ NamesOf(Requires(given)) \subseteq NamesOf(given)
<1>1. DOMAIN Requires(given) = {q \in DOMAIN given : given[q].required}
      /\ \A p \in DOMAIN Requires(given) : Requires(given)[p] = given[p]
  BY DEF Requires
<1>2. Paired(Requires(given), n)
  BY <1>1 DEF Paired
<1>3. Bounded(Requires(given), n)
  BY <1>1 DEF Bounded
<1> QED
  BY <1>1, <1>2, <1>3 DEF NamesOf, VarSet, NeededIn

LEMMA NamesAre == \A given : NamesOf(given) = NamesIn(VarSet(given))
  BY DEF NamesOf, VarSet, NamesIn

\* What the dicts of the two functions have.
LEMMA DictsAre ==
  ASSUME NEW catalog, Templates!Catalog(catalog), NEW templates \in Seq(STRING),
           NEW given,
         given = Templates!Vars(catalog, templates)
  PROVE  /\ DOMAIN Templates!RequiredVarsFor(catalog, templates)
              = NeededIn(VarSet(given))
         /\ NeededIn(VarSet(given)) \subseteq NamesIn(VarSet(given))
         /\ Dict(Templates!AllKnownVarsFor(catalog, templates), given)
<1>1. PICK n \in Nat : n = Len(templates)
  OBVIOUS
<1>2. Paired(given, n) /\ Bounded(given, n)
  BY <1>1, VarsInOrder
<1>3. Templates!RequiredVarsFor(catalog, templates)
        = Templates!ByName(Requires(given))
  BY DEF Templates!RequiredVarsFor, Requires
<1>4. Templates!AllKnownVarsFor(catalog, templates) = Templates!ByName(given)
  BY DEF Templates!AllKnownVarsFor
<1>5. DOMAIN Templates!ByName(Requires(given)) = NamesOf(Requires(given))
  BY <1>2, RequiresIs, ByNameIs
<1>6. /\ DOMAIN Templates!ByName(given) = NamesOf(given)
      /\ \A name \in NamesOf(given) : \E p \in DOMAIN given :
              given[p].name = name /\ Templates!ByName(given)[name] = given[p]
  BY <1>2, ByNameIs
<1>7. \A p \in DOMAIN given : given[p] \in Templates!VarSpec
  BY VarsAre DEF Placed
<1>8. /\ NamesOf(Requires(given)) = NeededIn(VarSet(given))
      /\ NamesOf(given) = NamesIn(VarSet(given))
  BY <1>2, RequiresIs, NamesAre
<1>9. Dict(Templates!ByName(given), given)
  BY <1>6, <1>7, <1>8 DEF Dict
<1>10. NeededIn(VarSet(given)) \subseteq NamesIn(VarSet(given))
  BY DEF NeededIn, NamesIn
<1> QED
  BY <1>3, <1>4, <1>5, <1>8, <1>9, <1>10

\* Env templates (required_vars_for, validate_secrets, list_secret_keys): for
\* every catalog and list of templates, their order and repetition change no
\* validation, what is missing is known and settles it once it is set, and no
\* key is marked plain that no template has as plain.
THEOREM TemplatesDecide ==
  ASSUME NEW catalog, Templates!Catalog(catalog), NEW templates \in Seq(STRING),
           NEW there
  PROVE  Templates!TemplatesAgree(catalog, templates, there)
<1> DEFINE given == Templates!Vars(catalog, templates)
           others == Templates!Otherwise(templates)
           result == Templates!ValidateSecrets(catalog, templates, there)
           settled == Templates!ValidateSecrets(catalog, templates,
                                                there \cup result.missing)
           marks == Templates!ListSecretKeys(catalog, templates, there)
           marks2 == Templates!ListSecretKeys(catalog, others, there)
<1>1. given = Templates!Vars(catalog, templates)
  OBVIOUS
<1>2. others = Templates!Otherwise(templates)
  OBVIOUS
<1> HIDE DEF given, others, result, settled, marks, marks2
<1>3. PICK oth : oth = Templates!Vars(catalog, others)
  OBVIOUS
<1>4. others \in Seq(STRING) /\ VarSet(given) = VarSet(oth)
  BY <1>1, <1>2, <1>3, SameVars
<1>5. PICK req : req = DOMAIN Templates!RequiredVarsFor(catalog, templates)
  OBVIOUS
<1>6. PICK known : known = Templates!AllKnownVarsFor(catalog, templates)
  OBVIOUS
<1>7. PICK known2 : known2 = Templates!AllKnownVarsFor(catalog, others)
  OBVIOUS
<1>8. /\ req = NeededIn(VarSet(given)) /\ Dict(known, given)
      /\ NeededIn(VarSet(given)) \subseteq NamesIn(VarSet(given))
  BY <1>1, <1>5, <1>6, DictsAre
<1>9. /\ DOMAIN Templates!RequiredVarsFor(catalog, others) = req
      /\ Dict(known2, oth) /\ DOMAIN known2 = DOMAIN known
  <2>1. /\ DOMAIN Templates!RequiredVarsFor(catalog, others) = NeededIn(VarSet(oth))
        /\ Dict(known2, oth)
    BY <1>3, <1>4, <1>7, DictsAre
  <2> QED
    BY <1>4, <1>8, <2>1 DEF Dict
<1>10. \A ps : /\ Templates!ValidateSecrets(catalog, templates, ps) =
                    [missing |-> req \ ps, present |-> ps,
                     unrecognized |-> ps \ DOMAIN known]
               /\ Templates!ValidateSecrets(catalog, others, ps) =
                    [missing |-> req \ ps, present |-> ps,
                     unrecognized |-> ps \ DOMAIN known]
  BY <1>5, <1>6, <1>7, <1>9 DEF Templates!ValidateSecrets
<1>11. \A name \in there :
         /\ Templates!ListSecretKeys(catalog, templates, there)[name] =
              (name \in DOMAIN known => known[name].sensitive)
         /\ Templates!ListSecretKeys(catalog, others, there)[name] =
              (name \in DOMAIN known => known2[name].sensitive)
  BY <1>6, <1>7, <1>9 DEF Templates!ListSecretKeys, Templates!IsSensitive
<1>12. req \ there
         = {given[p].name : p \in {q \in DOMAIN given : given[q].required}} \ there
  BY <1>8 DEF VarSet, NeededIn
<1>13. ASSUME NEW name \in there, Templates!MarksAgree(given, name)
       PROVE  (name \in DOMAIN known => known[name].sensitive) =
                (name \in DOMAIN known => known2[name].sensitive)
  <2>1. CASE name \notin DOMAIN known
    BY <2>1
  <2>2. CASE name \in DOMAIN known
    <3>1. PICK p \in DOMAIN given : given[p].name = name /\ known[name] = given[p]
                                  /\ given[p].sensitive \in BOOLEAN
      BY <1>8, <2>2 DEF Dict, Templates!VarSpec
    <3>2. PICK q \in DOMAIN oth : oth[q].name = name /\ known2[name] = oth[q]
      BY <1>9, <2>2 DEF Dict
    <3>3. PICK r \in DOMAIN given : given[r] = oth[q]
      BY <1>4, <3>2 DEF VarSet
    <3>4. given[p].sensitive = given[r].sensitive
      BY <1>13, <3>1, <3>2, <3>3 DEF Templates!MarksAgree
    <3> QED
      BY <3>1, <3>2, <3>3, <3>4
  <2> QED
    BY <2>1, <2>2
<1>14. ASSUME NEW name \in there, ~(name \in DOMAIN known => known[name].sensitive)
       PROVE  \E i \in DOMAIN given : given[i].name = name /\ ~given[i].sensitive
  BY <1>8, <1>14 DEF Dict
<1>15. /\ req \ (there \cup (req \ there)) = {}
       /\ (there \cup (req \ there)) \ DOMAIN known = there \ DOMAIN known
  BY <1>8 DEF Dict
<1>20. /\ result.missing = req \ there
       /\ result.unrecognized = there \ DOMAIN known
       /\ result = Templates!ValidateSecrets(catalog, others, there)
       /\ settled.missing = {} /\ settled.unrecognized = result.unrecognized
  <2>1. /\ result.missing = req \ there
        /\ result.unrecognized = there \ DOMAIN known
        /\ result = Templates!ValidateSecrets(catalog, others, there)
    <3>1. result = [missing |-> req \ there, present |-> there,
                    unrecognized |-> there \ DOMAIN known]
      BY <1>10, Zenon DEF result
    <3>2. result = Templates!ValidateSecrets(catalog, others, there)
      BY <1>10, <3>1, Zenon
    <3> QED
      BY <3>1, <3>2
  <2>2. settled = [missing |-> req \ (there \cup result.missing),
                   present |-> there \cup result.missing,
                   unrecognized |-> (there \cup result.missing) \ DOMAIN known]
    BY <1>10, Zenon DEF settled
  <2> QED
    BY <1>15, <2>1, <2>2
<1>21. ASSUME NEW name \in there
       PROVE  /\ name \in result.unrecognized => marks[name]
              /\ Templates!MarksAgree(given, name) => marks[name] = marks2[name]
              /\ ~marks[name] =>
                   \E i \in DOMAIN given : given[i].name
                     = name /\ ~given[i].sensitive
  BY <1>11, <1>13, <1>14, <1>20 DEF marks, marks2
<1>22. result.missing =
         {given[i].name : i \in {j \in DOMAIN given : given[j].required}} \ there
  BY <1>12, <1>20
<1> QED
  BY <1>20, <1>21, <1>22, Zenon
     DEF Templates!TemplatesAgree, given, others, result, settled, marks, marks2

(***************************************************************************)
(* ContextAssembler: what Loop says holds at each round, and a second      *)
(* assembly goes through the same rounds.                                  *)
(***************************************************************************)

LEMMA CutChars ==
  ASSUME NEW c \in Nat, NEW r \in Nat, NEW t \in Nat, NEW l \in 0..1,
         r < t, t = c \div 4
  PROVE  /\ (c * r - l) \div t + 3 \in Nat
         /\ (c * r - l) \div t + 3 <= 4 * r + 5
<1>1. c <= 4 * t + 3
  OBVIOUS
<1>2. t > 0
  OBVIOUS
<1>3. PICK a \in Nat : a = c * r
  OBVIOUS
<1>4. a <= (4 * t + 3) * r
  BY <1>1, <1>3
<1>5. PICK q \in Int : q = (a - l) \div t
  BY <1>2
<1>6. q * t <= a
  BY <1>2, <1>5
<1>7. (4 * t + 3) * r < (4 * r + 3) * t
  OBVIOUS
<1>8. q * t < (4 * r + 3) * t
  BY <1>4, <1>6, <1>7
<1>9. q < 4 * r + 3
  BY <1>2, <1>8
<1>10. q + 3 <= 4 * r + 5
  BY <1>9
<1>11. q >= -1
  BY <1>2, <1>5
<1> QED
  BY <1>3, <1>5, <1>10, <1>11

SumsOver(f, w, S) ==
  /\ f[0] = 0
  /\ \A m \in 1..Len(w) : f[m] = IF m \in S THEN f[m - 1] + w[m] ELSE f[m - 1]
  /\ Context!SumOver(w, S) = f[Len(w)]

LEMMA SumsOverIs ==
  ASSUME NEW w \in Seq(Nat), NEW S
  PROVE  \E f : SumsOver(f, w, S)
<1> DEFINE L == Len(w)
           go == [p \in (1..L) \X Nat |-> IF p[1] \in S THEN p[2] + w[p[1]]
             ELSE p[2]]
           eq(f) == f = [n \in 0..L |-> IF n = 0 THEN 0
                                        ELSE IF n \in S THEN f[n - 1] + w[n]
                                        ELSE f[n - 1]]
<1>1. go \in [(1..L) \X Nat -> Nat] /\ L \in Nat /\ 0 \in Nat
  <2>1. \A p \in (1..L) \X Nat : w[p[1]] \in Nat /\ p[2] \in Nat
    OBVIOUS
  <2>2. \A p \in (1..L) \X Nat : p[2] + w[p[1]] \in Nat
    BY <2>1
  <2> QED
    BY <2>1, <2>2
<1>2. PICK h \in [0..L -> Nat] : Recurs(h, L, 0, go)
  <2> HIDE DEF go, L
  <2> QED
    BY <1>1, RecursionTo
<1>3. eq(h)
  <2>1. ASSUME NEW m \in 0..L, m # 0
        PROVE  go[<<m, h[m - 1]>>] = IF m \in S THEN h[m - 1] + w[m] ELSE h[m - 1]
    <3>1. m \in 1..L /\ m - 1 \in 0..L
      BY <2>1
    <3>2. <<m, h[m - 1]>> \in (1..L) \X Nat
      BY <3>1
    <3> QED
      BY <3>2
  <2> HIDE DEF go, L
  <2> QED
    BY <1>2, <2>1 DEF Recurs
<1>4. PICK f : eq(f) /\ Context!SumOver(w, S) = f[L]
  <2>1. Context!SumOver(w, S) = (CHOOSE f : eq(f))[L]
    BY Zenon DEF Context!SumOver
  <2>2. eq(CHOOSE f : eq(f))
    <3> HIDE DEF eq
    <3> QED
      BY <1>3
  <2> QED
    BY <2>1, <2>2
<1>5. ASSUME NEW m \in 0..L
      PROVE  f[m] = IF m = 0 THEN 0 ELSE IF m \in S THEN f[m - 1] + w[m]
               ELSE f[m - 1]
  BY <1>4, Zenon
<1>6. \A m \in 1..L : m \in 0..L /\ m # 0
  BY <1>1
<1>7. 0 \in 0..L
  BY <1>1
<1> QED
  BY <1>4, <1>5, <1>6, <1>7, Zenon DEF SumsOver

LEMMA SumNat ==
  ASSUME NEW w \in Seq(Nat), NEW S
  PROVE  Context!SumOver(w, S) \in Nat
<1>1. PICK f : SumsOver(f, w, S)
  BY SumsOverIs
<1>2. PICK L \in Nat : L = Len(w)
  OBVIOUS
<1> DEFINE T == {m \in Nat : f[m] \in Nat}
<1>3. 0 \in T
  BY <1>1 DEF SumsOver
<1>4. ASSUME NEW m \in Nat, m < L, m \in T  PROVE m + 1 \in T
  <2>1. m + 1 \in 1..Len(w) /\ (m + 1) - 1 = m
    BY <1>2, <1>4
  <2>2. f[m + 1] = IF m + 1 \in S THEN f[m] + w[m + 1] ELSE f[m]
    BY <1>1, <2>1 DEF SumsOver
  <2>3. w[m + 1] \in Nat /\ f[m] \in Nat
    BY <1>4, <2>1
  <2> QED
    BY <2>2, <2>3
<1>5. \A m \in 0..L : m \in T
  <2> HIDE DEF T
  <2> QED
    BY <1>3, <1>4, InductionTo
<1>6. f[L] \in Nat
  BY <1>5
<1> QED
  BY <1>1, <1>2, <1>6 DEF SumsOver

SameOver(w, v, S) == Len(w) = Len(v) /\ \A m \in 1..Len(w) : m \in S => w[m] = v[m]

LEMMA SumSame ==
  ASSUME NEW w \in Seq(Nat), NEW v \in Seq(Nat), NEW S, SameOver(w, v, S)
  PROVE  Context!SumOver(w, S) = Context!SumOver(v, S)
<1>1. PICK f : SumsOver(f, w, S)
  BY SumsOverIs
<1>2. PICK g : SumsOver(g, v, S)
  BY SumsOverIs
<1>3. PICK L \in Nat : L = Len(w)
  OBVIOUS
<1>4. L = Len(v)
  BY <1>3 DEF SameOver
<1>5. f[0] = g[0]
  BY <1>1, <1>2 DEF SumsOver
<1>6. ASSUME NEW m \in 1..L, f[m - 1] = g[m - 1]  PROVE f[m] = g[m]
  <2>1. /\ f[m] = IF m \in S THEN f[m - 1] + w[m] ELSE f[m - 1]
        /\ g[m] = IF m \in S THEN g[m - 1] + v[m] ELSE g[m - 1]
    BY <1>1, <1>2, <1>3, <1>4 DEF SumsOver
  <2>2. m \in S => w[m] = v[m]
    BY <1>3 DEF SameOver
  <2> QED
    BY <1>6, <2>1, <2>2
<1>7. Alike(f, g, L)
  BY <1>5, <1>6 DEF Alike
<1>8. f[L] = g[L]
  BY <1>7, SameValues
<1> QED
  BY <1>1, <1>2, <1>3, <1>4, <1>8 DEF SumsOver

LEMMA SumMore ==
  ASSUME NEW w \in Seq(Nat), NEW S, NEW i \in 1..Len(w), i \notin S
  PROVE  Context!SumOver(w, S \cup {i}) = Context!SumOver(w, S) + w[i]
<1>1. PICK f : SumsOver(f, w, S)
  BY SumsOverIs
<1>2. PICK g : SumsOver(g, w, S \cup {i})
  BY SumsOverIs
<1>3. PICK L \in Nat : L = Len(w)
  OBVIOUS
<1> DEFINE T == {m \in Nat : f[m] \in Nat /\ g[m] = IF i <= m THEN f[m] + w[i]
             ELSE f[m]}
<1>4. 0 \in T
  BY <1>1, <1>2, <1>3 DEF SumsOver
<1>5. ASSUME NEW m \in Nat, m < L, m \in T  PROVE m + 1 \in T
  <2>1. m + 1 \in 1..Len(w) /\ (m + 1) - 1 = m
    BY <1>3, <1>5
  <2>2. f[m + 1] = IF m + 1 \in S THEN f[m] + w[m + 1] ELSE f[m]
    BY <1>1, <2>1 DEF SumsOver
  <2>3. g[m + 1] = IF m + 1 \in S \cup {i} THEN g[m] + w[m + 1] ELSE g[m]
    BY <1>2, <2>1 DEF SumsOver
  <2>4. w[m + 1] \in Nat /\ f[m] \in Nat /\ w[i] \in Nat
    BY <1>5, <2>1
  <2>5. g[m] = IF i <= m THEN f[m] + w[i] ELSE f[m]
    BY <1>5
  <2>6. CASE m + 1 = i
    BY <2>2, <2>3, <2>4, <2>5, <2>6
  <2>7. CASE m + 1 # i
    <3>1. m + 1 \in S \cup {i} <=> m + 1 \in S
      BY <2>7
    <3>2. i <= m <=> i <= m + 1
      BY <2>7
    <3>3. CASE m + 1 \in S
      <4>1. f[m + 1] = f[m] + w[m + 1] /\ g[m + 1] = g[m] + w[m + 1]
        BY <2>2, <2>3, <3>1, <3>3
      <4>2. CASE i <= m
        BY <2>4, <2>5, <3>2, <4>1, <4>2, SMTT(30)
      <4>3. CASE ~(i <= m)
        BY <2>4, <2>5, <3>2, <4>1, <4>3
      <4> QED
        BY <4>2, <4>3
    <3>4. CASE m + 1 \notin S
      BY <2>2, <2>3, <2>4, <2>5, <3>1, <3>2, <3>4
    <3> QED
      BY <3>3, <3>4
  <2> QED
    BY <2>6, <2>7
<1>6. \A m \in 0..L : m \in T
  <2> HIDE DEF T
  <2> QED
    BY <1>3, <1>4, <1>5, InductionTo
<1>7. L \in 0..L /\ i <= L
  BY <1>3
<1>8. g[L] = f[L] + w[i]
  BY <1>6, <1>7
<1> QED
  BY <1>1, <1>2, <1>3, <1>8 DEF SumsOver
Ahead(i, j, sources) ==
  \/ sources[i].priority > sources[j].priority
  \/ sources[i].priority = sources[j].priority /\ i <= j

LEMMA ForemostExists ==
  ASSUME NEW L \in Nat, NEW sources, \A i \in 1..L : sources[i].priority \in Int,
         NEW left \in SUBSET (1..L), left # {}
  PROVE  \E i \in left : \A j \in left : Ahead(i, j, sources)
<1> DEFINE T == {n \in Nat : n <= L => \A S \in SUBSET (1..n) : S # {} =>
                   \E i \in S : \A j \in S : Ahead(i, j, sources)}
<1>1. 0 \in T
  <2>1. \A S \in SUBSET (1..0) : S = {}
    OBVIOUS
  <2> QED
    BY <2>1, Zenon
<1>2. ASSUME NEW n \in Nat, n < L, n \in T  PROVE n + 1 \in T
  <2> SUFFICES ASSUME NEW S \in SUBSET (1..(n + 1)), S # {}
               PROVE  \E i \in S : \A j \in S : Ahead(i, j, sources)
    OBVIOUS
  <2>1. PICK k \in 1..L : k = n + 1
    BY <1>2
  <2>2. PICK R : R = S \ {k}
    OBVIOUS
  <2>3. R \in SUBSET (1..n) /\ \A j \in S : j \in 1..L
    BY <1>2, <2>1, <2>2
  <2>4. CASE R = {}
    <3>1. S = {k}
      BY <2>2, <2>4
    <3>2. Ahead(k, k, sources)
      BY DEF Ahead
    <3> QED
      BY <3>1, <3>2
  <2>5. CASE R # {}
    <3>1. PICK i \in R : \A j \in R : Ahead(i, j, sources)
      BY <1>2, <2>3, <2>5
    <3>2. i \in S /\ i \in 1..L /\ i < k
      BY <2>1, <2>2, <2>3
    <3>3. CASE k \notin S
      BY <2>2, <3>1, <3>2, <3>3
    <3>4. CASE k \in S /\ sources[k].priority > sources[i].priority
      <4>1. ASSUME NEW j \in S  PROVE Ahead(k, j, sources)
        <5>1. CASE j = k
          BY <5>1 DEF Ahead
        <5>2. CASE j # k
          <6>1. Ahead(i, j, sources) /\ j \in 1..L
            BY <2>2, <2>3, <3>1, <5>2
          <6> QED
            BY <3>2, <3>4, <6>1 DEF Ahead
        <5> QED
          BY <5>1, <5>2
      <4> QED
        BY <3>4, <4>1
    <3>5. CASE k \in S /\ ~(sources[k].priority > sources[i].priority)
      <4>1. Ahead(i, k, sources)
        BY <3>2, <3>5 DEF Ahead
      <4> QED
        BY <2>2, <3>1, <3>2, <4>1
    <3> QED
      BY <3>3, <3>4, <3>5
  <2> QED
    BY <2>4, <2>5
<1>3. \A n \in 0..L : n \in T
  <2> HIDE DEF T
  <2> QED
    BY <1>1, <1>2, InductionTo
<1>4. L \in T /\ L <= L
  BY <1>3
<1>5. \A S \in SUBSET (1..L) : S # {} =>
        \E i \in S : \A j \in S : Ahead(i, j, sources)
  BY <1>4
<1> QED
  BY <1>5

LEMMA FrontIs ==
  ASSUME NEW L \in Nat, NEW sources, \A i \in 1..L : sources[i].priority \in Int,
         NEW left \in SUBSET (1..L), left # {}
  PROVE  /\ Context!Foremost(sources, left) \in left
         /\ \A j \in left : Ahead(Context!Foremost(sources, left), j, sources)
<1>1. Context!Foremost(sources, left) =
        CHOOSE i \in left : \A j \in left : Ahead(i, j, sources)
  BY DEF Context!Foremost, Ahead
<1>2. \E i \in left : \A j \in left : Ahead(i, j, sources)
  BY ForemostExists
<1> QED
  BY <1>1, <1>2, Zenon

\* The states of the loop over L sources, and its rounds.
States(L) ==
  {s \in [sources : Seq(Context!ContextSource), left : SUBSET (1..L),
          used : SUBSET (1..L), dropped : Seq(Nat), truncated : Seq(Nat),
          total : Nat] : Len(s.sources) = L}

Starts(s, sources) ==
  s = [sources |-> sources, left |-> DOMAIN sources \ Context!Pinned(sources),
       used |-> Context!Pinned(sources), dropped |-> <<>>, truncated |-> <<>>,
       total |-> Context!TokensOf(sources, Context!Pinned(sources))]

Assembles(f, sources, limit) ==
  /\ Starts(f[0], sources)
  /\ \A n \in 1..Len(sources) : f[n] = Context!Round(f[n - 1], limit)
  /\ Context!Assemble(sources, limit) = f[Len(sources)]

Weights(sources) == [i \in DOMAIN sources |-> sources[i].tokens]

LEMMA SourcesAre ==
  ASSUME NEW sources \in Seq(Context!ContextSource)
  PROVE  /\ Len(sources) \in Nat /\ DOMAIN sources = 1..Len(sources)
         /\ \A i \in 1..Len(sources) :
              /\ sources[i] \in Context!ContextSource
              /\ sources[i].chars \in Nat /\ sources[i].tokens \in Nat
              /\ sources[i].priority \in Int /\ sources[i].pinned \in BOOLEAN
         /\ Weights(sources) \in Seq(Nat) /\ Len(Weights(sources)) = Len(sources)
         /\ \A i \in 1..Len(sources) : Weights(sources)[i] = sources[i].tokens
<1>1. Len(sources) \in Nat /\ DOMAIN sources = 1..Len(sources)
  OBVIOUS
<1>2. \A i \in 1..Len(sources) : sources[i] \in Context!ContextSource
  BY ElementOfSeq
<1>3. \A i \in 1..Len(sources) :
        /\ sources[i].chars \in Nat /\ sources[i].tokens \in Nat
        /\ sources[i].priority \in Int /\ sources[i].pinned \in BOOLEAN
  BY <1>2 DEF Context!ContextSource
<1>4. Weights(sources) \in [1..Len(sources) -> Nat]
  BY <1>1, <1>3 DEF Weights
<1>5. Weights(sources) \in Seq(Nat) /\ Len(Weights(sources)) = Len(sources)
  BY <1>1, <1>4
<1>6. \A i \in 1..Len(sources) : Weights(sources)[i] = sources[i].tokens
  BY <1>1 DEF Weights
<1> QED
  BY <1>1, <1>2, <1>3, <1>5, <1>6

LEMMA CutIs ==
  ASSUME NEW src \in Context!ContextSource, NEW r \in Nat, r < src.tokens
  PROVE  /\ Context!Cut(src, r) \in Context!ContextSource
         /\ Context!Cut(src, r).tokens = r
         /\ Context!Cut(src, r).priority = src.priority
         /\ Context!Cut(src, r).pinned = src.pinned
         /\ Context!Cut(src, r).chars = Context!CharsToKeep(src, r) + 3
<1>1. src.tokens \in Nat /\ src.chars \in Nat /\ src.tokens > 0
      /\ src.lost \in 0..1
  BY DEF Context!ContextSource
<1>2. PICK a \in Nat : a = src.chars * r
  BY <1>1
<1>3. (a - src.lost) \div src.tokens + 3 \in Nat
  BY <1>1, <1>2
<1>4. PICK c \in Nat : c = Context!CharsToKeep(src, r) + 3
  BY <1>2, <1>3 DEF Context!CharsToKeep
<1>5. Context!Cut(src, r) = [src EXCEPT !.chars = c, !.tokens = r]
  BY <1>4 DEF Context!Cut, Context!Ellipsis
<1> QED
  BY <1>4, <1>5 DEF Context!ContextSource

\* What a round does: it drops a source, uses it whole or cuts it.
Drops(s, t, i, limit) ==
  /\ s.total >= limit
  /\ t = [s EXCEPT !.left = @ \ {i}, !.dropped = Append(@, i)]
UsesWhole(s, t, i, limit) ==
  /\ s.total < limit /\ s.total + s.sources[i].tokens <= limit
  /\ t = [s EXCEPT !.left = @ \ {i}, !.used = @ \cup {i},
                   !.total = @ + s.sources[i].tokens]
Cuts(s, t, i, limit) ==
  /\ s.total < limit /\ s.total + s.sources[i].tokens > limit
  /\ t = [s EXCEPT !.left = @ \ {i}, !.used = @ \cup {i}, !.total = limit,
                   !.truncated = Append(@, i),
                   !.sources = [s.sources EXCEPT ![i] =
                                  Context!Cut(s.sources[i], limit - s.total)]]

LEMMA RoundIs ==
  ASSUME NEW L \in Nat, NEW s \in States(L), NEW limit \in Nat, s.left # {},
         NEW i, i = Context!Foremost(s.sources, s.left), NEW t, t
           = Context!Round(s, limit)
  PROVE  Drops(s, t, i, limit) \/ UsesWhole(s, t, i, limit) \/ Cuts(s, t, i, limit)
<1>1. t = Context!Take(s, i, limit)
  BY DEF Context!Round
<1>2. s.left \in SUBSET (1..L) /\ s.sources \in Seq(Context!ContextSource)
      /\ Len(s.sources) = L /\ s.total \in Nat
  BY DEF States
<1>3. i \in s.left /\ i \in 1..L
  BY <1>2, SourcesAre, FrontIs
<1>4. s.sources[i].tokens \in Nat
  BY <1>2, <1>3, SourcesAre
<1>5. CASE s.total >= limit
  BY <1>1, <1>5 DEF Context!Take, Drops, States
<1>6. CASE ~(s.total >= limit) /\ s.total + s.sources[i].tokens <= limit
  BY <1>1, <1>2, <1>6 DEF Context!Take, UsesWhole, States
<1>7. CASE ~(s.total >= limit) /\ ~(s.total + s.sources[i].tokens <= limit)
  BY <1>1, <1>2, <1>4, <1>7 DEF Context!Take, Cuts, States
<1> QED
  BY <1>5, <1>6, <1>7

\* Which source is foremost depends on the priorities alone.
Ranked(s, sources, L) ==
  \A i \in 1..L : /\ s[i].priority = sources[i].priority
                  /\ s[i].pinned = sources[i].pinned

LEMMA FrontSame ==
  ASSUME NEW L \in Nat, NEW s, NEW sources,
         \A i \in 1..L : sources[i].priority \in Int,
         Ranked(s, sources, L), NEW left \in SUBSET (1..L), left # {}
  PROVE  Context!Foremost(s, left) = Context!Foremost(sources, left)
<1>1. PICK a, b : a = Context!Foremost(s, left) /\ b
             = Context!Foremost(sources, left)
  OBVIOUS
<1>2. \A i \in 1..L : s[i].priority \in Int /\ s[i].priority = sources[i].priority
  BY DEF Ranked
<1>3. a \in left /\ \A j \in left : Ahead(a, j, s)
  BY <1>1, <1>2, FrontIs
<1>4. b \in left /\ \A j \in left : Ahead(b, j, sources)
  BY <1>1, FrontIs
<1>5. a \in 1..L /\ b \in 1..L
  BY <1>3, <1>4
<1>6. Ahead(a, b, s) /\ Ahead(b, a, sources)
  BY <1>3, <1>4
<1>7. a = b
  BY <1>2, <1>5, <1>6 DEF Ahead
<1> QED
  BY <1>1, <1>7

Whole(t) ==
  t = [sources |-> t.sources, left |-> t.left, used |-> t.used,
       dropped |-> t.dropped, truncated |-> t.truncated, total |-> t.total]

LEMMA StateIs ==
  ASSUME NEW L \in Nat, NEW t, Whole(t),
         t.sources \in Seq(Context!ContextSource), Len(t.sources) = L,
         t.left \in SUBSET (1..L), t.used \in SUBSET (1..L),
         t.dropped \in Seq(Nat), t.truncated \in Seq(Nat), t.total \in Nat
  PROVE  t \in States(L)
BY DEF States, Whole

LEMMA RoundStays ==
  ASSUME NEW L \in Nat, NEW s \in States(L), NEW limit \in Nat
  PROVE  Context!Round(s, limit) \in States(L)
<1>1. CASE s.left = {}
  BY <1>1 DEF Context!Round
<1>2. CASE s.left # {}
  <2>1. PICK t : t = Context!Round(s, limit)
    OBVIOUS
  <2>2. PICK i : i = Context!Foremost(s.sources, s.left)
    OBVIOUS
  <2>3. s.left \in SUBSET (1..L) /\ s.sources \in Seq(Context!ContextSource)
        /\ Len(s.sources) = L /\ s.total \in Nat /\ s.used \in SUBSET (1..L)
        /\ s.dropped \in Seq(Nat) /\ s.truncated \in Seq(Nat)
    BY DEF States
  <2>4. i \in s.left /\ i \in 1..L /\ i \in Nat
    <3>1. \A j \in 1..L : s.sources[j].priority \in Int
      BY <2>3, SourcesAre
    <3>2. i \in s.left
      BY <1>2, <2>2, <2>3, <3>1, FrontIs
    <3> QED
      BY <2>3, <3>2
  <2>5. s.sources[i] \in Context!ContextSource /\ s.sources[i].tokens \in Nat
    BY <2>3, <2>4, SourcesAre
  <2>6. Drops(s, t, i, limit) \/ UsesWhole(s, t, i, limit) \/ Cuts(s, t, i, limit)
    BY <1>2, <2>1, <2>2, RoundIs
  <2>7. CASE Drops(s, t, i, limit)
    <3>1. Append(s.dropped, i) \in Seq(Nat)
      BY <2>3, <2>4
    <3>2. /\ Whole(t) /\ t.sources = s.sources /\ t.left = s.left \ {i}
          /\ t.used = s.used /\ t.dropped = Append(s.dropped, i)
          /\ t.truncated = s.truncated /\ t.total = s.total
      BY <2>7 DEF Drops, States, Whole
    <3>3. s.left \ {i} \in SUBSET (1..L)
      BY <2>3
    <3> QED
      BY <2>1, <2>3, <3>1, <3>2, <3>3, StateIs
  <2>8. CASE UsesWhole(s, t, i, limit)
    <3>1. s.total + s.sources[i].tokens \in Nat
      BY <2>3, <2>5
    <3>2. /\ Whole(t) /\ t.sources = s.sources /\ t.left = s.left \ {i}
          /\ t.used = s.used \cup {i} /\ t.dropped = s.dropped
          /\ t.truncated = s.truncated
          /\ t.total = s.total + s.sources[i].tokens
      BY <2>8 DEF UsesWhole, States, Whole
    <3>3. s.left \ {i} \in SUBSET (1..L) /\ s.used \cup {i} \in SUBSET (1..L)
      BY <2>3, <2>4
    <3> QED
      BY <2>1, <2>3, <3>1, <3>2, <3>3, StateIs
  <2>9. CASE Cuts(s, t, i, limit)
    <3>1. PICK r \in Nat : r = limit - s.total /\ r < s.sources[i].tokens
      BY <2>3, <2>5, <2>9 DEF Cuts
    <3>2. PICK c \in Context!ContextSource : c = Context!Cut(s.sources[i], r)
      BY <2>5, <3>1, CutIs
    <3>3. [s.sources EXCEPT ![i] = c] \in Seq(Context!ContextSource)
          /\ Len([s.sources EXCEPT ![i] = c]) = L
      BY <2>3, <2>4, ExceptSeq
    <3>4. Append(s.truncated, i) \in Seq(Nat)
      BY <2>3, <2>4
    <3>5. /\ Whole(t) /\ t.sources = [s.sources EXCEPT ![i] = c]
          /\ t.left = s.left \ {i} /\ t.used = s.used \cup {i}
          /\ t.dropped = s.dropped /\ t.truncated = Append(s.truncated, i)
          /\ t.total = limit
      BY <2>9, <3>1, <3>2 DEF Cuts, States, Whole
    <3>6. s.left \ {i} \in SUBSET (1..L) /\ s.used \cup {i} \in SUBSET (1..L)
      BY <2>3, <2>4
    <3> QED
      BY <2>1, <2>3, <3>3, <3>4, <3>5, <3>6, StateIs
  <2> QED
    BY <2>6, <2>7, <2>8, <2>9
<1> QED
  BY <1>1, <1>2

LEMMA StartsIn ==
  ASSUME NEW sources \in Seq(Context!ContextSource), NEW s, Starts(s, sources)
  PROVE  s \in States(Len(sources))
<1>1. Context!Pinned(sources) \in SUBSET (1..Len(sources))
  BY SourcesAre DEF Context!Pinned
<1>2. Context!TokensOf(sources, Context!Pinned(sources)) \in Nat
  BY SourcesAre, SumNat DEF Context!TokensOf, Weights
<1>3. <<>> \in Seq(Nat)
  OBVIOUS
<1>4. DOMAIN sources = 1..Len(sources)
  OBVIOUS
<1> QED
  BY <1>1, <1>2, <1>3, <1>4 DEF Starts, States

LEMMA AssembleIs ==
  ASSUME NEW sources \in Seq(Context!ContextSource), NEW limit \in Nat
  PROVE  \E f \in [0..Len(sources) -> States(Len(sources))] :
           Assembles(f, sources, limit)
<1> DEFINE L == Len(sources)
           start == [sources |-> sources,
                     left |-> DOMAIN sources \ Context!Pinned(sources),
                     used |-> Context!Pinned(sources), dropped |-> <<>>,
                     truncated |-> <<>>,
                     total |-> Context!TokensOf(sources, Context!Pinned(sources))]
           go == [p \in (1..L) \X States(L) |-> Context!Round(p[2], limit)]
           eq(f) == f = [n \in 0..L |->
                           IF n = 0 THEN start
                           ELSE Context!Round(f[n - 1], limit)]
<1>1. L \in Nat
  OBVIOUS
<1>2. start \in States(L) /\ Starts(start, sources)
  <2>1. Starts(start, sources)
    BY Zenon DEF Starts
  <2> QED
    BY <2>1, StartsIn, Zenon
<1>3. go \in [(1..L) \X States(L) -> States(L)]
  <2>1. \A p \in (1..L) \X States(L) : Context!Round(p[2], limit) \in States(L)
    <3> HIDE DEF L
    <3> QED
      BY <1>1, RoundStays
  <2> QED
    BY <2>1
<1>4. PICK h \in [0..L -> States(L)] : Recurs(h, L, start, go)
  <2> HIDE DEF go, L, start
  <2> QED
    BY <1>1, <1>2, <1>3, RecursionTo
<1>5. eq(h)
  <2>1. ASSUME NEW m \in 0..L, m # 0
        PROVE  go[<<m, h[m - 1]>>] = Context!Round(h[m - 1], limit)
    <3>1. m \in 1..L /\ m - 1 \in 0..L
      BY <2>1
    <3>2. <<m, h[m - 1]>> \in (1..L) \X States(L)
      <4> HIDE DEF L
      <4> QED
        BY <3>1
    <3> HIDE DEF L
    <3> QED
      BY <3>2
  <2> HIDE DEF go, L, start
  <2> QED
    BY <1>4, <2>1 DEF Recurs
<1>6. PICK f : eq(f) /\ Context!Assemble(sources, limit) = f[L]
  <2>1. Context!Assemble(sources, limit) = (CHOOSE f : eq(f))[L]
    BY Zenon DEF Context!Assemble
  <2>2. eq(CHOOSE f : eq(f))
    <3> HIDE DEF eq
    <3> QED
      BY <1>5
  <2> QED
    BY <2>1, <2>2
<1>7. ASSUME NEW m \in 0..L
      PROVE  f[m] = IF m = 0 THEN start ELSE Context!Round(f[m - 1], limit)
  BY <1>6, Zenon
<1>8. f[0] = start
  <2>1. 0 \in 0..L
    BY <1>1
  <2> HIDE DEF start, L
  <2> QED
    BY <1>7, <2>1
<1>9. \A m \in 1..L : f[m] = Context!Round(f[m - 1], limit)
  <2>1. \A m \in 1..L : m \in 0..L /\ m # 0
    BY <1>1
  <2> HIDE DEF start, L
  <2> QED
    BY <1>7, <2>1
<1> DEFINE T == {m \in Nat : f[m] \in States(L)}
<1>10. \A m \in 0..L : m \in T
  <2>1. 0 \in T
    BY <1>2, <1>8
  <2>2. ASSUME NEW m \in Nat, m < L, m \in T  PROVE m + 1 \in T
    <3>1. m + 1 \in 1..L /\ (m + 1) - 1 = m
      BY <2>2
    <3>2. f[m + 1] = Context!Round(f[m], limit)
      BY <1>9, <3>1
    <3>3. f[m] \in States(L)
      BY <2>2
    <3> HIDE DEF L
    <3>4. f[m + 1] \in States(L)
      BY <1>1, <3>2, <3>3, RoundStays
    <3> QED
      BY <3>4
  <2> HIDE DEF T, L
  <2> QED
    BY <1>1, <2>1, <2>2, InductionTo
<1>11. f \in [0..L -> States(L)]
  <2>1. f = [m \in 0..L |-> f[m]]
    <3> HIDE DEF start, L
    <3> QED
      BY <1>6
  <2> HIDE DEF L
  <2> QED
    BY <1>10, <2>1
<1>12. Assembles(f, sources, limit)
  BY <1>2, <1>6, <1>8, <1>9, Zenon DEF Assembles
<1> QED
  BY <1>11, <1>12

\* The tokens and the length of sources that are the same in these places, and
\* of one more.
SameSources(a, b, S) ==
  Len(a) = Len(b) /\ \A i \in 1..Len(a) : i \in S => a[i] = b[i]
Texts(sources) == [i \in DOMAIN sources |-> sources[i].chars + 1]

LEMMA TextsAre ==
  ASSUME NEW sources \in Seq(Context!ContextSource)
  PROVE  /\ Texts(sources) \in Seq(Nat) /\ Len(Texts(sources)) = Len(sources)
         /\ \A i \in 1..Len(sources) :
              Texts(sources)[i] = sources[i].chars + 1
<1>1. Len(sources) \in Nat /\ DOMAIN sources = 1..Len(sources)
  OBVIOUS
<1>2. \A i \in 1..Len(sources) : sources[i].chars + 1 \in Nat
  BY SourcesAre
<1>3. Texts(sources) \in [1..Len(sources) -> Nat]
  BY <1>1, <1>2 DEF Texts
<1>4. Texts(sources) \in Seq(Nat) /\ Len(Texts(sources)) = Len(sources)
  BY <1>1, <1>3
<1> QED
  BY <1>1, <1>4 DEF Texts

LEMMA TokensAlike ==
  ASSUME NEW a \in Seq(Context!ContextSource), NEW b \in Seq(Context!ContextSource),
         NEW S, SameSources(a, b, S)
  PROVE  /\ Context!TokensOf(a, S) = Context!TokensOf(b, S)
         /\ Context!LengthOf(a, S) = Context!LengthOf(b, S)
<1>1. Context!TokensOf(a, S) = Context!SumOver(Weights(a), S)
      /\ Context!TokensOf(b, S) = Context!SumOver(Weights(b), S)
  BY DEF Context!TokensOf, Weights
<1>2. Context!LengthOf(a, S) = Context!SumOver(Texts(a), S)
      /\ Context!LengthOf(b, S) = Context!SumOver(Texts(b), S)
  BY DEF Context!LengthOf, Texts
<1>3. SameOver(Weights(a), Weights(b), S)
  BY SourcesAre DEF SameOver, SameSources
<1>4. SameOver(Texts(a), Texts(b), S)
  BY TextsAre DEF SameOver, SameSources
<1>5. Weights(a) \in Seq(Nat) /\ Weights(b) \in Seq(Nat)
      /\ Texts(a) \in Seq(Nat) /\ Texts(b) \in Seq(Nat)
  BY SourcesAre, TextsAre
<1> QED
  BY <1>1, <1>2, <1>3, <1>4, <1>5, SumSame

LEMMA TokensMore ==
  ASSUME NEW a \in Seq(Context!ContextSource), NEW S, NEW i \in 1..Len(a),
           i \notin S
  PROVE  /\ Context!TokensOf(a, S \cup {i}) = Context!TokensOf(a, S) + a[i].tokens
         /\ Context!LengthOf(a, S \cup {i}) =
              Context!LengthOf(a, S) + (a[i].chars + 1)
<1>1. \A T : Context!TokensOf(a, T) = Context!SumOver(Weights(a), T)
  BY DEF Context!TokensOf, Weights
<1>2. \A T : Context!LengthOf(a, T) = Context!SumOver(Texts(a), T)
  BY DEF Context!LengthOf, Texts
<1>3. /\ Weights(a) \in Seq(Nat) /\ Len(Weights(a)) = Len(a)
      /\ Weights(a)[i] = a[i].tokens
  BY SourcesAre
<1>4. /\ Texts(a) \in Seq(Nat) /\ Len(Texts(a)) = Len(a)
      /\ Texts(a)[i] = a[i].chars + 1
  BY TextsAre
<1>5. Context!SumOver(Weights(a), S \cup {i}) =
        Context!SumOver(Weights(a), S) + Weights(a)[i]
  BY <1>3, SumMore
<1>6. Context!SumOver(Texts(a), S \cup {i}) =
        Context!SumOver(Texts(a), S) + Texts(a)[i]
  BY <1>4, SumMore
<1> QED
  BY <1>1, <1>2, <1>3, <1>4, <1>5, <1>6

LEMMA TokensNat ==
  ASSUME NEW a \in Seq(Context!ContextSource), NEW S
  PROVE  Context!TokensOf(a, S) \in Nat /\ Context!LengthOf(a, S) \in Nat
<1>1. Weights(a) \in Seq(Nat) /\ Texts(a) \in Seq(Nat)
  BY SourcesAre, TextsAre
<1> QED
  BY <1>1, SumNat DEF Context!TokensOf, Context!LengthOf, Weights, Texts

LEMMA FourEach ==
  ASSUME NEW a \in Nat, NEW b \in Nat, NEW n \in Nat, NEW x \in Nat, NEW y \in Nat,
         NEW e \in Nat, a <= 4 * (b + n), x <= 4 * y + 4 + e
  PROVE  a + x <= 4 * ((b + y) + (n + 1)) + e
OBVIOUS

LEMMA FourLeft ==
  ASSUME NEW x \in Nat, NEW n \in Nat, NEW limit \in Nat, x <= 4 * (limit + n) + 2
  PROVE  (x - 1) \div 4 <= limit + n
OBVIOUS

\* A text whose tokens are those of its length is four characters a token and
\* three more at the most; with a newline for each that is a token a source.
LEMMA LengthFits ==
  ASSUME NEW src, Context!Added(src), NEW S \in SUBSET (1..Len(src))
  PROVE  /\ IsFiniteSet(S) /\ Cardinality(S) \in Nat
         /\ Context!LengthOf(src, S)
              <= 4 * (Context!TokensOf(src, S) + Cardinality(S))
<1>1. src \in Seq(Context!ContextSource)
  BY DEF Context!Added
<1>2. PICK L \in Nat : L = Len(src)
  BY <1>1
<1>3. /\ Weights(src) \in Seq(Nat) /\ Len(Weights(src)) = L
      /\ Texts(src) \in Seq(Nat) /\ Len(Texts(src)) = L
  BY <1>1, <1>2, SourcesAre, TextsAre
<1>4. PICK f : SumsOver(f, Texts(src), S)
  BY <1>3, SumsOverIs
<1>5. PICK g : SumsOver(g, Weights(src), S)
  BY <1>3, SumsOverIs
<1> DEFINE Upto(m) == S \cap (1..m)
<1>6. \A m \in Nat : IsFiniteSet(Upto(m)) /\ Cardinality(Upto(m)) \in Nat
  <2> SUFFICES ASSUME NEW m \in Nat
               PROVE  IsFiniteSet(Upto(m)) /\ Cardinality(Upto(m)) \in Nat
    OBVIOUS
  <2>1. IsFiniteSet(1..m) /\ Upto(m) \in SUBSET (1..m)
    BY FS_Interval
  <2> HIDE DEF Upto
  <2> QED
    BY <2>1, FS_Subset, FS_CardinalityType
<1>7. \A i \in 1..L : /\ Texts(src)[i] \in Nat /\ Weights(src)[i] \in Nat
                      /\ Texts(src)[i] <= 4 * Weights(src)[i] + 4
  <2> SUFFICES ASSUME NEW i \in 1..L
               PROVE  /\ Texts(src)[i] \in Nat /\ Weights(src)[i] \in Nat
                      /\ Texts(src)[i] <= 4 * Weights(src)[i] + 4
    OBVIOUS
  <2>1. Texts(src)[i] = src[i].chars + 1 /\ Weights(src)[i] = src[i].tokens
        /\ src[i].chars \in Nat /\ src[i].tokens \in Nat
    BY <1>1, <1>2, SourcesAre, TextsAre
  <2>2. src[i].tokens = src[i].chars \div 4
    BY <1>2 DEF Context!Added, Context!Tokens
  <2>3. PICK c \in Nat, k \in Nat : c = src[i].chars /\ k = src[i].tokens
    BY <2>1
  <2>4. k = c \div 4 => c + 1 <= 4 * k + 4
    OBVIOUS
  <2> QED
    BY <2>1, <2>2, <2>3, <2>4
<1> DEFINE T == {m \in Nat : /\ f[m] \in Nat /\ g[m] \in Nat
                             /\ f[m] <= 4 * (g[m] + Cardinality(Upto(m)))}
<1>8. 0 \in T
  <2>1. Upto(0) = {}
    OBVIOUS
  <2>2. Cardinality(Upto(0)) = 0
    BY <2>1, FS_EmptySet
  <2> HIDE DEF Upto
  <2> QED
    BY <1>4, <1>5, <2>2 DEF SumsOver
<1>9. ASSUME NEW m \in Nat, m < L, m \in T  PROVE m + 1 \in T
  <2>1. m + 1 \in 1..L /\ (m + 1) - 1 = m
    BY <1>9
  <2>2. f[m + 1] = IF m + 1 \in S THEN f[m] + Texts(src)[m + 1] ELSE f[m]
    BY <1>3, <1>4, <2>1 DEF SumsOver
  <2>3. g[m + 1] = IF m + 1 \in S THEN g[m] + Weights(src)[m + 1] ELSE g[m]
    BY <1>3, <1>5, <2>1 DEF SumsOver
  <2>4. PICK a \in Nat, b \in Nat, n \in Nat :
          /\ a = f[m] /\ b = g[m] /\ n = Cardinality(Upto(m))
          /\ a <= 4 * (b + n)
    BY <1>6, <1>9
  <2>5. CASE m + 1 \in S
    <3>1. Upto(m + 1) = Upto(m) \cup {m + 1} /\ m + 1 \notin Upto(m)
      BY <2>5
    <3>2. Cardinality(Upto(m + 1)) = n + 1
      <4> HIDE DEF Upto
      <4> QED
        BY <1>6, <2>4, <3>1, FS_AddElement
    <3>3. PICK x \in Nat, y \in Nat :
            x = Texts(src)[m + 1] /\ y = Weights(src)[m + 1] /\ x <= 4 * y + 4
      BY <1>7, <2>1
    <3>4. a + x <= 4 * ((b + y) + (n + 1)) /\ a + x \in Nat /\ b + y \in Nat
      <4>1. x <= 4 * y + 4 + 0 /\ a <= 4 * (b + n)
        BY <2>4, <3>3
      <4>2. a + x <= 4 * ((b + y) + (n + 1)) + 0
        BY <4>1, FourEach
      <4> QED
        BY <4>2
    <3>5. f[m + 1] = a + x /\ g[m + 1] = b + y
      BY <2>2, <2>3, <2>4, <2>5, <3>3
    <3> HIDE DEF Upto
    <3> QED
      BY <3>2, <3>4, <3>5
  <2>6. CASE m + 1 \notin S
    <3>1. Upto(m + 1) = Upto(m)
      BY <2>6
    <3>2. f[m + 1] = a /\ g[m + 1] = b
      BY <2>2, <2>3, <2>4, <2>6
    <3> HIDE DEF Upto
    <3> QED
      BY <2>4, <3>1, <3>2
  <2> QED
    BY <2>5, <2>6
<1>10. L \in T
  <2>1. \A m \in 0..L : m \in T
    <3> HIDE DEF T
    <3> QED
      BY <1>8, <1>9, InductionTo
  <2> QED
    BY <2>1
<1>11. Upto(L) = S
  BY <1>2
<1>12. Context!LengthOf(src, S) = f[L] /\ Context!TokensOf(src, S) = g[L]
  BY <1>3, <1>4, <1>5 DEF SumsOver, Context!LengthOf, Context!TokensOf, Texts, Weights
<1> HIDE DEF Upto
<1> QED
  BY <1>2, <1>6, <1>10, <1>11, <1>12

\* What a round does, field by field.
DropsIt(s, t, i, limit) ==
  /\ s.total >= limit
  /\ t.sources = s.sources /\ t.left = s.left \ {i} /\ t.used = s.used
  /\ t.dropped = Append(s.dropped, i) /\ t.total = s.total
UsesIt(s, t, i, limit) ==
  /\ s.total < limit /\ s.total + s.sources[i].tokens <= limit
  /\ t.sources = s.sources /\ t.left = s.left \ {i} /\ t.used = s.used \cup {i}
  /\ t.dropped = s.dropped /\ t.total = s.total + s.sources[i].tokens
CutsIt(s, t, i, limit) ==
  /\ s.total < limit /\ s.total + s.sources[i].tokens > limit
  /\ t.sources = [s.sources EXCEPT ![i] = t.sources[i]]
  /\ t.sources[i].tokens = limit - s.total
  /\ t.sources[i].priority = s.sources[i].priority
  /\ t.sources[i].pinned = s.sources[i].pinned
  /\ t.sources[i].chars =
       Context!CharsToKeep(s.sources[i], limit - s.total) + 3
  /\ t.left = s.left \ {i} /\ t.used = s.used \cup {i}
  /\ t.dropped = s.dropped /\ t.total = limit

LEMMA RoundDoes ==
  ASSUME NEW L \in Nat, NEW s \in States(L), NEW limit \in Nat, s.left # {},
         NEW i, i = Context!Foremost(s.sources, s.left), NEW t, t
           = Context!Round(s, limit)
  PROVE  /\ i \in s.left /\ i \in 1..L /\ t \in States(L)
         /\ \/ DropsIt(s, t, i, limit)
            \/ UsesIt(s, t, i, limit)
            \/ CutsIt(s, t, i, limit)
<1>1. s.left \in SUBSET (1..L) /\ s.sources \in Seq(Context!ContextSource)
      /\ Len(s.sources) = L /\ s.total \in Nat
  BY DEF States
<1>2. i \in s.left /\ i \in 1..L
  <2>1. \A j \in 1..L : s.sources[j].priority \in Int
    BY <1>1, SourcesAre
  <2>2. i \in s.left
    BY <1>1, <2>1, FrontIs
  <2> QED
    BY <1>1, <2>2
<1>3. t \in States(L)
  BY RoundStays
<1>4. s.sources[i] \in Context!ContextSource /\ s.sources[i].tokens \in Nat
  BY <1>1, <1>2, SourcesAre
<1>5. Drops(s, t, i, limit) \/ UsesWhole(s, t, i, limit) \/ Cuts(s, t, i, limit)
  BY RoundIs
<1>6. Drops(s, t, i, limit) => DropsIt(s, t, i, limit)
  BY DEF Drops, DropsIt, States
<1>7. UsesWhole(s, t, i, limit) => UsesIt(s, t, i, limit)
  BY DEF UsesWhole, UsesIt, States
<1>8. ASSUME Cuts(s, t, i, limit)  PROVE CutsIt(s, t, i, limit)
  <2>1. PICK r \in Nat : r = limit - s.total /\ r < s.sources[i].tokens
    BY <1>1, <1>4, <1>8 DEF Cuts
  <2>2. PICK c : c = Context!Cut(s.sources[i], r)
    OBVIOUS
  <2>3. /\ c.tokens = r /\ c.priority = s.sources[i].priority
        /\ c.pinned = s.sources[i].pinned
        /\ c.chars = Context!CharsToKeep(s.sources[i], r) + 3
    BY <1>4, <2>1, <2>2, CutIs
  <2>4. /\ t.sources = [s.sources EXCEPT ![i] = c] /\ t.left = s.left \ {i}
        /\ t.used = s.used \cup {i} /\ t.dropped = s.dropped /\ t.total = limit
    BY <1>8, <2>1, <2>2 DEF Cuts, States
  <2>5. t.sources[i] = c
    BY <1>1, <1>2, <2>4
  <2>6. s.total < limit /\ s.total + s.sources[i].tokens > limit
    BY <1>8 DEF Cuts
  <2> QED
    BY <2>1, <2>3, <2>4, <2>5, <2>6 DEF CutsIt
<1> QED
  BY <1>2, <1>3, <1>5, <1>6, <1>7, <1>8

\* What holds of the loop at each round, whatever the sources were.
Pins(s, src) ==
  \A i \in 1..Len(src) : src[i].pinned => i \in s.used /\ s.sources[i] = src[i]
Waiting(s, src) ==
  /\ s.left \cap s.used = {}
  /\ \A i \in s.left : s.sources[i] = src[i]
Totals(s, limit) ==
  /\ s.total <= limit /\ s.total = Context!TokensOf(s.sources, s.used)
  /\ Context!LengthOf(s.sources, s.used)
       <= 4 * (s.total + Cardinality(s.used)) + 2
Roomy(s, src, limit) ==
  s.total < limit =>
    s.sources = src /\ \A i \in 1..Len(src) : i \in s.left \/ i \in s.used
Wholly(s, src, i) == i \in s.used /\ s.sources[i] = src[i]
Sorted(s, src) ==
  \A i \in s.left, j \in 1..Len(src) :
    j \notin s.left /\ ~src[j].pinned => src[i].priority <= src[j].priority
Served(s, src) ==
  \A i, j \in 1..Len(src) :
    i \notin s.left /\ ~Wholly(s, src, i) /\ Wholly(s, src, j) /\ ~src[j].pinned =>
      src[i].priority <= src[j].priority

Loop(s, src, limit) ==
  /\ Ranked(s.sources, src, Len(src)) /\ Pins(s, src) /\ Waiting(s, src)
  /\ Totals(s, limit) /\ Roomy(s, src, limit)
  /\ Sorted(s, src) /\ Served(s, src)

LEMMA LoopStarts ==
  ASSUME NEW src, Context!Added(src), NEW limit \in Nat, NEW s, Starts(s, src),
         ~Context!Raises(src, limit)
  PROVE  Loop(s, src, limit)
<1>1. src \in Seq(Context!ContextSource)
  BY DEF Context!Added
<1>2. /\ Len(src) \in Nat /\ DOMAIN src = 1..Len(src)
      /\ \A i \in 1..Len(src) : src[i].priority \in Int /\ src[i].pinned \in BOOLEAN
  BY <1>1, SourcesAre
<1>3. PICK P : P = Context!Pinned(src) /\ P = {i \in 1..Len(src) : src[i].pinned}
  BY <1>2 DEF Context!Pinned
<1>4. /\ s.sources = src /\ s.left = 1..Len(src) \ P /\ s.used = P
      /\ s.total = Context!TokensOf(src, P)
  BY <1>2, <1>3 DEF Starts
<1>5. Context!TokensOf(src, P) \in Nat /\ Context!TokensOf(src, P) <= limit
  BY <1>1, <1>3, TokensNat DEF Context!Raises
<1>6. /\ Context!LengthOf(src, P) \in Nat /\ Cardinality(P) \in Nat
      /\ Context!LengthOf(src, P)
           <= 4 * (Context!TokensOf(src, P) + Cardinality(P))
  BY <1>1, <1>3, TokensNat, LengthFits
<1>7. Ranked(s.sources, src, Len(src)) /\ Pins(s, src) /\ Waiting(s, src)
  BY <1>3, <1>4 DEF Ranked, Pins, Waiting
<1>8. Totals(s, limit)
  BY <1>4, <1>5, <1>6 DEF Totals
<1>9. Roomy(s, src, limit)
  BY <1>4 DEF Roomy
<1>10. Sorted(s, src) /\ Served(s, src)
  BY <1>3, <1>4 DEF Sorted, Served, Wholly
<1> QED
  BY <1>7, <1>8, <1>9, <1>10 DEF Loop

\* A source that is dropped: its place alone leaves the others as they are.
LEMMA LoopDrops ==
  ASSUME NEW src, Context!Added(src), NEW limit \in Nat, NEW s \in States(Len(src)),
         NEW t \in States(Len(src)), NEW i \in 1..Len(src), i \in s.left,
         \A j \in s.left : Ahead(i, j, s.sources),
         Loop(s, src, limit), DropsIt(s, t, i, limit)
  PROVE  Loop(t, src, limit)
<1>1. /\ t.sources = s.sources /\ t.left = s.left \ {i} /\ t.used = s.used
      /\ t.total = s.total /\ s.total >= limit /\ s.total \in Nat
  BY DEF DropsIt, States
<1>2. /\ Ranked(s.sources, src, Len(src)) /\ Pins(s, src) /\ Waiting(s, src)
      /\ Totals(s, limit) /\ Sorted(s, src) /\ Served(s, src)
  BY DEF Loop
<1>3. \A j \in 1..Len(src) : src[j].priority \in Int
  BY SourcesAre DEF Context!Added
<1>4. s.left \in SUBSET (1..Len(src))
  BY DEF States
<1>5. \A j \in s.left : src[j].priority <= src[i].priority
  BY <1>2, <1>3, <1>4 DEF Ahead, Ranked
<1>6. Ranked(t.sources, src, Len(src)) /\ Pins(t, src) /\ Waiting(t, src)
  BY <1>1, <1>2 DEF Ranked, Pins, Waiting
<1>7. Totals(t, limit) /\ Roomy(t, src, limit)
  BY <1>1, <1>2 DEF Totals, Roomy
<1>8. Sorted(t, src)
  BY <1>1, <1>2, <1>5 DEF Sorted
<1>9. \A j \in 1..Len(src) : Wholly(t, src, j) = Wholly(s, src, j)
  BY <1>1 DEF Wholly
<1>10. \A j \in 1..Len(src) : Wholly(s, src, j) => j \notin s.left
  BY <1>2 DEF Wholly, Waiting
<1>11. Served(t, src)
  <2> SUFFICES ASSUME NEW k \in 1..Len(src), NEW j \in 1..Len(src), k \notin t.left,
                      ~Wholly(s, src, k), Wholly(s, src, j), ~src[j].pinned
               PROVE  src[k].priority <= src[j].priority
    BY <1>9 DEF Served
  <2>1. CASE k = i
    BY <1>2, <1>10, <2>1 DEF Sorted
  <2>2. CASE k # i
    BY <1>1, <1>2, <2>2 DEF Served
  <2> QED
    BY <2>1, <2>2
<1> QED
  BY <1>6, <1>7, <1>8, <1>11 DEF Loop

\* A source that is used as it is.
LEMMA LoopUses ==
  ASSUME NEW src, Context!Added(src), NEW limit \in Nat, NEW s \in States(Len(src)),
         NEW t \in States(Len(src)), NEW i \in 1..Len(src), i \in s.left,
         \A j \in s.left : Ahead(i, j, s.sources),
         Loop(s, src, limit), UsesIt(s, t, i, limit)
  PROVE  Loop(t, src, limit)
<1>1. /\ t.sources = s.sources /\ t.left = s.left \ {i} /\ t.used = s.used \cup {i}
      /\ t.total = s.total + s.sources[i].tokens /\ t.total <= limit
      /\ s.total < limit /\ s.total \in Nat
  BY DEF UsesIt, States
<1>2. /\ Ranked(s.sources, src, Len(src)) /\ Pins(s, src) /\ Waiting(s, src)
      /\ Totals(s, limit) /\ Roomy(s, src, limit)
      /\ Sorted(s, src) /\ Served(s, src)
  BY DEF Loop
<1>3. s.sources = src /\ \A j \in 1..Len(src) : j \in s.left \/ j \in s.used
  BY <1>1, <1>2 DEF Roomy
<1>4. /\ src \in Seq(Context!ContextSource)
      /\ \A j \in 1..Len(src) : src[j].priority \in Int /\ src[j].pinned \in BOOLEAN
  BY SourcesAre DEF Context!Added
<1>5. s.left \in SUBSET (1..Len(src)) /\ s.used \in SUBSET (1..Len(src))
  BY DEF States
<1>6. \A j \in s.left : src[j].priority <= src[i].priority
  BY <1>3, <1>4, <1>5 DEF Ahead
<1>7. i \notin s.used
  BY <1>2 DEF Waiting
<1>8. Ranked(t.sources, src, Len(src)) /\ Pins(t, src) /\ Waiting(t, src)
  BY <1>1, <1>2, <1>3 DEF Ranked, Pins, Waiting
<1>9. Context!TokensOf(src, s.used \cup {i})
        = Context!TokensOf(src, s.used) + src[i].tokens
  BY <1>4, <1>7, TokensMore
<1>10. /\ Context!LengthOf(src, t.used) \in Nat /\ Cardinality(t.used) \in Nat
       /\ Context!LengthOf(src, t.used)
            <= 4 * (Context!TokensOf(src, t.used) + Cardinality(t.used))
  BY <1>1, <1>4, <1>5, TokensNat, LengthFits
<1>11. Context!TokensOf(src, t.used) = t.total /\ t.total \in Nat
  BY <1>1, <1>2, <1>3, <1>9 DEF Totals, States
<1>12. Totals(t, limit)
  BY <1>1, <1>3, <1>10, <1>11 DEF Totals
<1>13. Roomy(t, src, limit)
  BY <1>1, <1>3 DEF Roomy
<1>14. Sorted(t, src)
  BY <1>1, <1>2, <1>6 DEF Sorted
<1>15. \A j \in 1..Len(src) : j \notin t.left => Wholly(t, src, j)
  BY <1>1, <1>3 DEF Wholly
<1>16. Served(t, src)
  BY <1>15 DEF Served
<1> QED
  BY <1>8, <1>12, <1>13, <1>14, <1>16 DEF Loop

\* A source that is cut to the tokens that are left.
LEMMA LoopCuts ==
  ASSUME NEW src, Context!Added(src), NEW limit \in Nat, NEW s \in States(Len(src)),
         NEW t \in States(Len(src)), NEW i \in 1..Len(src), i \in s.left,
         \A j \in s.left : Ahead(i, j, s.sources),
         Loop(s, src, limit), CutsIt(s, t, i, limit)
  PROVE  Loop(t, src, limit)
<1>1. /\ t.left = s.left \ {i} /\ t.used = s.used \cup {i} /\ t.total = limit
      /\ s.total < limit /\ s.total \in Nat
      /\ t.sources = [s.sources EXCEPT ![i] = t.sources[i]]
      /\ t.sources[i].priority = s.sources[i].priority
      /\ t.sources[i].pinned = s.sources[i].pinned
  BY DEF CutsIt, States
<1>2. /\ Ranked(s.sources, src, Len(src)) /\ Pins(s, src) /\ Waiting(s, src)
      /\ Totals(s, limit) /\ Roomy(s, src, limit)
      /\ Sorted(s, src) /\ Served(s, src)
  BY DEF Loop
<1>3. s.sources = src /\ \A j \in 1..Len(src) : j \in s.left \/ j \in s.used
  BY <1>1, <1>2 DEF Roomy
<1>4. /\ src \in Seq(Context!ContextSource) /\ DOMAIN src = 1..Len(src)
      /\ \A j \in 1..Len(src) :
           /\ src[j].priority \in Int /\ src[j].pinned \in BOOLEAN
           /\ src[j].tokens \in Nat /\ src[j].chars \in Nat
  BY SourcesAre DEF Context!Added
<1>5. s.left \in SUBSET (1..Len(src)) /\ s.used \in SUBSET (1..Len(src))
      /\ t.sources \in Seq(Context!ContextSource) /\ Len(t.sources) = Len(src)
  BY DEF States
<1>6. ASSUME NEW j \in s.left  PROVE src[j].priority <= src[i].priority
  <2>1. Ahead(i, j, src) /\ j \in 1..Len(src)
    BY <1>3, <1>5
  <2>2. src[i].priority \in Int /\ src[j].priority \in Int
    BY <1>4, <2>1
  <2> QED
    BY <2>1, <2>2 DEF Ahead
<1>7. i \notin s.used
  BY <1>2 DEF Waiting
<1>8. \A j \in 1..Len(src) : j # i => t.sources[j] = src[j]
  BY <1>1, <1>3, <1>4
<1>9. Ranked(t.sources, src, Len(src))
  BY <1>1, <1>3, <1>8 DEF Ranked
<1>10. Pins(t, src) /\ Waiting(t, src)
  BY <1>1, <1>2, <1>5, <1>7, <1>8 DEF Pins, Waiting
<1>11. PICK r \in Nat : r = limit - s.total /\ r < src[i].tokens
  BY <1>1, <1>3, <1>4 DEF CutsIt
<1>12. /\ t.sources[i].tokens = r
       /\ t.sources[i].chars = Context!CharsToKeep(src[i], r) + 3
  BY <1>3, <1>11 DEF CutsIt
<1>13. SameSources(t.sources, src, s.used)
  BY <1>5, <1>7, <1>8 DEF SameSources
<1>14. /\ Context!TokensOf(t.sources, s.used) = s.total
       /\ IsFiniteSet(s.used) /\ Cardinality(s.used) \in Nat
       /\ Context!LengthOf(t.sources, s.used) \in Nat
       /\ Context!LengthOf(t.sources, s.used)
            <= 4 * (s.total + Cardinality(s.used))
  <2>1. Context!TokensOf(src, s.used) = s.total
    BY <1>2, <1>3 DEF Totals
  <2>2. Context!TokensOf(t.sources, s.used) = Context!TokensOf(src, s.used)
        /\ Context!LengthOf(t.sources, s.used) = Context!LengthOf(src, s.used)
    BY <1>4, <1>5, <1>13, TokensAlike
  <2>3. /\ IsFiniteSet(s.used) /\ Cardinality(s.used) \in Nat
        /\ Context!LengthOf(src, s.used)
             <= 4 * (Context!TokensOf(src, s.used) + Cardinality(s.used))
    BY <1>5, LengthFits
  <2>4. Context!LengthOf(t.sources, s.used) \in Nat
    BY <1>5, TokensNat
  <2> QED
    BY <2>1, <2>2, <2>3, <2>4, Zenon
<1>15. Context!TokensOf(t.sources, t.used) = s.total + r
  <2>1. i \in 1..Len(t.sources) /\ t.sources \in Seq(Context!ContextSource)
    BY <1>5
  <2>2. Context!TokensOf(t.sources, s.used \cup {i}) =
          Context!TokensOf(t.sources, s.used) + t.sources[i].tokens
    BY <1>7, <2>1, TokensMore
  <2>3. Context!TokensOf(t.sources, s.used) = s.total
    BY <1>14
  <2> QED
    BY <1>1, <1>12, <2>2, <2>3, Zenon
<1>16. PICK d \in Nat : d = t.sources[i].chars /\ d <= 4 * r + 5
  <2>1. src[i].tokens = src[i].chars \div 4
    BY DEF Context!Added, Context!Tokens
  <2>2. PICK c \in Nat : c = src[i].chars
    BY <1>4
  <2>3. PICK k \in Nat : k = src[i].tokens
    BY <1>4
  <2>4. PICK l \in 0..1 : l = src[i].lost
    <3>1. src[i] \in Context!ContextSource
      BY <1>4, SourcesAre
    <3> QED
      BY <3>1 DEF Context!ContextSource
  <2>5. /\ (c * r - l) \div k + 3 \in Nat
        /\ (c * r - l) \div k + 3 <= 4 * r + 5
    BY <1>11, <2>1, <2>2, <2>3, CutChars
  <2>6. t.sources[i].chars = (c * r - l) \div k + 3
    BY <1>12, <2>2, <2>3, <2>4, Zenon DEF Context!CharsToKeep
  <2> QED
    BY <2>5, <2>6, Zenon
<1>17. Context!LengthOf(t.sources, t.used)
         <= 4 * (limit + Cardinality(t.used)) + 2
  <2>1. Context!LengthOf(t.sources, t.used) =
          Context!LengthOf(t.sources, s.used) + (t.sources[i].chars + 1)
    <3>1. i \in 1..Len(t.sources) /\ t.sources \in Seq(Context!ContextSource)
      BY <1>5
    <3>2. Context!LengthOf(t.sources, s.used \cup {i}) =
            Context!LengthOf(t.sources, s.used) + (t.sources[i].chars + 1)
      BY <1>7, <3>1, TokensMore
    <3> QED
      BY <1>1, <3>2, Zenon
  <2>2. Cardinality(t.used) = Cardinality(s.used) + 1
    BY <1>1, <1>7, <1>14, FS_AddElement
  <2>3. PICK x \in Nat, n \in Nat :
          /\ x = Context!LengthOf(t.sources, s.used) /\ n = Cardinality(s.used)
          /\ x <= 4 * (s.total + n)
    BY <1>14
  <2>4. x + (d + 1) <= 4 * (limit + (n + 1)) + 2
    <3>1. PICK k \in Nat : k = s.total /\ k + r = limit
      BY <1>1, <1>11
    <3>2. x <= 4 * (k + n)
      BY <2>3, <3>1
    <3>3. d + 1 \in Nat /\ d + 1 <= 4 * r + 4 + 2
      <4>1. d <= 4 * r + 5 => d + 1 <= 4 * r + 4 + 2
        OBVIOUS
      <4>2. d + 1 \in Nat
        OBVIOUS
      <4> QED
        BY <1>16, <4>1, <4>2, Zenon
    <3>4. x + (d + 1) <= 4 * ((k + r) + (n + 1)) + 2
      BY <3>2, <3>3, FourEach
    <3> QED
      BY <3>1, <3>4
  <2> QED
    BY <1>16, <2>1, <2>2, <2>3, <2>4
<1>18. Totals(t, limit)
  BY <1>1, <1>11, <1>15, <1>17 DEF Totals
<1>19. Roomy(t, src, limit)
  BY <1>1 DEF Roomy
<1>20. Sorted(t, src)
  BY <1>1, <1>2, <1>6 DEF Sorted
<1>21. \A j \in 1..Len(src) : j \notin t.left /\ j # i => Wholly(t, src, j)
  BY <1>1, <1>3, <1>8 DEF Wholly
<1>22. t.sources[i] # src[i]
  BY <1>4, <1>11, <1>12
<1>23. Served(t, src)
  <2> SUFFICES ASSUME NEW k \in 1..Len(src), NEW j \in 1..Len(src), k \notin t.left,
                      ~Wholly(t, src, k), Wholly(t, src, j), ~src[j].pinned
               PROVE  src[k].priority <= src[j].priority
    BY DEF Served
  <2>1. k = i
    BY <1>21
  <2>2. j # i
    BY <1>22 DEF Wholly
  <2>3. j \notin s.left
    BY <1>1, <1>2, <2>2 DEF Wholly, Waiting
  <2> QED
    BY <1>2, <2>1, <2>3 DEF Sorted
<1> QED
  BY <1>9, <1>10, <1>18, <1>19, <1>20, <1>23 DEF Loop

LEMMA LoopStays ==
  ASSUME NEW src, Context!Added(src), NEW limit \in Nat, NEW s \in States(Len(src)),
         Loop(s, src, limit)
  PROVE  Loop(Context!Round(s, limit), src, limit)
<1>1. CASE s.left = {}
  BY <1>1 DEF Context!Round
<1>2. CASE s.left # {}
  <2>1. PICK t : t = Context!Round(s, limit)
    OBVIOUS
  <2>2. PICK i : i = Context!Foremost(s.sources, s.left)
    OBVIOUS
  <2>3. Len(src) \in Nat
    BY DEF Context!Added
  <2>4. /\ i \in s.left /\ i \in 1..Len(src) /\ t \in States(Len(src))
        /\ DropsIt(s, t, i, limit) \/ UsesIt(s, t, i, limit)
           \/ CutsIt(s, t, i, limit)
    BY <1>2, <2>1, <2>2, <2>3, RoundDoes
  <2>5. \A j \in s.left : Ahead(i, j, s.sources)
    <3>1. s.left \in SUBSET (1..Len(src)) /\ s.sources \in Seq(Context!ContextSource)
          /\ Len(s.sources) = Len(src)
      BY DEF States
    <3>2. \A j \in 1..Len(src) : s.sources[j].priority \in Int
      BY <3>1, SourcesAre
    <3> QED
      BY <1>2, <2>2, <2>3, <3>1, <3>2, FrontIs
  <2> QED
    BY <2>1, <2>4, <2>5, LoopDrops, LoopUses, LoopCuts
<1> QED
  BY <1>1, <1>2

\* The rounds one after the other.
Runs(f, L, limit) ==
  /\ f \in [0..L -> States(L)]
  /\ \A m \in 1..L : f[m] = Context!Round(f[m - 1], limit)

\* A source is taken in each round, so none is left in the end.
LEMMA Emptied ==
  ASSUME NEW L \in Nat, NEW limit \in Nat, NEW f, Runs(f, L, limit)
  PROVE  f[L].left = {}
<1> DEFINE T == {n \in Nat : f[n].left # {} => Cardinality(f[n].left) + n <= L}
<1>1. ASSUME NEW n \in 0..L
      PROVE  /\ f[n].left \in SUBSET (1..L) /\ IsFiniteSet(f[n].left)
             /\ Cardinality(f[n].left) \in Nat /\ Cardinality(f[n].left) <= L
  <2>1. f[n].left \in SUBSET (1..L)
    BY DEF Runs, States
  <2>2. IsFiniteSet(1..L) /\ Cardinality(1..L) = L
    BY FS_Interval
  <2>3. IsFiniteSet(f[n].left) /\ Cardinality(f[n].left) <= L
    BY <2>1, <2>2, FS_Subset
  <2> QED
    BY <2>1, <2>3, FS_CardinalityType
<1>2. 0 \in T
  BY <1>1
<1>3. ASSUME NEW n \in Nat, n < L, n \in T  PROVE n + 1 \in T
  <2>1. n \in 0..L /\ n + 1 \in 0..L /\ n + 1 \in 1..L /\ (n + 1) - 1 = n
    BY <1>3
  <2>2. PICK s \in States(L) : s = f[n]
    BY <2>1 DEF Runs
  <2>3. PICK t : t = f[n + 1] /\ t = Context!Round(s, limit)
    BY <2>1, <2>2 DEF Runs
  <2>4. CASE s.left = {}
    <3>1. f[n + 1].left = {} /\ n + 1 \in Nat
      BY <2>3, <2>4 DEF Context!Round
    <3> QED
      BY <3>1
  <2>5. CASE s.left # {}
    <3>1. PICK i : i = Context!Foremost(s.sources, s.left)
      OBVIOUS
    <3>2. /\ i \in s.left
          /\ DropsIt(s, t, i, limit) \/ UsesIt(s, t, i, limit)
             \/ CutsIt(s, t, i, limit)
      BY <2>3, <2>5, <3>1, RoundDoes
    <3>7. t.left = s.left \ {i}
      BY <3>2 DEF DropsIt, UsesIt, CutsIt
    <3>3. Cardinality(t.left) = Cardinality(s.left) - 1
      <4>1. IsFiniteSet(s.left)
        BY <1>1, <2>1, <2>2
      <4>2. Cardinality(s.left \ {i}) = Cardinality(s.left) - 1
        BY <3>2, <4>1, FS_RemoveElement
      <4> QED
        BY <3>7, <4>2
    <3>4. Cardinality(s.left) \in Nat /\ Cardinality(s.left) + n <= L
      BY <1>1, <1>3, <2>1, <2>2, <2>5
    <3>5. PICK a \in Nat, b \in Int : /\ a = Cardinality(s.left) /\ b
                                           = Cardinality(t.left)
                              /\ a + n <= L /\ b = a - 1
      BY <3>3, <3>4
    <3>6. b + (n + 1) <= L /\ n + 1 \in Nat
      BY <3>5
    <3>8. Cardinality(f[n + 1].left) + (n + 1) <= L
      BY <2>3, <3>5, <3>6
    <3> QED
      BY <3>6, <3>8
  <2> QED
    BY <2>4, <2>5
<1>4. L \in T
  <2>1. \A n \in 0..L : n \in T
    <3> HIDE DEF T
    <3> QED
      BY <1>2, <1>3, InductionTo
  <2> QED
    BY <2>1
<1> SUFFICES ASSUME f[L].left # {}  PROVE FALSE
  OBVIOUS
<1>5. /\ Cardinality(f[L].left) + L <= L /\ Cardinality(f[L].left) \in Nat
      /\ IsFiniteSet(f[L].left)
  BY <1>1, <1>4
<1>6. Cardinality(f[L].left) = 0
  BY <1>5
<1> QED
  BY <1>5, <1>6, FS_EmptySet

\* What has been taken stays as it is.
LEMMA Settled ==
  ASSUME NEW L \in Nat, NEW limit \in Nat, NEW f, Runs(f, L, limit),
         NEW m \in 0..L, NEW i \in 1..L, i \notin f[m].left
  PROVE  f[L].sources[i] = f[m].sources[i]
<1> DEFINE T == {k \in Nat : m <= k =>
                   i \notin f[k].left /\ f[k].sources[i] = f[m].sources[i]}
<1>1. 0 \in T
  OBVIOUS
<1>2. ASSUME NEW n \in Nat, n < L, n \in T  PROVE n + 1 \in T
  <2>1. n \in 0..L /\ n + 1 \in 1..L /\ (n + 1) - 1 = n
    BY <1>2
  <2>2. PICK s \in States(L) : s = f[n]
    BY <2>1 DEF Runs
  <2>3. PICK t : t = f[n + 1] /\ t = Context!Round(s, limit)
    BY <2>1, <2>2 DEF Runs
  <2>4. CASE m = n + 1
    BY <2>4
  <2>5. CASE ~(m <= n + 1)
    BY <2>5
  <2>6. CASE m <= n
    <3>1. i \notin s.left /\ s.sources[i] = f[m].sources[i]
      BY <1>2, <2>2, <2>6
    <3>2. i \notin t.left /\ t.sources[i] = s.sources[i]
      <4>1. CASE s.left = {}
        BY <2>3, <3>1, <4>1 DEF Context!Round
      <4>2. CASE s.left # {}
        <5>1. PICK j : j = Context!Foremost(s.sources, s.left)
          OBVIOUS
        <5>2. /\ j \in s.left
              /\ DropsIt(s, t, j, limit) \/ UsesIt(s, t, j, limit)
                 \/ CutsIt(s, t, j, limit)
          BY <2>3, <4>2, <5>1, RoundDoes
        <5>3. j # i
          BY <3>1, <5>2
        <5>4. s.sources \in Seq(Context!ContextSource) /\ Len(s.sources) = L
          BY DEF States
        <5>5. DropsIt(s, t, j, limit) \/ UsesIt(s, t, j, limit) =>
                i \notin t.left /\ t.sources[i] = s.sources[i]
          BY <3>1 DEF DropsIt, UsesIt
        <5>6. ASSUME CutsIt(s, t, j, limit)
              PROVE  i \notin t.left /\ t.sources[i] = s.sources[i]
          <6>1. PICK c : t.sources = [s.sources EXCEPT ![j] = c]
            BY <5>6 DEF CutsIt
          <6> QED
            BY <3>1, <5>3, <5>4, <5>6, <6>1 DEF CutsIt
        <5> QED
          BY <5>2, <5>5, <5>6
      <4> QED
        BY <4>1, <4>2
    <3>3. i \notin f[n + 1].left /\ f[n + 1].sources[i] = f[m].sources[i]
      BY <2>3, <3>1, <3>2
    <3>4. n + 1 \in Nat
      OBVIOUS
    <3> QED
      BY <3>3, <3>4
  <2> QED
    BY <2>4, <2>5, <2>6
<1>3. L \in T
  <2>1. \A n \in 0..L : n \in T
    <3> HIDE DEF T
    <3> QED
      BY <1>1, <1>2, InductionTo
  <2> QED
    BY <2>1
<1> QED
  BY <1>3

\* Assembling the sources as they came out goes the same way.
Mirrors(t, s, R) ==
  /\ t.sources = R /\ t.left = s.left /\ t.used = s.used
  /\ t.dropped = s.dropped /\ t.total = s.total

LEMMA MirrorStep ==
  ASSUME NEW L \in Nat, NEW limit \in Nat, NEW s \in States(L), NEW t \in States(L),
         NEW R, Mirrors(t, s, R), Ranked(s.sources, R, L),
         NEW s2, s2 = Context!Round(s, limit), NEW t2, t2 = Context!Round(t, limit),
         \A i \in 1..L : i \notin s2.left => R[i] = s2.sources[i]
  PROVE  Mirrors(t2, s2, R)
<1>1. CASE s.left = {}
  BY <1>1 DEF Context!Round, Mirrors
<1>2. CASE s.left # {}
  <2>1. PICK i : i = Context!Foremost(s.sources, s.left)
    OBVIOUS
  <2>2. /\ i \in s.left /\ i \in 1..L
        /\ DropsIt(s, s2, i, limit) \/ UsesIt(s, s2, i, limit)
           \/ CutsIt(s, s2, i, limit)
    BY <1>2, <2>1, RoundDoes
  <2>3. t.sources = R /\ t.left = s.left /\ t.used = s.used
        /\ t.dropped = s.dropped /\ t.total = s.total
    BY DEF Mirrors
  <2>4. s.left \in SUBSET (1..L) /\ s.total \in Nat
        /\ s.sources \in Seq(Context!ContextSource) /\ Len(s.sources) = L
        /\ R \in Seq(Context!ContextSource) /\ Len(R) = L
    BY <2>3 DEF States
  <2>5. i = Context!Foremost(R, t.left)
    <3>1. \A j \in 1..L : R[j].priority \in Int
      BY <2>4, SourcesAre
    <3> QED
      BY <1>2, <2>1, <2>3, <2>4, <3>1, FrontSame
  <2>6. DropsIt(t, t2, i, limit) \/ UsesIt(t, t2, i, limit)
        \/ CutsIt(t, t2, i, limit)
    BY <1>2, <2>3, <2>5, RoundDoes
  <2>7. R[i].tokens \in Nat /\ s.sources[i].tokens \in Nat
    BY <2>2, <2>4, SourcesAre
  <2>8. i \notin s2.left
    BY <2>2 DEF DropsIt, UsesIt, CutsIt
  <2>9. R[i] = s2.sources[i]
    BY <2>2, <2>8
  <2>10. CASE DropsIt(s, s2, i, limit)
    <3>1. DropsIt(t, t2, i, limit)
      BY <2>3, <2>4, <2>6, <2>10 DEF DropsIt, UsesIt, CutsIt
    <3> QED
      BY <2>3, <2>10, <3>1 DEF DropsIt, Mirrors
  <2>11. CASE UsesIt(s, s2, i, limit)
    <3>1. R[i].tokens = s.sources[i].tokens
      BY <2>9, <2>11 DEF UsesIt
    <3>2. s.total < limit /\ s.total + R[i].tokens <= limit
      BY <2>11, <3>1 DEF UsesIt
    <3>3. UsesIt(t, t2, i, limit)
      BY <2>3, <2>4, <2>6, <2>7, <3>2 DEF DropsIt, UsesIt, CutsIt
    <3> QED
      BY <2>3, <2>11, <3>1, <3>3 DEF UsesIt, Mirrors
  <2>12. CASE CutsIt(s, s2, i, limit)
    <3>1. R[i].tokens = limit - s.total
      BY <2>9, <2>12 DEF CutsIt
    <3>2. s.total < limit /\ s.total + R[i].tokens = limit
      BY <2>4, <2>12, <3>1 DEF CutsIt
    <3>3. UsesIt(t, t2, i, limit)
      BY <2>3, <2>4, <2>6, <2>7, <3>2 DEF DropsIt, UsesIt, CutsIt
    <3> QED
      BY <2>3, <2>12, <3>2, <3>3 DEF UsesIt, CutsIt, Mirrors
  <2> QED
    BY <2>2, <2>10, <2>11, <2>12
<1> QED
  BY <1>1, <1>2

LEMMA LoopHolds ==
  ASSUME NEW src, Context!Added(src), NEW limit \in Nat,
           ~Context!Raises(src, limit),
         NEW f, Runs(f, Len(src), limit), Starts(f[0], src)
  PROVE  \A n \in 0..Len(src) : Loop(f[n], src, limit)
<1> DEFINE T == {n \in Nat : Loop(f[n], src, limit)}
<1>1. PICK L \in Nat : L = Len(src)
  BY DEF Context!Added
<1>2. 0 \in T
  BY LoopStarts
<1>3. ASSUME NEW n \in Nat, n < L, n \in T  PROVE n + 1 \in T
  <2>1. n \in 0..L /\ n + 1 \in 1..L /\ (n + 1) - 1 = n
    BY <1>3
  <2>2. f[n] \in States(Len(src)) /\ f[n + 1] = Context!Round(f[n], limit)
    BY <1>1, <2>1 DEF Runs
  <2>3. Loop(f[n + 1], src, limit)
    BY <1>3, <2>2, LoopStays
  <2> QED
    BY <2>3
<1>4. \A n \in 0..L : n \in T
  <2> HIDE DEF T
  <2> QED
    BY <1>2, <1>3, InductionTo
<1> QED
  BY <1>1, <1>4

LEMMA AgainSame ==
  ASSUME NEW src, Context!Added(src), NEW limit \in Nat,
           ~Context!Raises(src, limit),
         NEW f, Runs(f, Len(src), limit), Starts(f[0], src),
         NEW g, Runs(g, Len(src), limit), Starts(g[0], f[Len(src)].sources)
  PROVE  g[Len(src)].used = f[Len(src)].used /\ g[Len(src)].dropped
           = f[Len(src)].dropped
<1>1. PICK L \in Nat : L = Len(src)
  BY DEF Context!Added
<1>2. PICK R : R = f[L].sources
  OBVIOUS
<1>3. /\ f \in [0..L -> States(L)] /\ g \in [0..L -> States(L)]
      /\ \A m \in 1..L : f[m] = Context!Round(f[m - 1], limit) /\ g[m]
           = Context!Round(g[m - 1], limit)
  BY <1>1 DEF Runs
<1>4. \A n \in 0..L : Loop(f[n], src, limit)
  BY <1>1, LoopHolds
<1>5. 0 \in 0..L /\ L \in 0..L
  BY <1>1
<1>6. R \in Seq(Context!ContextSource) /\ Len(R) = L /\ DOMAIN R = 1..L
  BY <1>2, <1>3, <1>5 DEF States
<1>7. Ranked(R, src, L) /\ Pins(f[L], src)
  BY <1>1, <1>2, <1>4, <1>5 DEF Loop
<1>8. \A n \in 0..L : Ranked(f[n].sources, R, L)
  BY <1>1, <1>4, <1>7 DEF Loop, Ranked
<1>9. src \in Seq(Context!ContextSource) /\ DOMAIN src = 1..L
  BY <1>1 DEF Context!Added
<1>10. Mirrors(g[0], f[0], R)
  <2>1. Context!Pinned(R) = Context!Pinned(src)
    BY <1>6, <1>7, <1>9 DEF Context!Pinned, Ranked
  <2>2. SameSources(R, src, Context!Pinned(src))
    BY <1>1, <1>2, <1>6, <1>7, <1>9 DEF SameSources, Pins, Context!Pinned
  <2>3. Context!TokensOf(R, Context!Pinned(src)) =
          Context!TokensOf(src, Context!Pinned(src))
    BY <1>6, <1>9, <2>2, TokensAlike
  <2>4. Starts(g[0], R)
    BY <1>1, <1>2
  <2> QED
    BY <1>6, <1>9, <2>1, <2>3, <2>4 DEF Starts, Mirrors
<1> DEFINE T == {n \in Nat : Mirrors(g[n], f[n], R)}
<1>11. 0 \in T
  BY <1>10
<1>12. ASSUME NEW n \in Nat, n < L, n \in T  PROVE n + 1 \in T
  <2>1. n \in 0..L /\ n + 1 \in 1..L /\ n + 1 \in 0..L /\ (n + 1) - 1 = n
    BY <1>12
  <2>2. /\ f[n] \in States(L) /\ g[n] \in States(L)
        /\ f[n + 1] = Context!Round(f[n], limit) /\ g[n + 1]
             = Context!Round(g[n], limit)
    BY <1>3, <2>1
  <2>3. \A i \in 1..L : i \notin f[n + 1].left => R[i] = f[n + 1].sources[i]
    BY <1>1, <1>2, <2>1, Settled
  <2>4. Mirrors(g[n], f[n], R) /\ Ranked(f[n].sources, R, L)
    BY <1>8, <1>12, <2>1
  <2>5. Mirrors(g[n + 1], f[n + 1], R)
    BY <2>2, <2>3, <2>4, MirrorStep
  <2> QED
    BY <2>5
<1>13. L \in T
  <2>1. \A n \in 0..L : n \in T
    <3> HIDE DEF T
    <3> QED
      BY <1>11, <1>12, InductionTo
  <2> QED
    BY <1>5, <2>1
<1> QED
  BY <1>1, <1>13 DEF Mirrors

\* Context assembler (assemble): for every list of sources and every limit, the
\* pinned sources are used as they are, priorities are respected, the tokens add
\* up to no more than the limit, the text has up to one token beyond it for each
\* source used, and assembling again uses and drops the same.
THEOREM AssemblyHolds ==
  ASSUME NEW src, Context!Added(src), NEW limit \in Nat
  PROVE  Context!AssemblyFits(src, limit)
<1>1. PICK L \in Nat : L = Len(src) /\ DOMAIN src = 1..L
  BY DEF Context!Added
<1>2. PICK result : result = Context!Assemble(src, limit)
  OBVIOUS
<1>3. PICK again : again = Context!Assemble(result.sources, limit)
  OBVIOUS
<1> DEFINE whole == {i \in result.used : result.sources[i] = src[i]}
           fits ==
             /\ result.total = Context!TokensOf(result.sources, result.used)
             /\ result.total <= limit
             /\ Context!TextTokensOf(result.sources, result.used)
                  <= limit + Context!Cardinality(result.used)
             /\ \A i \in DOMAIN src : src[i].pinned => i \in whole
             /\ \A i, j \in DOMAIN src :
                  i \notin whole /\ j \in whole /\ ~src[j].pinned =>
                    src[i].priority <= src[j].priority
             /\ again.used = result.used /\ again.dropped = result.dropped
<1>4. ASSUME ~Context!Raises(src, limit)  PROVE fits
  <2>1. src \in Seq(Context!ContextSource)
    BY DEF Context!Added
  <2>2. PICK f \in [0..L -> States(L)] : Assembles(f, src, limit)
    BY <1>1, <2>1, AssembleIs
  <2>3. /\ Runs(f, L, limit) /\ Starts(f[0], src) /\ f[L] = result
    BY <1>1, <1>2, <2>2 DEF Assembles, Runs
  <2>4. result \in States(L)
    BY <2>2, <2>3
  <2>5. result.sources \in Seq(Context!ContextSource) /\ Len(result.sources) = L
        /\ result.used \in SUBSET (1..L)
    BY <2>4 DEF States
  <2>6. PICK g \in [0..L -> States(L)] : Assembles(g, result.sources, limit)
    BY <2>5, AssembleIs
  <2>7. Runs(g, L, limit) /\ Starts(g[0], result.sources) /\ g[L] = again
    BY <1>3, <2>5, <2>6 DEF Assembles, Runs
  <2>8. again.used = result.used /\ again.dropped = result.dropped
    BY <1>1, <1>4, <2>3, <2>7, AgainSame
  <2>9. Loop(result, src, limit)
    BY <1>1, <1>4, <2>3, LoopHolds
  <2>10. result.left = {}
    BY <1>1, <2>3, Emptied
  <2>11. \A i : i \in whole <=> Wholly(result, src, i)
    BY DEF Wholly
  <2>12. /\ result.total = Context!TokensOf(result.sources, result.used)
         /\ result.total <= limit
         /\ Context!LengthOf(result.sources, result.used)
              <= 4 * (result.total + Cardinality(result.used)) + 2
    BY <2>9 DEF Loop, Totals
  <2>15. Context!TextTokensOf(result.sources, result.used)
           <= limit + Context!Cardinality(result.used)
    <3>1. PICK n \in Nat : /\ n = Cardinality(result.used)
                           /\ n = Context!Cardinality(result.used)
      <4>1. IsFiniteSet(1..L)
        BY <1>1, <2>1, FS_Interval
      <4>2. IsFiniteSet(result.used)
        BY <2>5, <4>1, FS_Subset
      <4>3. Cardinality(result.used) \in Nat
        BY <4>2, FS_CardinalityType
      <4>4. Context!Cardinality(result.used) = Cardinality(result.used)
        BY DEF Context!Cardinality, Cardinality
      <4> QED
        BY <4>3, <4>4
    <3>2. PICK x \in Nat, k \in Nat :
            /\ x = Context!LengthOf(result.sources, result.used)
            /\ k = result.total /\ x <= 4 * (k + n) + 2
      BY <2>4, <2>5, <2>12, <3>1, TokensNat DEF States
    <3>3. (x - 1) \div 4 <= limit + n /\ 0 <= limit + n
      <4>1. k <= limit /\ x <= 4 * (k + n) + 2
        BY <2>12, <3>2
      <4>2. k <= limit /\ x <= 4 * (k + n) + 2 => x <= 4 * (limit + n) + 2
        OBVIOUS
      <4> QED
        BY <4>1, <4>2, FourLeft
    <3>4. CASE result.used = {}
      <4>1. Context!TextTokensOf(result.sources, result.used) = 0
        BY <3>4, Zenon DEF Context!TextTokensOf
      <4> QED
        BY <3>1, <3>3, <4>1
    <3>5. CASE result.used # {}
      <4>1. Context!TextTokensOf(result.sources, result.used) =
              (Context!LengthOf(result.sources, result.used) - 1) \div 4
        BY <3>5, Zenon DEF Context!TextTokensOf, Context!Tokens
      <4> QED
        BY <3>1, <3>2, <3>3, <4>1
    <3> QED
      BY <3>4, <3>5
  <2>13. \A i \in DOMAIN src : src[i].pinned => i \in whole
    BY <1>1, <2>9, <2>11 DEF Loop, Pins, Wholly
  <2>14. \A i, j \in DOMAIN src :
           i \notin whole /\ j \in whole /\ ~src[j].pinned =>
             src[i].priority <= src[j].priority
    <3> HIDE DEF whole
    <3> QED
      BY <1>1, <2>9, <2>10, <2>11 DEF Loop, Served
  <2> QED
    BY <2>8, <2>12, <2>13, <2>14, <2>15
<1> QED
  BY <1>2, <1>3, <1>4, Zenon DEF Context!AssemblyFits

(***************************************************************************)
(* Dotenv: what export writes for a value without a backslash, read        *)
(* character by character, is the value; with one it is longer.            *)
(***************************************************************************)

\* Escaped and Unescape, a character at a time.
EscapesTo(f, v) ==
  /\ f[0] = <<>>
  /\ \A n \in 1..Len(v) : f[n] = f[n - 1] \o Secrets!Escape(v[n])
  /\ Secrets!Escaped(v) = f[Len(v)]

Plain == Secrets!Chars \ {Secrets!CR}

LEMMA EscapeIn ==
  ASSUME NEW x \in Secrets!Chars
  PROVE  Secrets!Escape(x) \in Seq(Secrets!Chars)
<1>1. \A y \in Secrets!Chars : <<y>> \in Seq(Secrets!Chars)
  OBVIOUS
<1>2. \A y, z \in Secrets!Chars : <<y, z>> \in Seq(Secrets!Chars)
  OBVIOUS
<1> QED
  BY <1>1, <1>2 DEF Secrets!Escape, Secrets!Chars, Secrets!Backslash, Secrets!Quote,
     Secrets!LF, Secrets!Apostrophe, Secrets!CR, Secrets!Space

LEMMA EscapedIs ==
  ASSUME NEW v \in Seq(Secrets!Chars)
  PROVE  \E f \in [0..Len(v) -> Seq(Secrets!Chars)] : EscapesTo(f, v)
<1> DEFINE L == Len(v)
           V == Seq(Secrets!Chars)
           go == [p \in (1..L) \X V |-> p[2] \o Secrets!Escape(v[p[1]])]
           eq(f) == f = [n \in 0..L |-> IF n = 0 THEN <<>>
                                        ELSE f[n - 1] \o Secrets!Escape(v[n])]
<1>1. L \in Nat /\ <<>> \in V
  OBVIOUS
<1>2. go \in [(1..L) \X V -> V]
  <2>1. \A p \in (1..L) \X V : v[p[1]] \in Secrets!Chars /\ p[2] \in V
    OBVIOUS
  <2>2. \A p \in (1..L) \X V : p[2] \o Secrets!Escape(v[p[1]]) \in V
    BY <2>1, EscapeIn, ConcatProperties
  <2> QED
    BY <2>2
<1>3. PICK h \in [0..L -> V] : Recurs(h, L, <<>>, go)
  <2> HIDE DEF go, L, V
  <2> QED
    BY <1>1, <1>2, RecursionTo
<1>4. eq(h)
  <2>1. ASSUME NEW m \in 0..L, m # 0
        PROVE  go[<<m, h[m - 1]>>] = h[m - 1] \o Secrets!Escape(v[m])
    <3>1. m \in 1..L /\ m - 1 \in 0..L
      BY <2>1
    <3>2. <<m, h[m - 1]>> \in (1..L) \X V
      <4> HIDE DEF L, V
      <4> QED
        BY <3>1
    <3> HIDE DEF L, V
    <3> QED
      BY <3>2
  <2> HIDE DEF go, L, V
  <2> QED
    BY <1>3, <2>1 DEF Recurs
<1>5. PICK f : eq(f) /\ Secrets!Escaped(v) = f[L]
  <2>1. Secrets!Escaped(v) = (CHOOSE f : eq(f))[L]
    BY Zenon DEF Secrets!Escaped
  <2>2. eq(CHOOSE f : eq(f))
    <3> HIDE DEF eq
    <3> QED
      BY <1>4
  <2> QED
    BY <2>1, <2>2
<1>6. ASSUME NEW m \in 0..L
      PROVE  f[m] = IF m = 0 THEN <<>> ELSE f[m - 1] \o Secrets!Escape(v[m])
  BY <1>5, Zenon
<1>7. \A m \in 1..L : m \in 0..L /\ m # 0
  BY <1>1
<1>8. 0 \in 0..L
  BY <1>1
<1>9. EscapesTo(f, v)
  BY <1>5, <1>6, <1>7, <1>8, Zenon DEF EscapesTo
<1> DEFINE T == {m \in Nat : f[m] \in V}
<1>10. \A m \in 0..L : m \in T
  <2>1. 0 \in T
    BY <1>1, <1>9 DEF EscapesTo
  <2>2. ASSUME NEW m \in Nat, m < L, m \in T  PROVE m + 1 \in T
    <3>1. m + 1 \in 1..L /\ (m + 1) - 1 = m
      BY <2>2
    <3>2. f[m + 1] = f[m] \o Secrets!Escape(v[m + 1])
      BY <1>9, <3>1 DEF EscapesTo
    <3>3. f[m] \in V /\ Secrets!Escape(v[m + 1]) \in V
      BY <2>2, <3>1, EscapeIn
    <3>4. f[m + 1] \in V
      BY <3>2, <3>3, ConcatProperties
    <3> QED
      BY <3>4
  <2> HIDE DEF T, L
  <2> QED
    BY <1>1, <2>1, <2>2, InductionTo
<1>11. f \in [0..L -> V]
  <2>1. f = [m \in 0..L |-> f[m]]
    <3> HIDE DEF L
    <3> QED
      BY <1>5
  <2> HIDE DEF L, V
  <2> QED
    BY <1>10, <2>1
<1> QED
  BY <1>9, <1>11

ReadsTo(f, text, b, c) ==
  /\ f[0] = <<>>
  /\ \A n \in 1..Len(text) :
       f[n] = IF n > 1 /\ text[n - 1] = Secrets!Backslash /\ text[n] = b
                THEN [f[n - 1] EXCEPT ![Len(f[n - 1])] = c]
                ELSE Append(f[n - 1], text[n])
  /\ Secrets!Unescape(text, b, c) = f[Len(text)]

LEMMA UnescapeIs ==
  ASSUME NEW S, NEW text \in Seq(S), NEW b, NEW c \in S
  PROVE  \E f \in [0..Len(text) -> Seq(S)] : ReadsTo(f, text, b, c)
<1> DEFINE L == Len(text)
           V == Seq(S)
           next(n, before) ==
             IF n > 1 /\ text[n - 1] = Secrets!Backslash /\ text[n] = b
               THEN [before EXCEPT ![Len(before)] = c]
               ELSE Append(before, text[n])
           go == [p \in (1..L) \X V |-> next(p[1], p[2])]
           eq(f) == f = [n \in 0..L |-> IF n = 0 THEN <<>> ELSE next(n, f[n - 1])]
<1>1. L \in Nat /\ <<>> \in V
  OBVIOUS
<1>2. \A n \in 1..L, before \in V : next(n, before) \in V
  <2> SUFFICES ASSUME NEW n \in 1..L, NEW before \in V  PROVE next(n, before) \in V
    OBVIOUS
  <2>1. Append(before, text[n]) \in V
    BY ElementOfSeq
  <2>2. [before EXCEPT ![Len(before)] = c] \in V
    <3>1. CASE before = <<>>
      <4>1. [before EXCEPT ![Len(before)] = c] = <<>>
        BY <3>1, EmptySeq
      <4> QED
        BY <1>1, <4>1
    <3>2. CASE before # <<>>
      <4>1. Len(before) \in 1..Len(before)
        BY <3>2
      <4> QED
        BY <4>1, ExceptSeq
    <3> QED
      BY <3>1, <3>2
  <2> QED
    BY <2>1, <2>2
<1> HIDE DEF next
<1>3. go \in [(1..L) \X V -> V]
  <2> HIDE DEF L, V
  <2> QED
    BY <1>2
<1>4. PICK h \in [0..L -> V] : Recurs(h, L, <<>>, go)
  <2> HIDE DEF go, L, V
  <2> QED
    BY <1>1, <1>3, RecursionTo
<1>5. eq(h)
  <2>1. ASSUME NEW m \in 0..L, m # 0  PROVE go[<<m, h[m - 1]>>] = next(m, h[m - 1])
    <3>1. m \in 1..L /\ m - 1 \in 0..L
      BY <2>1
    <3> HIDE DEF L, V
    <3>2. <<m, h[m - 1]>> \in (1..L) \X V
      BY <3>1
    <3> QED
      BY <3>2
  <2> HIDE DEF go, L, V
  <2> QED
    BY <1>4, <2>1 DEF Recurs
<1>6. PICK f : eq(f) /\ Secrets!Unescape(text, b, c) = f[L]
  <2>1. Secrets!Unescape(text, b, c) = (CHOOSE f : eq(f))[L]
    BY Zenon DEF Secrets!Unescape, next
  <2>2. eq(CHOOSE f : eq(f))
    <3> HIDE DEF eq
    <3> QED
      BY <1>5
  <2> QED
    BY <2>1, <2>2
<1>7. ASSUME NEW m \in 0..L
      PROVE  f[m] = IF m = 0 THEN <<>> ELSE next(m, f[m - 1])
  BY <1>6, Zenon
<1>8. /\ \A m \in 1..L : m \in 0..L /\ m # 0
      /\ 0 \in 0..L
  BY <1>1
<1>9. f[0] = <<>> /\ \A m \in 1..L : f[m] = next(m, f[m - 1])
  BY <1>7, <1>8, Zenon
<1>10. ReadsTo(f, text, b, c)
  BY <1>6, <1>9, Zenon DEF ReadsTo, next
<1> DEFINE T == {m \in Nat : f[m] \in V}
<1>11. \A m \in 0..L : m \in T
  <2>1. 0 \in T
    BY <1>1, <1>9
  <2>2. ASSUME NEW m \in Nat, m < L, m \in T  PROVE m + 1 \in T
    <3>1. m + 1 \in 1..L /\ (m + 1) - 1 = m
      BY <2>2
    <3> HIDE DEF V
    <3>2. f[m + 1] \in V
      BY <1>2, <1>9, <2>2, <3>1
    <3> QED
      BY <3>2
  <2> HIDE DEF T, L
  <2> QED
    BY <1>1, <2>1, <2>2, InductionTo
<1>12. f \in [0..L -> V]
  <2>1. f = [m \in 0..L |-> f[m]]
    <3> HIDE DEF L
    <3> QED
      BY <1>6
  <2> HIDE DEF L, V
  <2> QED
    BY <1>11, <2>1
<1> QED
  BY <1>10, <1>12

\* One character more: b takes the place of a backslash before it.
EndsIn(text, x) == text # <<>> /\ text[Len(text)] = x

LEMMA ReadsAlike ==
  ASSUME NEW S, NEW text \in Seq(S), NEW x \in S, NEW b, NEW c \in S,
         NEW f, ReadsTo(f, text, b, c), NEW g, ReadsTo(g, Append(text, x), b, c)
  PROVE  g[Len(text)] = f[Len(text)]
<1>1. PICK L \in Nat : L = Len(text)
  OBVIOUS
<1>2. PICK more : more = Append(text, x)
  OBVIOUS
<1>3. Len(more) = L + 1 /\ \A n \in 1..L : more[n] = text[n]
  BY <1>1, <1>2
<1>4. ASSUME NEW m \in 1..L, f[m - 1] = g[m - 1]  PROVE f[m] = g[m]
  <2>1. m \in 1..Len(text) /\ m \in 1..Len(more)
    BY <1>1, <1>3
  <2>2. /\ f[m] = IF m > 1 /\ text[m - 1] = Secrets!Backslash /\ text[m] = b
                   THEN [f[m - 1] EXCEPT ![Len(f[m - 1])] = c]
                   ELSE Append(f[m - 1], text[m])
        /\ g[m] = IF m > 1 /\ more[m - 1] = Secrets!Backslash /\ more[m] = b
                   THEN [g[m - 1] EXCEPT ![Len(g[m - 1])] = c]
                   ELSE Append(g[m - 1], more[m])
    BY <1>2, <2>1 DEF ReadsTo
  <2>3. more[m] = text[m] /\ (m > 1 => more[m - 1] = text[m - 1])
    BY <1>3
  <2> QED
    BY <1>4, <2>2, <2>3
<1>5. f[0] = g[0]
  BY DEF ReadsTo
<1>6. Alike(f, g, L)
  BY <1>4, <1>5 DEF Alike
<1>7. L \in 0..L
  BY <1>1
<1> QED
  BY <1>1, <1>6, <1>7, SameValues

LEMMA UnescapeIn ==
  ASSUME NEW S, NEW text \in Seq(S), NEW b, NEW c \in S
  PROVE  Secrets!Unescape(text, b, c) \in Seq(S)
<1>1. PICK f \in [0..Len(text) -> Seq(S)] : ReadsTo(f, text, b, c)
  BY UnescapeIs
<1>2. Len(text) \in 0..Len(text)
  OBVIOUS
<1> QED
  BY <1>1, <1>2 DEF ReadsTo

LEMMA UnescapeNone ==
  ASSUME NEW b, NEW c
  PROVE  Secrets!Unescape(<<>>, b, c) = <<>>
<1>1. <<>> \in Seq({c}) /\ Len(<<>>) = 0
  OBVIOUS
<1>2. PICK f : ReadsTo(f, <<>>, b, c)
  BY <1>1, UnescapeIs
<1> QED
  BY <1>1, <1>2 DEF ReadsTo

LEMMA UnescapePlain ==
  ASSUME NEW S, NEW text \in Seq(S), NEW x \in S, NEW b, NEW c \in S,
         ~(EndsIn(text, Secrets!Backslash) /\ x = b)
  PROVE  Secrets!Unescape(Append(text, x), b, c) =
           Append(Secrets!Unescape(text, b, c), x)
<1>1. PICK f : ReadsTo(f, text, b, c)
  BY UnescapeIs
<1>2. Append(text, x) \in Seq(S)
  OBVIOUS
<1>3. PICK g : ReadsTo(g, Append(text, x), b, c)
  BY <1>2, UnescapeIs
<1>4. PICK L \in Nat : L = Len(text)
  OBVIOUS
<1>5. PICK more : more = Append(text, x)
  OBVIOUS
<1>6. Len(more) = L + 1 /\ more[L + 1] = x /\ (L > 0 => more[L] = text[L])
  BY <1>4, <1>5
<1>7. g[L] = f[L]
  BY <1>1, <1>3, <1>4, ReadsAlike
<1>8. L + 1 \in 1..Len(more) /\ (L + 1) - 1 = L
  BY <1>4, <1>6
<1>9. g[L + 1] = IF L + 1 > 1 /\ more[L] = Secrets!Backslash /\ more[L + 1] = b
                   THEN [g[L] EXCEPT ![Len(g[L])] = c]
                   ELSE Append(g[L], more[L + 1])
  BY <1>3, <1>5, <1>8 DEF ReadsTo
<1>10. ~(L + 1 > 1 /\ more[L] = Secrets!Backslash /\ more[L + 1] = b)
  BY <1>4, <1>6 DEF EndsIn
<1>11. g[L + 1] = Append(f[L], x)
  BY <1>6, <1>7, <1>9, <1>10
<1> QED
  BY <1>1, <1>3, <1>4, <1>5, <1>6, <1>11 DEF ReadsTo

LEMMA UnescapePair ==
  ASSUME NEW S, NEW text \in Seq(S), Secrets!Backslash \in S, NEW b \in S,
         b # Secrets!Backslash, NEW c \in S
  PROVE  Secrets!Unescape(Append(Append(text, Secrets!Backslash), b), b, c) =
           Append(Secrets!Unescape(text, b, c), c)
<1>1. PICK most : most = Append(text, Secrets!Backslash)
  OBVIOUS
<1>2. most \in Seq(S) /\ Append(most, b) \in Seq(S)
  BY <1>1
<1>3. PICK f : ReadsTo(f, most, b, c)
  BY <1>2, UnescapeIs
<1>4. PICK g : ReadsTo(g, Append(most, b), b, c)
  BY <1>2, UnescapeIs
<1>5. PICK L \in Nat : L = Len(most) /\ L > 0 /\ most[L] = Secrets!Backslash
  BY <1>1
<1>6. PICK more : more = Append(most, b)
  OBVIOUS
<1>7. Len(more) = L + 1 /\ more[L + 1] = b /\ more[L] = most[L]
  BY <1>2, <1>5, <1>6
<1>8. g[L] = f[L]
  BY <1>2, <1>3, <1>4, <1>5, ReadsAlike
<1>9. L + 1 \in 1..Len(more) /\ (L + 1) - 1 = L /\ L + 1 > 1
  BY <1>5, <1>7
<1>10. g[L + 1] = IF L + 1 > 1 /\ more[L] = Secrets!Backslash /\ more[L + 1] = b
                    THEN [g[L] EXCEPT ![Len(g[L])] = c]
                    ELSE Append(g[L], more[L + 1])
  BY <1>4, <1>6, <1>9 DEF ReadsTo
<1>11. g[L + 1] = [f[L] EXCEPT ![Len(f[L])] = c]
  BY <1>5, <1>7, <1>8, <1>9, <1>10
<1>12. f[L] = Append(Secrets!Unescape(text, b, c), Secrets!Backslash)
  <2>1. Secrets!Unescape(most, b, c) =
          Append(Secrets!Unescape(text, b, c), Secrets!Backslash)
    BY <1>1, UnescapePlain
  <2> QED
    BY <1>3, <1>5, <2>1 DEF ReadsTo
<1>13. PICK u \in Seq(S) : u = Secrets!Unescape(text, b, c)
  BY UnescapeIn
<1>14. [Append(u, Secrets!Backslash)
           EXCEPT ![Len(Append(u, Secrets!Backslash))] = c]
         = Append(u, c)
  <2>1. PICK w : w = Append(u, Secrets!Backslash)
    OBVIOUS
  <2>2. PICK k \in Nat : k = Len(u)
    OBVIOUS
  <2>3. w \in Seq(S) /\ Len(w) = k + 1 /\ \A j \in 1..k : w[j] = u[j]
    BY <2>1, <2>2
  <2>4. PICK e : e = [w EXCEPT ![k + 1] = c]
    OBVIOUS
  <2>5. /\ e \in Seq(S) /\ Len(e) = k + 1 /\ e[k + 1] = c
        /\ \A j \in 1..k : e[j] = u[j]
    <3>1. k + 1 \in 1..Len(w)
      BY <2>3
    <3> QED
      BY <2>3, <2>4, <3>1, ExceptSeq
  <2>6. PICK d : d = Append(u, c)
    OBVIOUS
  <2>7. /\ d \in Seq(S) /\ Len(d) = k + 1 /\ d[k + 1] = c
        /\ \A j \in 1..k : d[j] = u[j]
    BY <2>2, <2>6
  <2>8. \A j \in 1..(k + 1) : e[j] = d[j]
    BY <2>5, <2>7
  <2>9. e = d
    BY <2>5, <2>7, <2>8, SeqEqual
  <2> QED
    BY <2>1, <2>3, <2>4, <2>6, <2>9
<1> QED
  BY <1>1, <1>4, <1>6, <1>7, <1>5, <1>11, <1>12, <1>13, <1>14 DEF ReadsTo

\* The line that export writes, and what push reads of it.
OneLine == Secrets!Chars \ {Secrets!LF, Secrets!CR}
Unquoted(e) == Secrets!Unescape(e, Secrets!Quote, Secrets!Quote)
Broken(a) == Secrets!Unescape(a, "n", Secrets!LF)
Doubled(v, n) == \E i \in 1..n : v[i] = Secrets!Backslash
Matches(r, v, n) == Len(r) = n /\ \A i \in 1..n : r[i] = v[i]

ReadsBack(v, n, e, a, r) ==
  /\ e \in Seq(OneLine) /\ a \in Seq(Secrets!Chars) /\ r \in Seq(Secrets!Chars)
  /\ Unquoted(e) = a /\ Broken(a) = r /\ Len(r) >= n
  /\ Matches(r, v, n) <=> ~Doubled(v, n)
  /\ EndsIn(a, Secrets!Backslash) =>
       /\ Doubled(v, n)
       /\ \E most \in Seq(Secrets!Chars) :
            a = Append(most, Secrets!Backslash) /\ Len(Broken(most)) >= n

LEMMA Characters ==
  /\ Secrets!Backslash # Secrets!Quote /\ Secrets!Backslash # "n"
  /\ Secrets!Backslash # Secrets!LF /\ Secrets!Backslash # Secrets!CR
  /\ Secrets!Backslash # Secrets!Space /\ Secrets!Quote # "n"
  /\ Secrets!Quote # Secrets!LF /\ Secrets!Quote # Secrets!CR
  /\ Secrets!Quote # Secrets!Space /\ Secrets!LF # "n" /\ Secrets!LF # Secrets!CR
  /\ Secrets!CR # "n"
  /\ Secrets!Backslash \in OneLine /\ Secrets!Quote \in OneLine /\ "n" \in OneLine
  /\ Secrets!LF \in Secrets!Chars /\ OneLine \in SUBSET Secrets!Chars
BY DEF Secrets!Chars, Secrets!Backslash, Secrets!Quote, Secrets!LF, Secrets!CR,
   Secrets!Space, Secrets!Apostrophe, OneLine

LEMMA EscapeIs ==
  /\ Secrets!Escape(Secrets!Backslash) = <<Secrets!Backslash, Secrets!Backslash>>
  /\ Secrets!Escape(Secrets!Quote) = <<Secrets!Backslash, Secrets!Quote>>
  /\ Secrets!Escape(Secrets!LF) = <<Secrets!Backslash, "n">>
  /\ \A x : x \notin {Secrets!Backslash, Secrets!Quote, Secrets!LF} =>
       Secrets!Escape(x) = <<x>>
<1>1. Secrets!Backslash # Secrets!Quote /\ Secrets!Backslash # Secrets!LF
      /\ Secrets!Quote # Secrets!LF
  BY Characters
<1> QED
  BY <1>1 DEF Secrets!Escape

LEMMA MatchesMore ==
  ASSUME NEW S, NEW r \in Seq(S), NEW x \in S, NEW v, NEW n \in Nat
  PROVE  Matches(Append(r, x), v, n + 1) <=> Matches(r, v, n) /\ x = v[n + 1]
<1>1. PICK k \in Nat : k = Len(r)
  OBVIOUS
<1>2. PICK more : more = Append(r, x)
  OBVIOUS
<1>3. Len(more) = k + 1 /\ more[k + 1] = x /\ \A i \in 1..k : more[i] = r[i]
  BY <1>1, <1>2
<1>4. ASSUME Matches(more, v, n + 1)  PROVE Matches(r, v, n) /\ x = v[n + 1]
  <2>1. k = n /\ \A i \in 1..(n + 1) : more[i] = v[i]
    BY <1>3, <1>4 DEF Matches
  <2>2. n + 1 \in 1..(n + 1) /\ \A i \in 1..n : i \in 1..(n + 1)
    OBVIOUS
  <2> QED
    BY <1>1, <1>3, <2>1, <2>2 DEF Matches
<1>5. ASSUME Matches(r, v, n), x = v[n + 1]  PROVE Matches(more, v, n + 1)
  <2>1. k = n /\ \A i \in 1..n : r[i] = v[i]
    BY <1>1, <1>5 DEF Matches
  <2>2. \A i \in 1..(n + 1) : i = n + 1 \/ i \in 1..n
    OBVIOUS
  <2> QED
    BY <1>3, <1>5, <2>1, <2>2 DEF Matches
<1> QED
  BY <1>2, <1>4, <1>5

LEMMA EndOf ==
  ASSUME NEW S, NEW s \in Seq(S), NEW x \in S, NEW y
  PROVE  /\ EndsIn(Append(s, x), y) <=> x = y
         /\ Append(s, x) \in Seq(S) /\ Len(Append(s, x)) = Len(s) + 1
BY DEF EndsIn

LEMMA UnquotedMore ==
  ASSUME NEW text \in Seq(Secrets!Chars), NEW x \in Secrets!Chars
  PROVE  /\ Unquoted(text) \in Seq(Secrets!Chars)
         /\ x # Secrets!Quote => Unquoted(Append(text, x))
              = Append(Unquoted(text), x)
         /\ Unquoted(Append(Append(text, Secrets!Backslash), Secrets!Quote)) =
              Append(Unquoted(text), Secrets!Quote)
<1>1. Secrets!Quote \in Secrets!Chars /\ Secrets!Backslash \in Secrets!Chars
      /\ Secrets!Quote # Secrets!Backslash
  BY Characters
<1>2. Unquoted(text) \in Seq(Secrets!Chars)
  BY <1>1, UnescapeIn DEF Unquoted
<1>3. x # Secrets!Quote => Unquoted(Append(text, x)) = Append(Unquoted(text), x)
  BY <1>1, UnescapePlain DEF Unquoted
<1>4. Unquoted(Append(Append(text, Secrets!Backslash), Secrets!Quote)) =
        Append(Unquoted(text), Secrets!Quote)
  BY <1>1, UnescapePair DEF Unquoted
<1> QED
  BY <1>2, <1>3, <1>4

LEMMA BrokenMore ==
  ASSUME NEW text \in Seq(Secrets!Chars), NEW x \in Secrets!Chars
  PROVE  /\ Broken(text) \in Seq(Secrets!Chars)
         /\ ~(EndsIn(text, Secrets!Backslash) /\ x = "n") =>
              Broken(Append(text, x)) = Append(Broken(text), x)
         /\ Broken(Append(Append(text, Secrets!Backslash), "n")) =
              Append(Broken(text), Secrets!LF)
<1>1. "n" \in Secrets!Chars /\ Secrets!Backslash \in Secrets!Chars
      /\ "n" # Secrets!Backslash /\ Secrets!LF \in Secrets!Chars
  BY Characters
<1>2. Broken(text) \in Seq(Secrets!Chars)
  BY <1>1, UnescapeIn DEF Broken
<1>3. ~(EndsIn(text, Secrets!Backslash) /\ x = "n") =>
        Broken(Append(text, x)) = Append(Broken(text), x)
  BY <1>1, UnescapePlain DEF Broken
<1>4. Broken(Append(Append(text, Secrets!Backslash), "n")) =
        Append(Broken(text), Secrets!LF)
  BY <1>1, UnescapePair DEF Broken
<1> QED
  BY <1>2, <1>3, <1>4

\* A character that is no backslash and comes back as it went.
LEMMA ReadsOne ==
  ASSUME NEW v, NEW n \in Nat, NEW e, NEW a, NEW r, ReadsBack(v, n, e, a, r),
         NEW x, x = v[n + 1], x # Secrets!Backslash, x \in Secrets!Chars,
         NEW e2 \in Seq(OneLine), NEW a2 \in Seq(Secrets!Chars),
         Unquoted(e2) = a2, Broken(a2) = Append(r, x),
         ~EndsIn(a2, Secrets!Backslash)
  PROVE  ReadsBack(v, n + 1, e2, a2, Append(r, x))
<1>1. r \in Seq(Secrets!Chars) /\ Len(r) >= n /\ Len(r) \in Nat
  BY DEF ReadsBack
<1>2. Append(r, x) \in Seq(Secrets!Chars) /\ Len(Append(r, x)) = Len(r) + 1
  BY <1>1
<1>3. Len(Append(r, x)) >= n + 1
  BY <1>1, <1>2
<1>4. Matches(Append(r, x), v, n + 1) <=> Matches(r, v, n)
  BY <1>1, MatchesMore
<1>5. Doubled(v, n + 1) <=> Doubled(v, n)
  <2>1. \A i : i \in 1..(n + 1) <=> i \in 1..n \/ i = n + 1
    OBVIOUS
  <2> QED
    BY <2>1 DEF Doubled
<1> QED
  BY <1>2, <1>3, <1>4, <1>5 DEF ReadsBack

LEMMA ReadsStep ==
  ASSUME NEW v \in Seq(Plain), NEW n \in Nat, n < Len(v), NEW e, NEW a, NEW r,
         ReadsBack(v, n, e, a, r), NEW e2, e2 = e \o Secrets!Escape(v[n + 1])
  PROVE  \E a2, r2 : ReadsBack(v, n + 1, e2, a2, r2)
<1> DEFINE B == Secrets!Backslash
           Q == Secrets!Quote
           C == Secrets!Chars
<1>1. PICK x \in Plain : x = v[n + 1]
  <2>1. n + 1 \in 1..Len(v)
    OBVIOUS
  <2> QED
    BY <2>1, ElementOfSeq
<1>2. x \in C /\ x # Secrets!CR
  BY DEF Plain
<1>3. /\ e \in Seq(OneLine) /\ e \in Seq(C) /\ a \in Seq(C) /\ r \in Seq(C)
      /\ Unquoted(e) = a /\ Broken(a) = r /\ Len(r) >= n /\ Len(r) \in Nat
      /\ EndsIn(a, B) =>
           /\ Doubled(v, n)
           /\ \E most \in Seq(C) : a = Append(most, B) /\ Len(Broken(most)) >= n
  BY Characters, SeqMonotonic DEF ReadsBack
<1>4. /\ B \in C /\ Q \in C /\ "n" \in C /\ Secrets!LF \in C
      /\ B # Q /\ B # "n" /\ Q # "n" /\ Secrets!LF # "n" /\ B # Secrets!LF
      /\ B \in OneLine /\ Q \in OneLine /\ "n" \in OneLine
  BY Characters
<1> HIDE DEF B, Q, C
<1>5. \A y \in OneLine : e \o <<y>> = Append(e, y) /\ Append(e, y) \in Seq(OneLine)
  BY <1>3
<1>6. \A y, z \in OneLine : /\ e \o <<y, z>> = Append(Append(e, y), z)
                             /\ Append(Append(e, y), z) \in Seq(OneLine)
  BY <1>3, SMTT(30)
<1>11. \A s \in Seq(C), y \in C :
         Append(s, y) \in Seq(C) /\ Len(Append(s, y)) = Len(s) + 1
  OBVIOUS
<1>7. CASE x = B
  <2>1. PICK e1 \in Seq(C) : e1 = Append(e, B)
    BY <1>3, <1>4, <1>11
  <2>2. PICK a1 \in Seq(C), r1 \in Seq(C) : a1 = Append(a, B) /\ r1 = Append(r, B)
    BY <1>3, <1>4, <1>11
  <2>3. e2 = Append(e1, B) /\ e2 \in Seq(OneLine)
    BY <1>1, <1>4, <1>6, <1>7, <2>1, EscapeIs DEF B
  <2>4. Unquoted(e1) = a1
    BY <1>3, <1>4, <2>1, <2>2, UnquotedMore DEF B, C, Q
  <2>5. Unquoted(e2) = Append(a1, B)
    <3>1. Unquoted(Append(e1, B)) = Append(Unquoted(e1), B)
      BY <1>4, UnquotedMore, Zenon DEF Q, C
    <3> QED
      BY <2>3, <2>4, <3>1
  <2>6. Broken(a1) = r1
    BY <1>3, <1>4, <2>2, BrokenMore DEF B, C
  <2>7. Broken(Append(a1, B)) = Append(r1, B)
    BY <1>4, <2>6, BrokenMore DEF B, C
  <2>8. /\ Len(r1) >= n + 1 /\ Append(r1, B) \in Seq(C) /\ Append(a1, B) \in Seq(C)
        /\ Len(Append(r1, B)) > n + 1
    BY <1>3, <1>4, <2>2
  <2>9. Len(Append(r1, B)) \in Nat
    BY <2>8
  <2>10. ~Matches(Append(r1, B), v, n + 1) /\ Len(Append(r1, B)) >= n + 1
    BY <2>8, <2>9 DEF Matches
  <2>11. n + 1 \in 1..(n + 1)
    OBVIOUS
  <2>12. Doubled(v, n + 1)
    BY <1>1, <1>7, <2>11 DEF Doubled, B
  <2>13. \E most \in Seq(C) : Append(a1, B)
           = Append(most, B) /\ Len(Broken(most)) >= n + 1
    BY <2>6, <2>8
  <2>14. ReadsBack(v, n + 1, e2, Append(a1, B), Append(r1, B))
    BY <2>3, <2>5, <2>7, <2>8, <2>10, <2>12, <2>13 DEF ReadsBack, B, C
  <2> QED
    BY <2>14
<1>8. CASE x = Q
  <2>1. e2 = Append(Append(e, B), Q) /\ e2 \in Seq(OneLine)
    BY <1>1, <1>4, <1>6, <1>8, EscapeIs DEF B, Q
  <2>2. Unquoted(e2) = Append(a, Q)
    BY <1>3, <1>4, <2>1, UnquotedMore DEF B, C, Q
  <2>3. Broken(Append(a, Q)) = Append(r, Q)
    BY <1>3, <1>4, BrokenMore DEF B, C
  <2>4. Append(a, Q) \in Seq(C) /\ ~EndsIn(Append(a, Q), B)
    BY <1>3, <1>4, EndOf
  <2>5. ReadsBack(v, n + 1, e2, Append(a, Q), Append(r, Q))
    BY <1>1, <1>2, <1>4, <1>8, <2>1, <2>2, <2>3, <2>4, ReadsOne DEF B, C
  <2> QED
    BY <2>5
<1>9. CASE x = Secrets!LF
  <2>1. PICK e1 \in Seq(C) : e1 = Append(e, B)
    BY <1>3, <1>4, <1>11
  <2>2. PICK a1 \in Seq(C) : a1 = Append(a, B)
    BY <1>3, <1>4, <1>11
  <2>3. e2 = Append(e1, "n") /\ e2 \in Seq(OneLine)
    BY <1>1, <1>4, <1>6, <1>9, <2>1, EscapeIs DEF B
  <2>4. Unquoted(e1) = a1
    BY <1>3, <1>4, <2>1, <2>2, UnquotedMore DEF B, C, Q
  <2>5. Unquoted(e2) = Append(a1, "n") /\ Append(a1, "n") \in Seq(C)
    <3>1. Unquoted(Append(e1, "n")) = Append(Unquoted(e1), "n")
      BY <1>4, UnquotedMore, Zenon DEF Q, C
    <3> QED
      BY <1>4, <1>11, <2>3, <2>4, <3>1
  <2>6. Broken(Append(a1, "n")) = Append(r, Secrets!LF)
    BY <1>3, <1>4, <2>2, BrokenMore DEF B, C
  <2>7. ~EndsIn(Append(a1, "n"), B)
    BY <1>4, <2>2, EndOf
  <2>8. ReadsBack(v, n + 1, e2, Append(a1, "n"), Append(r, Secrets!LF))
    BY <1>1, <1>2, <1>4, <1>9, <2>3, <2>5, <2>6, <2>7, ReadsOne DEF B, C
  <2> QED
    BY <2>8
<1>10. CASE x \notin {B, Q, Secrets!LF}
  <2>1. x \in OneLine
    BY <1>2, <1>10 DEF OneLine, C
  <2>2. e2 = Append(e, x) /\ e2 \in Seq(OneLine)
    BY <1>1, <1>5, <1>10, <2>1, EscapeIs DEF B, Q
  <2>3. Unquoted(e2) = Append(a, x) /\ Append(a, x) \in Seq(C)
    BY <1>2, <1>3, <1>4, <1>10, <2>2, UnquotedMore DEF B, C, Q
  <2>4. ~EndsIn(Append(a, x), B)
    BY <1>2, <1>3, <1>10, EndOf
  <2>5. CASE ~(EndsIn(a, B) /\ x = "n")
    <3>1. Broken(Append(a, x)) = Append(r, x)
      BY <1>2, <1>3, <1>4, <2>5, BrokenMore DEF B, C
    <3>2. ReadsBack(v, n + 1, e2, Append(a, x), Append(r, x))
      BY <1>1, <1>2, <1>10, <2>2, <2>3, <2>4, <3>1, ReadsOne DEF B, C
    <3> QED
      BY <3>2
  <2>6. CASE EndsIn(a, B) /\ x = "n"
    <3>1. PICK most \in Seq(C) : a = Append(most, B) /\ Len(Broken(most)) >= n
      BY <1>3, <2>6
    <3>2. PICK u \in Seq(C) : u = Broken(most) /\ Len(u) >= n
      BY <1>4, <3>1, BrokenMore DEF C
    <3>3. Broken(Append(a, x)) = Append(u, Secrets!LF)
      BY <1>4, <2>6, <3>1, <3>2, BrokenMore DEF B, C
    <3>4. Append(u, Secrets!LF) \in Seq(C) /\ Len(Append(u, Secrets!LF)) >= n + 1
      BY <1>4, <3>2
    <3>5. ~Matches(Append(u, Secrets!LF), v, n + 1)
      <4>1. PICK y \in C : y = Secrets!LF
        BY <1>4
      <4>2. Matches(Append(u, y), v, n + 1) <=> Matches(u, v, n) /\ y = v[n + 1]
        BY MatchesMore
      <4> QED
        BY <1>1, <1>4, <2>6, <4>1, <4>2
    <3>6. Doubled(v, n + 1)
      BY <1>3, <2>6 DEF Doubled
    <3>7. ReadsBack(v, n + 1, e2, Append(a, x), Append(u, Secrets!LF))
      BY <1>1, <1>4, <2>2, <2>3, <2>4, <2>6, <3>3, <3>4, <3>5, <3>6
         DEF ReadsBack, B, C
    <3> QED
      BY <3>7
  <2> QED
    BY <2>5, <2>6
<1> QED
  BY <1>7, <1>8, <1>9, <1>10

\* The whole way of a value.
LEMMA ReadAll ==
  ASSUME NEW v \in Seq(Plain)
  PROVE  \E a, r : ReadsBack(v, Len(v), Secrets!Escaped(v), a, r)
<1>1. v \in Seq(Secrets!Chars)
  BY SeqMonotonic DEF Plain
<1>2. PICK L \in Nat : L = Len(v)
  OBVIOUS
<1>3. PICK f : EscapesTo(f, v)
  BY <1>1, EscapedIs
<1> DEFINE T == {n \in Nat : \E a, r : ReadsBack(v, n, f[n], a, r)}
<1>4. 0 \in T
  <2>1. f[0] = <<>>
    BY <1>3 DEF EscapesTo
  <2>2. Unquoted(<<>>) = <<>> /\ Broken(<<>>) = <<>>
    BY UnescapeNone DEF Unquoted, Broken
  <2>3. <<>> \in Seq(OneLine) /\ <<>> \in Seq(Secrets!Chars) /\ Len(<<>>) = 0
    BY EmptySeq
  <2>4. Matches(<<>>, v, 0) /\ ~Doubled(v, 0)
    BY <2>3 DEF Matches, Doubled
  <2>5. ~EndsIn(<<>>, Secrets!Backslash)
    BY DEF EndsIn
  <2>6. ReadsBack(v, 0, <<>>, <<>>, <<>>)
    BY <2>2, <2>3, <2>4, <2>5 DEF ReadsBack
  <2> QED
    BY <2>1, <2>6
<1>5. ASSUME NEW n \in Nat, n < L, n \in T  PROVE n + 1 \in T
  <2>1. PICK a, r : ReadsBack(v, n, f[n], a, r)
    BY <1>5
  <2>2. n + 1 \in 1..L /\ (n + 1) - 1 = n /\ n + 1 \in Nat
    BY <1>5
  <2>3. f[n + 1] = f[n] \o Secrets!Escape(v[n + 1])
    BY <1>2, <1>3, <2>2 DEF EscapesTo
  <2>4. \E a2, r2 : ReadsBack(v, n + 1, f[n + 1], a2, r2)
    BY <1>2, <1>5, <2>1, <2>3, ReadsStep
  <2> QED
    BY <2>2, <2>4
<1>6. L \in 0..L
  OBVIOUS
<1>7. L \in T
  <2>1. \A n \in 0..L : n \in T
    <3> HIDE DEF T
    <3> QED
      BY <1>4, <1>5, InductionTo
  <2> QED
    BY <1>6, <2>1
<1> QED
  BY <1>2, <1>3, <1>7 DEF EscapesTo

LEMMA FirstLineIs ==
  ASSUME NEW text \in Seq(Secrets!Chars)
  PROVE  /\ Secrets!FirstLine(text) \in Seq(OneLine)
         /\ text \in Seq(OneLine) => Secrets!FirstLine(text) = text
<1>1. PICK n \in Nat : n = Len(text)
  OBVIOUS
<1>2. PICK ends : ends = {i \in DOMAIN text : text[i] \in {Secrets!LF, Secrets!CR}}
  OBVIOUS
<1>3. /\ DOMAIN text = 1..n /\ ends \in SUBSET (1..n) /\ ends \in SUBSET Nat
      /\ \A i \in 1..n : text[i] \in Secrets!Chars
      /\ \A i \in 1..n : i \notin ends => text[i] \in OneLine
      /\ \A i \in ends : text[i] \notin OneLine
  BY <1>1, <1>2 DEF OneLine
<1>4. Secrets!FirstLine(text) =
        IF ends = {} THEN text
        ELSE SubSeq(text, 1, (CHOOSE i \in ends : \A j \in ends : i <= j) - 1)
  BY <1>2 DEF Secrets!FirstLine
<1>5. ASSUME ends = {}
      PROVE  Secrets!FirstLine(text) = text /\ text \in Seq(OneLine)
  <2>1. \A i \in 1..n : text[i] \in OneLine
    BY <1>3, <1>5
  <2>2. text \in Seq(OneLine)
    BY <1>1, <2>1, SeqDef
  <2> QED
    BY <1>4, <1>5, <2>2
<1>6. ASSUME ends # {}
      PROVE  Secrets!FirstLine(text) \in Seq(OneLine) /\ text \notin Seq(OneLine)
  <2>1. PICK k : k = CHOOSE i \in ends : \A j \in ends : i <= j
    OBVIOUS
  <2>2. k \in ends /\ \A j \in ends : k <= j
    BY <1>3, <1>6, <2>1, LeastNumber
  <2>3. k \in 1..n /\ k - 1 \in 0..n
    BY <1>3, <2>2
  <2>4. PICK m \in 0..n : m = k - 1
    BY <2>3
  <2>5. \A i \in 1..m : i \in 1..n /\ i \notin ends
    BY <2>2, <2>3, <2>4
  <2>6. /\ SubSeq(text, 1, m) \in Seq(Secrets!Chars)
        /\ Len(SubSeq(text, 1, m)) = m
        /\ \A i \in 1..m : SubSeq(text, 1, m)[i] = text[i]
    BY <1>1, <2>4
  <2>7. \A i \in 1..m : SubSeq(text, 1, m)[i] \in OneLine
    BY <1>3, <2>5, <2>6
  <2>8. SubSeq(text, 1, m) \in Seq(OneLine)
    BY <2>6, <2>7, SeqDef
  <2>9. text \notin Seq(OneLine)
    BY <1>1, <1>3, <2>2, <2>3, ElementOfSeq
  <2> QED
    BY <1>4, <1>6, <2>1, <2>4, <2>8, <2>9
<1> QED
  BY <1>5, <1>6

LEMMA StripIs ==
  ASSUME NEW S, NEW text \in Seq(S)
  PROVE  /\ Secrets!Strip(text) \in Seq(S)
         /\ text # <<>> /\ text[1] # Secrets!Space /\ ~EndsIn(text,
              Secrets!Space) =>
              Secrets!Strip(text) = text
<1>1. PICK n \in Nat : n = Len(text)
  OBVIOUS
<1>2. PICK kept : kept = {i \in DOMAIN text : text[i] # Secrets!Space}
  OBVIOUS
<1>3. kept \in SUBSET (1..n) /\ kept \in SUBSET Nat /\ DOMAIN text = 1..n
  BY <1>1, <1>2
<1>4. Secrets!Strip(text) =
        IF kept = {} THEN <<>>
        ELSE SubSeq(text, CHOOSE i \in kept : \A j \in kept : i <= j,
                    CHOOSE i \in kept : \A j \in kept : j <= i)
  BY <1>2 DEF Secrets!Strip
<1>5. CASE kept = {}
  <2>1. Secrets!Strip(text) = <<>>
    BY <1>4, <1>5
  <2>2. text = <<>> \/ text[1] = Secrets!Space
    <3>1. n = 0 => text = <<>>
      BY <1>1, EmptySeq
    <3>2. n # 0 => 1 \in 1..n
      OBVIOUS
    <3> QED
      BY <1>2, <1>3, <1>5, <3>1, <3>2
  <2> QED
    BY <2>1, <2>2, EmptySeq
<1>6. CASE kept # {}
  <2>1. PICK lo : lo = CHOOSE i \in kept : \A j \in kept : i <= j
    OBVIOUS
  <2>2. PICK hi : hi = CHOOSE i \in kept : \A j \in kept : j <= i
    OBVIOUS
  <2>3. lo \in kept /\ \A j \in kept : lo <= j
    BY <1>3, <1>6, <2>1, LeastNumber
  <2>4. hi \in kept /\ \A j \in kept : j <= hi
    <3>1. kept \subseteq 0..n
      BY <1>3
    <3> QED
      BY <1>6, <2>2, <3>1, GreatestNumber
  <2>5. lo \in 1..n /\ hi \in 1..n
    BY <1>3, <2>3, <2>4
  <2>6. Secrets!Strip(text) = SubSeq(text, lo, hi)
    BY <1>4, <1>6, <2>1, <2>2
  <2>7. SubSeq(text, lo, hi) \in Seq(S)
    BY <1>1, <2>5
  <2>8. ASSUME text[1] # Secrets!Space, ~EndsIn(text, Secrets!Space)
        PROVE  SubSeq(text, lo, hi) = text
    <3>1. 1 \in 1..n /\ n \in 1..n
      BY <2>5
    <3>2. text # <<>>
      BY <1>1, <3>1
    <3>3. 1 \in kept /\ n \in kept
      BY <1>1, <1>2, <1>3, <2>8, <3>1, <3>2 DEF EndsIn
    <3>4. lo = 1 /\ hi = n
      BY <2>3, <2>4, <2>5, <3>1, <3>3
    <3> QED
      BY <1>1, <3>4
  <2> QED
    BY <2>6, <2>7, <2>8
<1> QED
  BY <1>5, <1>6

\* A value in quotes is read as one line, and what is between the quotes is left.
LEMMA QuotedLine ==
  ASSUME NEW e \in Seq(OneLine), NEW text,
         text = <<Secrets!Quote>> \o e \o <<Secrets!Quote>>
  PROVE  Secrets!ParseValue(text) = Broken(Unquoted(e))
<1>1. PICK q \in OneLine : /\ q = Secrets!Quote /\ q # Secrets!Space
                           /\ q \in {Secrets!Quote, Secrets!Apostrophe}
  BY Characters
<1>2. PICK k \in Nat : k = Len(e)
  OBVIOUS
<1>3. /\ text \in Seq(OneLine) /\ Len(text) = k + 2
      /\ text[1] = q /\ text[k + 2] = q /\ \A i \in 1..k : text[i + 1] = e[i]
  <2>1. PICK s \in Seq(OneLine) : s = <<q>> \o e
    <3>1. <<q>> \in Seq(OneLine)
      OBVIOUS
    <3> QED
      BY <3>1, ConcatProperties
  <2>2. Len(s) = k + 1 /\ s[1] = q /\ \A i \in 1..k : s[i + 1] = e[i]
    <3>1. /\ Len(<<q>>) = 1 /\ <<q>> \in Seq(OneLine)
          /\ \A i \in 1..k : (i + 1) - 1
               = i /\ i + 1 \in 1..(1 + k) /\ ~(i + 1 <= 1)
          /\ 1 \in 1..(1 + k)
      OBVIOUS
    <3> QED
      BY <1>2, <2>1, <3>1, ConcatProperties
  <2>3. text = Append(s, q)
    BY <1>1, <2>1
  <2> QED
    BY <2>2, <2>3
<1>4. text \in Seq(Secrets!Chars)
  BY <1>3, Characters, SeqMonotonic
<1>5. Secrets!FirstLine(text) = text
  BY <1>3, <1>4, FirstLineIs
<1>6. Secrets!Strip(text) = text
  <2>1. text # <<>>
    BY <1>3, EmptySeq
  <2>2. ~EndsIn(text, Secrets!Space)
    BY <1>1, <1>3 DEF EndsIn
  <2> QED
    BY <1>1, <1>3, <2>1, <2>2, StripIs
<1>7. SubSeq(text, 2, (k + 2) - 1) = e
  <2>1. PICK m \in Int : m = (k + 2) - 1
    OBVIOUS
  <2>2. PICK s : s = SubSeq(text, 2, m)
    OBVIOUS
  <2>3. \A i \in 2..m : text[i] \in OneLine
    BY <1>3, <2>1, ElementOfSeq
  <2>4. /\ s \in Seq(OneLine)
        /\ Len(s) = IF 2 <= m THEN m - 2 + 1 ELSE 0
        /\ \A i \in 1..(m - 2 + 1) : s[i] = text[2 + i - 1]
    <3>1. 2 \in Int
      OBVIOUS
    <3>2. s \in Seq(OneLine)
      BY <2>2, <2>3, <3>1, SubSeqProperties, Zenon
    <3>3. Len(s) = IF 2 <= m THEN m - 2 + 1 ELSE 0
      BY <1>3, <2>1, <2>2
    <3>4. \A i \in 1..(m - 2 + 1) : s[i] = text[2 + i - 1]
      BY <1>3, <2>1, <2>2
    <3> QED
      BY <3>2, <3>3, <3>4
  <2>5. (IF 2 <= m THEN m - 2 + 1 ELSE 0) = k /\ m - 2 + 1 = k
        /\ \A i \in 1..k : 2 + i - 1 = i + 1
    BY <2>1
  <2>6. \A i \in 1..k : s[i] = e[i]
    BY <1>3, <2>4, <2>5
  <2>7. s = e
    BY <1>2, <2>4, <2>5, <2>6, SeqEqual
  <2> QED
    BY <2>1, <2>2, <2>7
<1>8. k + 2 >= 2
  OBVIOUS
<1>9. Secrets!ParseValue(text) =
        Broken(Unquoted(SubSeq(text, 2, Len(text) - 1)))
  BY <1>1, <1>3, <1>5, <1>6, <1>8 DEF Secrets!ParseValue, Broken, Unquoted
<1> QED
  BY <1>3, <1>7, <1>9

\* What is read never has the other line boundaries.
LEMMA ParsedIn ==
  ASSUME NEW text \in Seq(Secrets!Chars)
  PROVE  Secrets!ParseValue(text) \in Seq(Plain)
<1>1. PICK line : line = Secrets!Strip(Secrets!FirstLine(text))
  OBVIOUS
<1>2. OneLine \in SUBSET Plain /\ Secrets!Quote \in Plain /\ Secrets!LF \in Plain
  BY Characters DEF OneLine, Plain
<1>3. line \in Seq(Plain)
  BY <1>1, <1>2, FirstLineIs, StripIs, SeqMonotonic
<1>4. PICK n \in Nat : n = Len(line)
  BY <1>3
<1>5. ASSUME n >= 2  PROVE SubSeq(line, 2, n - 1) \in Seq(Plain)
  <2>1. \A i \in 2..(n - 1) : line[i] \in Plain
    BY <1>3, <1>4, ElementOfSeq
  <2>2. 2 \in Int /\ n - 1 \in Int
    OBVIOUS
  <2> QED
    BY <2>1, <2>2, SubSeqProperties, Zenon
<1>6. ASSUME n >= 2
      PROVE  Secrets!Unescape(Secrets!Unescape(SubSeq(line, 2, n - 1),
               Secrets!Quote,
                                Secrets!Quote), "n", Secrets!LF) \in Seq(Plain)
  BY <1>2, <1>5, <1>6, UnescapeIn
<1> QED
  BY <1>1, <1>3, <1>4, <1>6 DEF Secrets!ParseValue

\* The .env format (_format_value, _parse_dotenv): a value of any length comes
\* back as it went out exactly when it has no line boundary but line feeds and
\* is not both quoted and in possession of a backslash.
THEOREM ValuesRoundTrip ==
  ASSUME NEW v \in Seq(Secrets!Chars)
  PROVE  Secrets!RoundTrips(v)
<1> DEFINE text == Secrets!FormatValue(v)
           back == Secrets!ParseValue(text) = v
<1>1. PICK n \in Nat : n = Len(v) /\ DOMAIN v = 1..n
  OBVIOUS
<1>2. \A i \in 1..n : v[i] \in Secrets!Chars
  BY <1>1, ElementOfSeq
<1>3. CASE ~Secrets!NeedsQuoting(v)
  <2>1. /\ text = v /\ v # <<>>
        /\ \A i \in 1..n : v[i] \notin {Secrets!Space, Secrets!LF, Secrets!CR,
                                            Secrets!Quote, Secrets!Apostrophe}
    BY <1>1, <1>3 DEF Secrets!FormatValue, Secrets!NeedsQuoting, Secrets!Has
  <2>2. n # 0
    BY <1>1, <2>1, EmptySeq
  <2>3. 1 \in 1..n /\ n \in 1..n
    BY <2>2
  <2>4. v \in Seq(OneLine)
    <3>1. \A i \in 1..n : v[i] \in OneLine
      BY <1>2, <2>1 DEF OneLine
    <3> QED
      BY <1>1, <3>1, SeqDef
  <2>5. Secrets!FirstLine(v) = v
    BY <2>4, FirstLineIs
  <2>6. Secrets!Strip(v) = v
    BY <1>1, <2>1, <2>3, StripIs DEF EndsIn
  <2>7. v[1] \notin {Secrets!Quote, Secrets!Apostrophe}
    BY <2>1, <2>3
  <2>8. back
    BY <2>1, <2>5, <2>6, <2>7 DEF Secrets!ParseValue
  <2>9. ~Secrets!Has(v, {Secrets!CR})
    BY <1>1, <2>1 DEF Secrets!Has
  <2> QED
    BY <1>3, <2>8, <2>9 DEF Secrets!RoundTrips
<1>4. CASE Secrets!NeedsQuoting(v) /\ ~Secrets!Has(v, {Secrets!CR})
  <2>1. v \in Seq(Plain)
    <3>1. \A i \in 1..n : v[i] \in Plain
      BY <1>1, <1>2, <1>4 DEF Plain, Secrets!Has
    <3> QED
      BY <1>1, <3>1, SeqDef
  <2>2. PICK a, r : ReadsBack(v, n, Secrets!Escaped(v), a, r)
    BY <1>1, <2>1, ReadAll
  <2>3. /\ Secrets!Escaped(v) \in Seq(OneLine)
        /\ Broken(Unquoted(Secrets!Escaped(v))) = r
        /\ r \in Seq(Secrets!Chars)
        /\ Matches(r, v, n) <=> ~Doubled(v, n)
    BY <2>2 DEF ReadsBack
  <2>4. text = <<Secrets!Quote>> \o Secrets!Escaped(v) \o <<Secrets!Quote>>
    BY <1>4 DEF Secrets!FormatValue
  <2>5. Secrets!ParseValue(text) = r
    BY <2>3, <2>4, QuotedLine
  <2>6. r = v <=> Matches(r, v, n)
    BY <1>1, <2>3, SeqEqual DEF Matches
  <2>7. Doubled(v, n) <=> Secrets!Has(v, {Secrets!Backslash})
    BY <1>1 DEF Doubled, Secrets!Has
  <2> QED
    BY <1>4, <2>3, <2>5, <2>6, <2>7 DEF Secrets!RoundTrips
<1>5. CASE Secrets!Has(v, {Secrets!CR})
  <2>1. PICK i \in 1..n : v[i] = Secrets!CR
    BY <1>1, <1>5 DEF Secrets!Has
  <2>2. v \notin Seq(Plain)
    <3>1. Secrets!CR \notin Plain
      BY DEF Plain
    <3> QED
      BY <1>1, <2>1, <3>1, ElementOfSeq
  <2>3. Secrets!NeedsQuoting(v)
    BY <1>1, <2>1 DEF Secrets!NeedsQuoting, Secrets!Has
  <2>4. PICK f \in [0..Len(v) -> Seq(Secrets!Chars)] : EscapesTo(f, v)
    BY EscapedIs
  <2>5. Secrets!Escaped(v) \in Seq(Secrets!Chars)
    <3>1. Len(v) \in 0..Len(v)
      BY <1>1
    <3> QED
      BY <2>4, <3>1 DEF EscapesTo
  <2>6. text \in Seq(Secrets!Chars)
    <3>1. Secrets!Quote \in Secrets!Chars
      BY Characters
    <3> HIDE DEF text
    <3>2. text = <<Secrets!Quote>> \o Secrets!Escaped(v) \o <<Secrets!Quote>>
      BY <2>3 DEF Secrets!FormatValue, text
    <3> QED
      BY <2>5, <3>1, <3>2
  <2>7. ~back
    BY <2>2, <2>6, ParsedIn
  <2> QED
    BY <1>5, <2>7 DEF Secrets!RoundTrips
<1> QED
  BY <1>3, <1>4, <1>5

(***************************************************************************)
(* All of them, on the samples.                                            *)
(***************************************************************************)

AlgorithmsInv == part = "algorithms" => sample \in Samples

\* Every algorithm meets its reference on each input a Samples may have: the
\* inputs are assumed to be of the types the code gives them, and nothing is
\* assumed of how many or how large they are.
THEOREM AlgorithmsCorrectHolds == Spec => []AlgorithmsCorrect
<1>1. Init => AlgorithmsInv
  BY DEF Init, Parts, AlgorithmsInv
<1>2. AlgorithmsInv /\ [Next]_vars => AlgorithmsInv'
  <2> SUFFICES ASSUME AlgorithmsInv, [Next]_vars
               PROVE  UNCHANGED <<part, sample>>
    BY DEF AlgorithmsInv
  <2> QED
    BY DEF vars, Next, RateNext, CacheNext, EnvNext, EnvUnchanged, KeysNext,
           LlmNext, SearchNext, StorageNext, HealthNext
<1>3. AlgorithmsInv => AlgorithmsCorrect
  <2> SUFFICES ASSUME part = "algorithms", sample \in Samples
               PROVE  AlgorithmsCorrect
    BY DEF AlgorithmsInv, AlgorithmsCorrect
  <2>1. "dotenv" \in DOMAIN sample => Secrets!RoundTrips(sample.dotenv)
    BY SamplesAssumption, ValuesRoundTrip
  <2>2. "sources" \in DOMAIN sample =>
          Context!AssemblyFits(sample.sources, sample.limit)
    BY SamplesAssumption, AssemblyHolds
  <2>3. "environment" \in DOMAIN sample =>
          Flags!FlagsAgree(sample.flag, sample.user, sample.environment)
    BY SamplesAssumption, FlagsDecide
  <2>4. "maker" \in DOMAIN sample =>
          Access!TokensOpen(sample.maker, sample.checker, sample.user,
                            sample.extra, sample.active, sample.made, sample.now)
    <3> SUFFICES ASSUME "maker" \in DOMAIN sample
                 PROVE  Access!TokensOpen(sample.maker, sample.checker,
                                          sample.user, sample.extra,
                                          sample.active, sample.made, sample.now)
      OBVIOUS
    <3>1. /\ sample.maker \in Access!Config /\ sample.checker \in Access!Config
          /\ sample.user # None /\ sample.user # "no uuid"
          /\ sample.user \in DOMAIN sample.active
          /\ sample.active[sample.user] \in BOOLEAN
          /\ "nbf" \in DOMAIN sample.extra => sample.extra.nbf \in Int
          /\ sample.made \in Nat /\ sample.now \in Nat
      BY SamplesAssumption
    <3> QED
      BY <3>1, TokensAccepted
  <2>5. "catalog" \in DOMAIN sample =>
          Templates!TemplatesAgree(sample.catalog, sample.templates,
                                   sample.present)
    BY SamplesAssumption, TemplatesDecide
  <2>6. "rows" \in DOMAIN sample =>
          Results!HybridIsUnion(sample.rows, sample.now, sample.limit)
    BY SamplesAssumption, HybridsAgree
  <2>7. "dependencies" \in DOMAIN sample =>
          Deep!OutOfRotation(sample.dependencies, sample.strict)
    BY SamplesAssumption, RotationDecided
  <2>8. "turns" \in DOMAIN sample =>
          History!BackendsAgree(sample.turns, sample.limit)
    BY SamplesAssumption, HistoriesAgree
  <2>9. "weights" \in DOMAIN sample =>
          Guard!GuardFailsClosed(sample.weights, sample.further, sample.flag,
                                 sample.block, sample.level)
    <3> SUFFICES ASSUME "weights" \in DOMAIN sample
                 PROVE  Guard!GuardFailsClosed(sample.weights, sample.further,
                                               sample.flag, sample.block,
                                               sample.level)
      OBVIOUS
    <3>1. /\ sample.weights \in Seq(Nat) /\ sample.further \in Nat
          /\ sample.flag \in Nat /\ sample.block \in Nat
      BY SamplesAssumption
    <3> QED
      BY <3>1, GuardDecides
  <2> QED
    BY <2>1, <2>2, <2>3, <2>4, <2>5, <2>6, <2>7, <2>8, <2>9, Zenon
       DEF AlgorithmsCorrect
<1> QED
  BY <1>1, <1>2, <1>3, PTL DEF Spec
===============================================================================
