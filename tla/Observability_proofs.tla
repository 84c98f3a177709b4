------------------------ MODULE Observability_proofs ------------------------
(***************************************************************************)
(* Proofs about observability_service, for any number of reports, issues   *)
(* and operators' calls, any size of the queue and of a batch.  No step of *)
(* the client changes what the server stores and none of the server what   *)
(* the client holds: each has an invariant of its own, first the server's, *)
(* then, after what Logs and Errors do to sequences, the handler's.        *)
(***************************************************************************)
EXTENDS Observability, FiniteSetTheorems, SequenceTheorems, TLAPS

Outcomes == {"committed", "told", "done", "cut", "collided", "failed"}

IssueRows == Server!Issue \cup {None}
ReportRows == [pc : {"idle", "read", "flushed"} \cup Outcomes, seen : IssueRows]

ErrTypeOK ==
  /\ issue \in [Fingerprints -> IssueRows]
  /\ occ \subseteq Reports
  /\ report \in [Reports -> ReportRows]
  /\ op \in [Operators -> [pc : {"idle", "read", "done"},
                           seen : Server!Statuses \cup {None},
                           new : Server!Statuses,
                           on : Fingerprints \cup {None}]]
  /\ lapped \subseteq Fingerprints
  /\ resolves \in [Fingerprints -> Nat]
  /\ epoch \in [Reports -> Nat]

\* A report that has not committed has no occurrence, one that has an alert
\* to send or has sent it has one, and one that is done without an alert has
\* found an issue.
Occurs(r) ==
  /\ report[r].pc \in {"idle", "read", "flushed", "collided", "failed"} =>
       r \notin occ
  /\ report[r].pc \in {"committed", "told"} => r \in occ
  /\ report[r].pc = "done" /\ r \in occ => report[r].seen # None

\* Only the one report that inserts an issue is between its flush and its
\* commit, and the issue is not there yet.
Inserts(r) ==
  report[r].pc = "flushed" =>
    /\ report[r].seen = None /\ issue[Fingerprint[r]] = None
    /\ \A s \in Reports :
         Fingerprint[s] = Fingerprint[r] /\ report[s].pc = "flushed" => s = r

NumberOf(f) == Cardinality(OccurrencesOf(f))

\* What a report has read of its issue: the count was right or too low, and
\* is the present one unless another report has overlapped; a resolve since
\* then is one the report has not seen.
Read(r) ==
  LET f == Fingerprint[r] IN
  report[r].pc = "read" /\ report[r].seen # None =>
    /\ issue[f] # None
    /\ report[r].seen.count \in 1..NumberOf(f)
    /\ f \notin lapped => report[r].seen.count = issue[f].count
    /\ issue[f].status = "resolved" /\ report[r].seen.status # "resolved" =>
         epoch[r] < resolves[f]

Alone(f) ==
  f \notin lapped =>
    \A r, s \in Reports :
      /\ Fingerprint[r] = f /\ report[r].pc \in {"read", "flushed"}
      /\ Fingerprint[s] = f /\ report[s].pc \in {"read", "flushed"}
      => r = s

FirstOf(f) == {r \in OccurrencesOf(f) : report[r].seen = None}

\* An issue has its first occurrence, and none before it is there.
HasFirst(f) ==
  IF issue[f] = None THEN OccurrencesOf(f) = {}
  ELSE \E r \in Reports : FirstOf(f) = {r}

Counted(f) ==
  issue[f] # None =>
    /\ issue[f].count \in 1..NumberOf(f)
    /\ f \notin lapped => issue[f].count = NumberOf(f)

AtOperator(o) ==
  op[o].pc = "read" => op[o].on \in Fingerprints /\ issue[op[o].on] # None

ErrInv ==
  /\ ErrTypeOK
  /\ \A r \in Reports : /\ Occurs(r) /\ Inserts(r) /\ Read(r)
                        /\ epoch[r] <= resolves[Fingerprint[r]]
  /\ \A f \in Fingerprints : Alone(f) /\ HasFirst(f) /\ Counted(f)
  /\ \A o \in Operators : AtOperator(o)
  /\ ResolvedIsQuiet

LEMMA FingerprintType == \A r \in Reports : Fingerprint[r] \in Fingerprints
BY FingerprintAssumption

LEMMA ReportsFinite == \A S \in SUBSET Reports : IsFiniteSet(S)
<1>1. IsFiniteSet(Records)
  <2>1. 1 \in Int /\ NRecords \in Int
    BY SizesAssumption
  <2> QED
    BY <2>1, FS_Interval, Zenon DEF Records
<1>2. IsFiniteSet(Reports)
  BY <1>1, ReportsAssumption, FS_Union, Zenon DEF Reports
<1> QED
  BY <1>2, FS_Subset, Zenon

LEMMA OccurrencesFinite ==
  ErrTypeOK => \A f : IsFiniteSet(OccurrencesOf(f)) /\ NumberOf(f) \in Nat
<1> SUFFICES ASSUME ErrTypeOK, NEW f
             PROVE  IsFiniteSet(OccurrencesOf(f)) /\ NumberOf(f) \in Nat
  OBVIOUS
<1>1. OccurrencesOf(f) \in SUBSET Reports
  BY DEF ErrTypeOK, OccurrencesOf
<1>2. IsFiniteSet(OccurrencesOf(f))
  BY <1>1, ReportsFinite, Zenon
<1> QED
  BY <1>2, FS_CardinalityType, Zenon DEF NumberOf

\* One more occurrence, of a report that had none.
LEMMA OneOccurrence ==
  ASSUME ErrTypeOK, NEW r \in Reports, r \notin occ, occ' = occ \cup {r}
  PROVE  /\ NumberOf(Fingerprint[r])' = NumberOf(Fingerprint[r]) + 1
         /\ \A f : f # Fingerprint[r] => OccurrencesOf(f)' = OccurrencesOf(f)
         /\ OccurrencesOf(Fingerprint[r])'
              = OccurrencesOf(Fingerprint[r]) \cup {r}
<1> DEFINE old == OccurrencesOf(Fingerprint[r])
<1>1. \A f : f # Fingerprint[r] => OccurrencesOf(f)' = OccurrencesOf(f)
  BY DEF OccurrencesOf
<1>2. OccurrencesOf(Fingerprint[r])' = old \cup {r} /\ r \notin old
  BY DEF OccurrencesOf
<1>3. PICK n : n = NumberOf(Fingerprint[r])
  OBVIOUS
<1>4. Cardinality(old \cup {r}) = Cardinality(old) + 1
  <2>1. IsFiniteSet(old)
    BY OccurrencesFinite, Zenon
  <2> HIDE DEF old
  <2> QED
    BY <1>2, <2>1, FS_AddElement, Zenon
<1>5. NumberOf(Fingerprint[r])' = NumberOf(Fingerprint[r]) + 1
  BY <1>2, <1>4, Zenon DEF NumberOf
<1> QED
  BY <1>1, <1>2, <1>5, Zenon

\* A report moves on to pc, with what it has read.
LEMMA ReportGoto ==
  ASSUME report \in [Reports -> ReportRows], NEW r \in Reports,
         NEW pc \in {"idle", "read", "flushed"} \cup Outcomes,
         report' = [report EXCEPT ![r].pc = pc]
  PROVE  /\ report' \in [Reports -> ReportRows]
         /\ report'[r].pc = pc /\ report'[r].seen = report[r].seen
         /\ \A s \in Reports : s # r => report'[s] = report[s]
         /\ \A s \in Reports : report'[s].seen = report[s].seen
<1>1. report[r] \in ReportRows
  OBVIOUS
<1>2. PICK new : new = [report[r] EXCEPT !.pc = pc]
  OBVIOUS
<1>3. new \in ReportRows /\ new.pc = pc /\ new.seen = report[r].seen
  BY <1>1, <1>2 DEF ReportRows
<1>4. report' = [report EXCEPT ![r] = new]
  BY <1>2
<1> QED
  BY <1>3, <1>4

\* The occurrences stay what they are to an issue when the reports that have
\* one keep what they have read.
LEMMA SameOccurrences ==
  ASSUME UNCHANGED occ,
         \A s \in Reports : s \in occ => report'[s].seen = report[s].seen,
         occ \subseteq Reports
  PROVE  \A f : /\ OccurrencesOf(f)' = OccurrencesOf(f)
                /\ NumberOf(f)' = NumberOf(f) /\ FirstOf(f)' = FirstOf(f)
<1> TAKE f
<1>1. OccurrencesOf(f)' = OccurrencesOf(f)
  BY DEF OccurrencesOf
<1>2. FirstOf(f)' = FirstOf(f)
  BY <1>1 DEF FirstOf, OccurrencesOf
<1> QED
  BY <1>1, <1>2 DEF NumberOf

LEMMA ErrInit == Server!Init => ErrInv
<1> SUFFICES ASSUME Server!Init  PROVE ErrInv
  OBVIOUS
<1>1. PICK done \in SUBSET Earlier :
        /\ \A r, s \in done : Fingerprint[r] = Fingerprint[s] => r = s
        /\ issue = [f \in Fingerprints |->
                      IF \E r \in done : Fingerprint[r] = f
                        THEN [status |-> "open", count |-> 1] ELSE None]
        /\ occ = done
        /\ report = [r \in Reports |->
                       [pc |-> IF r \in done THEN "told"
                               ELSE IF r \in Earlier THEN "done" ELSE "idle",
                        seen |-> None]]
        /\ op = [o \in Operators |-> Server!Idle]
        /\ lapped = {}
        /\ resolves = [f \in Fingerprints |-> 0]
        /\ epoch = [r \in Reports |-> 0]
  BY DEF Server!Init
<1>2. ErrTypeOK
  <2>1. issue \in [Fingerprints -> IssueRows]
    BY <1>1 DEF IssueRows, Server!Issue, Server!Statuses
  <2>2. report \in [Reports -> ReportRows]
    BY <1>1 DEF ReportRows, IssueRows, Outcomes
  <2>3. op \in [Operators -> [pc : {"idle", "read", "done"},
                              seen : Server!Statuses \cup {None},
                              new : Server!Statuses,
                              on : Fingerprints \cup {None}]]
    BY <1>1 DEF Server!Idle, Server!Statuses
  <2> QED
    BY <1>1, <2>1, <2>2, <2>3 DEF ErrTypeOK, Reports
<1>3. ASSUME NEW r \in Reports
      PROVE  /\ Occurs(r) /\ Inserts(r) /\ Read(r)
             /\ epoch[r] <= resolves[Fingerprint[r]]
  BY <1>1, <1>3, FingerprintType DEF Occurs, Inserts, Read
<1>4. ASSUME NEW f \in Fingerprints
      PROVE  Alone(f) /\ HasFirst(f) /\ Counted(f)
  <2>1. Alone(f)
    BY <1>1 DEF Alone
  <2>2. CASE \E r \in done : Fingerprint[r] = f
    <3>1. PICK r \in done : Fingerprint[r] = f
      BY <2>2
    <3>2. OccurrencesOf(f) = {r} /\ FirstOf(f) = {r} /\ r \in Reports
      BY <1>1, <3>1 DEF OccurrencesOf, FirstOf, Reports
    <3>3. NumberOf(f) = 1
      BY <3>2, FS_Singleton DEF NumberOf
    <3>4. issue[f] = [status |-> "open", count |-> 1]
      BY <1>1, <2>2
    <3>5. issue[f] # None
      BY <3>4, ReportsAssumption DEF Server!Issue, Server!Statuses
    <3> QED
      BY <2>1, <3>2, <3>3, <3>4, <3>5 DEF HasFirst, Counted
  <2>3. CASE ~\E r \in done : Fingerprint[r] = f
    BY <1>1, <2>1, <2>3 DEF HasFirst, Counted, OccurrencesOf
  <2> QED
    BY <2>2, <2>3
<1>5. \A o \in Operators : AtOperator(o)
  BY <1>1 DEF AtOperator, Server!Idle
<1>6. ResolvedIsQuiet
  <2>1. \A f \in Fingerprints : issue[f] # None => issue[f].status = "open"
    BY <1>1
  <2> QED
    BY <2>1 DEF ResolvedIsQuiet
<1> QED
  BY <1>2, <1>3, <1>4, <1>5, <1>6 DEF ErrInv

\* A step that touches no report and no issue.
LEMMA Untouched ==
  ErrInv /\ UNCHANGED <<issue, occ, report, op, lapped, resolves, epoch>>
    => ErrInv'
<1> SUFFICES ASSUME ErrInv, UNCHANGED <<issue, occ, report, op, lapped,
                                       resolves, epoch>>
             PROVE  ErrInv'
  OBVIOUS
<1>1. ErrTypeOK /\ ErrTypeOK'
  BY DEF ErrInv, ErrTypeOK
<1>2. \A g : /\ OccurrencesOf(g)' = OccurrencesOf(g)
             /\ NumberOf(g)' = NumberOf(g) /\ FirstOf(g)' = FirstOf(g)
  BY <1>1, SameOccurrences DEF ErrTypeOK
<1>3. ASSUME NEW r \in Reports
      PROVE  /\ Occurs(r)' /\ Inserts(r)' /\ Read(r)'
             /\ epoch'[r] <= resolves'[Fingerprint[r]]
  BY <1>2 DEF ErrInv, Occurs, Inserts, Read
<1>4. ASSUME NEW g \in Fingerprints
      PROVE  Alone(g)' /\ HasFirst(g)' /\ Counted(g)'
  BY <1>2 DEF ErrInv, Alone, HasFirst, Counted
<1>5. (\A o \in Operators : AtOperator(o)') /\ ResolvedIsQuiet'
  BY <1>2 DEF ErrInv, AtOperator, ResolvedIsQuiet
<1> QED
  BY <1>1, <1>3, <1>4, <1>5 DEF ErrInv

LEMMA SelectStep ==
  ASSUME ErrInv, NEW r \in Reports, Server!ReportSelect(r)
  PROVE  ErrInv'
<1> DEFINE f == Fingerprint[r]
<1>1. /\ report[r].pc = "idle"
      /\ report' = [report EXCEPT ![r] = [pc |-> "read", seen |-> issue[f]]]
      /\ lapped' = IF Server!Under(f) = {} THEN lapped ELSE lapped \cup {f}
      /\ epoch' = [epoch EXCEPT ![r] = resolves[f]]
      /\ UNCHANGED <<issue, occ, op, resolves>>
  BY DEF Server!ReportSelect
<1>t. ErrTypeOK
  BY DEF ErrInv
<1>2. f \in Fingerprints /\ issue[f] \in IssueRows /\ resolves[f] \in Nat
  BY <1>t, FingerprintType DEF ErrTypeOK
<1>3. /\ report' \in [Reports -> ReportRows]
      /\ report'[r] = [pc |-> "read", seen |-> issue[f]]
      /\ \A s \in Reports : s # r => report'[s] = report[s]
  <2>1. [pc |-> "read", seen |-> issue[f]] \in ReportRows
    BY <1>2 DEF ReportRows
  <2> HIDE DEF f
  <2> QED
    BY <1>t, <1>1, <2>1 DEF ErrTypeOK
<1>4. /\ epoch' \in [Reports -> Nat] /\ epoch'[r] = resolves[f]
      /\ \A s \in Reports : s # r => epoch'[s] = epoch[s]
  BY <1>t, <1>1, <1>2 DEF ErrTypeOK
<1>5. lapped \subseteq lapped' /\ lapped' \subseteq Fingerprints
  BY <1>t, <1>1, <1>2 DEF ErrTypeOK
<1>6. r \notin occ
  BY <1>1 DEF ErrInv, Occurs
<1>7. ErrTypeOK'
  BY <1>t, <1>1, <1>3, <1>4, <1>5 DEF ErrTypeOK
<1>8. \A g : /\ OccurrencesOf(g)' = OccurrencesOf(g)
             /\ NumberOf(g)' = NumberOf(g) /\ FirstOf(g)' = FirstOf(g)
  BY <1>t, <1>1, <1>3, <1>6, SameOccurrences DEF ErrTypeOK
<1>9. ASSUME NEW s \in Reports
      PROVE  /\ Occurs(s)' /\ Inserts(s)'
             /\ epoch'[s] <= resolves'[Fingerprint[s]]
  <2>1. Occurs(s)' /\ Inserts(s)'
    BY <1>1, <1>3, <1>6 DEF ErrInv, Occurs, Inserts
  <2>2. epoch'[s] <= resolves'[Fingerprint[s]]
    BY <1>1, <1>2, <1>4 DEF ErrInv
  <2> QED
    BY <2>1, <2>2
<1>10. ASSUME NEW s \in Reports  PROVE Read(s)'
  <2>1. CASE s # r
    <3>1. Read(s)
      BY DEF ErrInv
    <3> QED
      BY <1>1, <1>3, <1>4, <1>5, <1>8, <2>1, <3>1 DEF Read
  <2>2. CASE s = r
    <3>1. ASSUME issue[f] # None
          PROVE  issue[f].count \in 1..NumberOf(f)
      BY <1>2, <3>1 DEF ErrInv, Counted
    <3> QED
      BY <1>1, <1>3, <1>8, <2>2, <3>1 DEF Read
  <2> QED
    BY <2>1, <2>2
<1>11. ASSUME NEW g \in Fingerprints
       PROVE  Alone(g)' /\ HasFirst(g)' /\ Counted(g)'
  <2>1. Alone(g)'
    <3>1. Alone(g)
      BY DEF ErrInv
    <3>2. CASE g # f
      BY <1>3, <1>5, <3>1, <3>2 DEF Alone
    <3>3. CASE g = f /\ Server!Under(f) = {}
      <4>1. \A s \in Reports :
              Fingerprint[s] = f /\ s # r =>
                report'[s].pc \notin {"read", "flushed"}
        BY <1>3, <3>3 DEF Server!Under
      <4> QED
        BY <3>3, <4>1 DEF Alone
    <3>4. CASE g = f /\ Server!Under(f) # {}
      BY <1>1, <3>4 DEF Alone
    <3> QED
      BY <3>2, <3>3, <3>4
  <2>2. HasFirst(g)' /\ Counted(g)'
    <3>1. HasFirst(g) /\ Counted(g)
      BY DEF ErrInv
    <3> QED
      BY <1>1, <1>5, <1>8, <3>1 DEF HasFirst, Counted
  <2> QED
    BY <2>1, <2>2
<1>12. \A o \in Operators : AtOperator(o)'
  BY <1>1 DEF ErrInv, AtOperator
<1>13. ResolvedIsQuiet'
  <2>1. \A g : \A s \in OccurrencesOf(g) : s \in Reports /\ s # r
    BY <1>t, <1>6 DEF ErrTypeOK, OccurrencesOf
  <2> QED
    BY <1>1, <1>4, <1>8, <2>1 DEF ErrInv, ResolvedIsQuiet
<1> QED
  BY <1>7, <1>9, <1>10, <1>11, <1>12, <1>13 DEF ErrInv

\* A report without an occurrence moves on to a pc at which it has none (its
\* flush, or its failure), or a committed one to the fate of its alert.
LEMMA FlushStep ==
  ASSUME ErrInv, NEW r \in Reports,
         NEW pc \in {"flushed", "collided", "failed", "told", "cut"},
         report' = [report EXCEPT ![r].pc = pc],
         \/ report[r].pc \in {"read", "flushed"} /\ pc \notin {"told", "cut"}
         \/ report[r].pc = "committed" /\ pc \in {"told", "cut"},
         pc = "flushed" =>
           /\ report[r].seen = None /\ Server!Inserting(Fingerprint[r]) = {}
           /\ issue[Fingerprint[r]] = None
           /\ report[r].pc = "read",
         UNCHANGED <<issue, occ, op, lapped, resolves, epoch>>
  PROVE  ErrInv'
<1>t. ErrTypeOK
  BY DEF ErrInv
<1>1. /\ report' \in [Reports -> ReportRows]
      /\ report'[r].pc = pc /\ report'[r].seen = report[r].seen
      /\ \A s \in Reports : s # r => report'[s] = report[s]
      /\ \A s \in Reports : report'[s].seen = report[s].seen
  BY <1>t, ReportGoto DEF ErrTypeOK, Outcomes
<1>2. ErrTypeOK'
  BY <1>t, <1>1 DEF ErrTypeOK
<1>3. \A g : /\ OccurrencesOf(g)' = OccurrencesOf(g)
             /\ NumberOf(g)' = NumberOf(g) /\ FirstOf(g)' = FirstOf(g)
  BY <1>t, <1>1, SameOccurrences DEF ErrTypeOK
<1>4. ASSUME NEW s \in Reports
      PROVE  /\ Occurs(s)' /\ Read(s)'
             /\ epoch'[s] <= resolves'[Fingerprint[s]]
  <2>1. Occurs(s) /\ Read(s) /\ epoch[s] <= resolves[Fingerprint[s]]
    BY DEF ErrInv
  <2>2. Occurs(s)'
    BY <1>1, <2>1 DEF Occurs
  <2>3. Read(s)'
    BY <1>1, <1>3, <2>1 DEF Read
  <2> QED
    BY <2>1, <2>2, <2>3
<1>5. ASSUME NEW s \in Reports  PROVE Inserts(s)'
  <2>1. Inserts(s)
    BY DEF ErrInv
  <2>2. CASE pc # "flushed"
    BY <1>1, <2>1, <2>2 DEF Inserts
  <2>3. CASE pc = "flushed"
    <3>1. \A q \in Reports : Fingerprint[q] = Fingerprint[r] =>
            report[q].pc # "flushed"
      BY <2>3 DEF Server!Inserting, Server!Under
    <3> QED
      BY <1>1, <2>1, <2>3, <3>1 DEF Inserts
  <2> QED
    BY <2>2, <2>3
<1>6. ASSUME NEW g \in Fingerprints
      PROVE  Alone(g)' /\ HasFirst(g)' /\ Counted(g)'
  <2>1. Alone(g) /\ HasFirst(g) /\ Counted(g)
    BY DEF ErrInv
  <2>2. Alone(g)'
    BY <1>1, <2>1 DEF Alone
  <2> QED
    BY <1>3, <2>1, <2>2 DEF HasFirst, Counted
<1>7. \A o \in Operators : AtOperator(o)'
  BY DEF ErrInv, AtOperator
<1>8. ResolvedIsQuiet'
  BY <1>3 DEF ErrInv, ResolvedIsQuiet
<1> QED
  BY <1>2, <1>4, <1>5, <1>6, <1>7, <1>8 DEF ErrInv

LEMMA InsertStep ==
  ASSUME ErrInv, NEW r \in Reports, Server!ReportInsert(r)
  PROVE  ErrInv'
<1> DEFINE f == Fingerprint[r]
<1>1. /\ report[r].pc = "flushed"
      /\ issue' = [issue EXCEPT ![f] = [status |-> "open", count |-> 1]]
      /\ occ' = occ \cup {r}
      /\ report' = [report EXCEPT ![r].pc = "committed"]
      /\ UNCHANGED <<op, lapped, resolves, epoch>>
  BY DEF Server!ReportInsert, Server!Goto
<1>t. ErrTypeOK
  BY DEF ErrInv
<1>2. /\ f \in Fingerprints /\ issue[f] = None /\ report[r].seen = None
      /\ r \notin occ /\ OccurrencesOf(f) = {}
      /\ \A s \in Reports :
           Fingerprint[s] = f /\ report[s].pc = "flushed" => s = r
  BY <1>1, FingerprintType DEF ErrInv, Inserts, Occurs, HasFirst
<1>3. /\ report' \in [Reports -> ReportRows]
      /\ report'[r].pc = "committed" /\ report'[r].seen = report[r].seen
      /\ \A s \in Reports : s # r => report'[s] = report[s]
      /\ \A s \in Reports : report'[s].seen = report[s].seen
  BY <1>t, <1>1, ReportGoto DEF ErrTypeOK, Outcomes
<1>4. /\ [status |-> "open", count |-> 1] \in Server!Issue
      /\ [status |-> "open", count |-> 1] # None
  BY ReportsAssumption DEF Server!Issue, Server!Statuses
<1>5. /\ issue' \in [Fingerprints -> IssueRows]
      /\ issue'[f] = [status |-> "open", count |-> 1] /\ issue'[f] # None
      /\ \A g \in Fingerprints : g # f => issue'[g] = issue[g]
  <2>1. [status |-> "open", count |-> 1] \in IssueRows
    BY <1>4 DEF IssueRows
  <2> HIDE DEF f
  <2> QED
    BY <1>t, <1>1, <1>2, <1>4, <2>1 DEF ErrTypeOK
<1>6. /\ NumberOf(f)' = NumberOf(f) + 1
      /\ \A g : g # f => OccurrencesOf(g)' = OccurrencesOf(g)
      /\ OccurrencesOf(f)' = OccurrencesOf(f) \cup {r}
  BY <1>t, <1>1, <1>2, OneOccurrence
<1>7. NumberOf(f) = 0 /\ NumberOf(f)' = 1 /\ OccurrencesOf(f)' = {r}
  <2>1. NumberOf(f) = 0
    BY <1>2, FS_EmptySet DEF NumberOf
  <2> QED
    BY <1>2, <1>6, <2>1
<1>8. \A g : g # f => NumberOf(g)' = NumberOf(g) /\ FirstOf(g)' = FirstOf(g)
  <2> TAKE g
  <2> HAVE g # f
  <2>1. /\ OccurrencesOf(g)' = OccurrencesOf(g)
        /\ OccurrencesOf(g) \subseteq Reports
    BY <1>t, <1>6 DEF OccurrencesOf, ErrTypeOK
  <2> QED
    BY <1>3, <2>1 DEF NumberOf, FirstOf
<1>9. FirstOf(f)' = {r}
  BY <1>2, <1>3, <1>7 DEF FirstOf
<1>10. ErrTypeOK'
  BY <1>t, <1>1, <1>3, <1>5 DEF ErrTypeOK
<1>11. ASSUME NEW s \in Reports
       PROVE  /\ Occurs(s)' /\ Inserts(s)' /\ Read(s)'
              /\ epoch'[s] <= resolves'[Fingerprint[s]]
  <2>1. /\ Occurs(s) /\ Inserts(s) /\ Read(s)
        /\ epoch[s] <= resolves[Fingerprint[s]]
        /\ Fingerprint[s] \in Fingerprints
    BY FingerprintType DEF ErrInv
  <2>2. Occurs(s)'
    BY <1>1, <1>3, <2>1 DEF Occurs
  <2>3. Inserts(s)'
    <3>1. CASE Fingerprint[s] = f
      BY <1>2, <1>3, <3>1 DEF Inserts
    <3>2. CASE Fingerprint[s] # f
      BY <1>3, <1>5, <2>1, <3>2 DEF Inserts
    <3> QED
      BY <3>1, <3>2
  <2>4. Read(s)'
    <3>1. CASE Fingerprint[s] = f
      <4>1. ~(report[s].pc = "read" /\ report[s].seen # None)
        BY <1>2, <2>1, <3>1 DEF Read
      <4> QED
        BY <1>3, <4>1 DEF Read
    <3>2. CASE Fingerprint[s] # f
      BY <1>1, <1>3, <1>5, <1>8, <2>1, <3>2 DEF Read
    <3> QED
      BY <3>1, <3>2
  <2> QED
    BY <1>1, <2>1, <2>2, <2>3, <2>4
<1>12. ASSUME NEW g \in Fingerprints
       PROVE  Alone(g)' /\ HasFirst(g)' /\ Counted(g)'
  <2>1. Alone(g) /\ HasFirst(g) /\ Counted(g)
    BY DEF ErrInv
  <2>2. Alone(g)'
    BY <1>1, <1>3, <2>1 DEF Alone
  <2>3. CASE g = f
    BY <1>5, <1>7, <1>9, <2>2, <2>3 DEF HasFirst, Counted
  <2>4. CASE g # f
    BY <1>1, <1>5, <1>6, <1>8, <2>1, <2>2, <2>4 DEF HasFirst, Counted
  <2> QED
    BY <2>3, <2>4
<1>13. \A o \in Operators : AtOperator(o)'
  <2> HIDE DEF f
  <2> QED
    BY <1>1, <1>5 DEF ErrInv, AtOperator
<1>14. ResolvedIsQuiet'
  <2> SUFFICES ASSUME NEW g \in Fingerprints,
                      issue'[g] # None, issue'[g].status = "resolved"
               PROVE  \A s \in OccurrencesOf(g)' : epoch'[s] < resolves'[g]
    BY DEF ResolvedIsQuiet
  <2>1. g # f
    BY <1>5
  <2> QED
    BY <1>1, <1>5, <1>6, <2>1 DEF ErrInv, ResolvedIsQuiet
<1> QED
  BY <1>10, <1>11, <1>12, <1>13, <1>14 DEF ErrInv

LEMMA IssueUpdate ==
  ASSUME NEW row \in Server!Issue, NEW count \in Nat,
         NEW status \in Server!Statuses
  PROVE  [row EXCEPT !.count = count, !.status = status]
           = [status |-> status, count |-> count]
<1> DEFINE first == [row EXCEPT !.count = count]
<1>1. first \in Server!Issue /\ first.count = count
  BY DEF Server!Issue
<1>2. [row EXCEPT !.count = count, !.status = status]
        = [first EXCEPT !.status = status]
  BY Zenon
<1> HIDE DEF first
<1> QED
  BY <1>1, <1>2 DEF Server!Issue

LEMMA UpdateStep ==
  ASSUME ErrInv, NEW r \in Reports, Server!ReportUpdate(r)
  PROVE  ErrInv'
<1> DEFINE f == Fingerprint[r]
           n == report[r].seen.count + 1
           status == IF report[r].seen.status = "resolved" THEN "open"
                     ELSE issue[f].status
           pc == IF report[r].seen.status = "resolved" THEN "committed"
                 ELSE "done"
<1>1. /\ report[r].pc = "read" /\ report[r].seen # None
      /\ issue' = [issue EXCEPT ![f].count = n, ![f].status = status]
      /\ occ' = occ \cup {r}
      /\ report' = [report EXCEPT ![r].pc = pc]
      /\ UNCHANGED <<op, lapped, resolves, epoch>>
  BY DEF Server!ReportUpdate, Server!Goto, Server!IsRegression
<1>t. ErrTypeOK
  BY DEF ErrInv
<1>2. /\ f \in Fingerprints /\ issue[f] # None /\ r \notin occ
      /\ report[r].seen.count \in 1..NumberOf(f)
      /\ f \notin lapped => report[r].seen.count = issue[f].count
      /\ issue[f].status = "resolved" /\ report[r].seen.status # "resolved" =>
           epoch[r] < resolves[f]
  BY <1>1, FingerprintType DEF ErrInv, Occurs, Read
<1>3. /\ report' \in [Reports -> ReportRows]
      /\ report'[r].pc = pc /\ report'[r].seen = report[r].seen
      /\ \A s \in Reports : s # r => report'[s] = report[s]
      /\ \A s \in Reports : report'[s].seen = report[s].seen
  <2>1. pc \in {"committed", "done"}
    OBVIOUS
  <2> HIDE DEF pc
  <2> QED
    BY <1>t, <1>1, <2>1, ReportGoto DEF ErrTypeOK, Outcomes
<1>4. NumberOf(f) \in Nat /\ n \in Nat /\ n \in 1..(NumberOf(f) + 1)
  <2>1. NumberOf(f) \in Nat
    BY <1>t, OccurrencesFinite
  <2> QED
    BY <1>2, <2>1
<1>5. issue[f] \in Server!Issue /\ status \in Server!Statuses
  <2>1. issue[f] \in Server!Issue
    BY <1>t, <1>2 DEF ErrTypeOK, IssueRows
  <2> QED
    BY <2>1 DEF Server!Issue, Server!Statuses
<1>p. pc \in {"committed", "done"}
  OBVIOUS
<1>o. issue[f].status = "resolved" => status \in {"open", "resolved"}
  OBVIOUS
<1>q. status = "resolved" =>
        issue[f].status = "resolved" /\ report[r].seen.status # "resolved"
  OBVIOUS
<1> HIDE DEF n, status, pc
<1>6. PICK new : new = [status |-> status, count |-> n]
  OBVIOUS
<1>7. issue' = [issue EXCEPT ![f] = new] /\ new \in Server!Issue /\ new # None
  <2>1. new = [issue[f] EXCEPT !.count = n, !.status = status]
    BY <1>4, <1>5, <1>6, IssueUpdate
  <2>2. new \in Server!Issue
    BY <1>4, <1>5, <1>6 DEF Server!Issue
  <2>3. new # None
    BY <2>2, ReportsAssumption
  <2>4. issue \in [Fingerprints -> IssueRows]
    BY <1>t DEF ErrTypeOK
  <2> HIDE DEF f
  <2>5. issue' = [issue EXCEPT ![f] = new]
    BY <1>1, <1>2, <2>1, <2>4
  <2> QED
    BY <2>2, <2>3, <2>5
<1>8. /\ issue' \in [Fingerprints -> IssueRows]
      /\ issue'[f] = new /\ new.status = status /\ new.count = n
      /\ \A g \in Fingerprints : g # f => issue'[g] = issue[g]
  <2>1. new \in IssueRows
    BY <1>7 DEF IssueRows
  <2>2. new.status = status /\ new.count = n
    BY <1>6
  <2> HIDE DEF f
  <2> QED
    BY <1>t, <1>2, <1>7, <2>1, <2>2 DEF ErrTypeOK
<1>9. /\ NumberOf(f)' = NumberOf(f) + 1
      /\ \A g : g # f => OccurrencesOf(g)' = OccurrencesOf(g)
      /\ OccurrencesOf(f)' = OccurrencesOf(f) \cup {r}
  BY <1>t, <1>1, <1>2, OneOccurrence
<1>10. \A g : /\ FirstOf(g)' = FirstOf(g)
              /\ g # f => NumberOf(g)' = NumberOf(g)
  <2> TAKE g
  <2>1. OccurrencesOf(g) \subseteq Reports
    BY <1>t DEF OccurrencesOf, ErrTypeOK
  <2>2. CASE g = f
    BY <1>1, <1>3, <1>9, <2>1, <2>2 DEF FirstOf
  <2>3. CASE g # f
    BY <1>3, <1>9, <2>1, <2>3 DEF FirstOf, NumberOf
  <2> QED
    BY <2>2, <2>3
<1>11. ErrTypeOK'
  BY <1>t, <1>1, <1>3, <1>8 DEF ErrTypeOK
<1>12. ASSUME NEW s \in Reports
       PROVE  /\ Occurs(s)' /\ Inserts(s)'
              /\ epoch'[s] <= resolves'[Fingerprint[s]]
  <2>1. /\ Occurs(s) /\ Inserts(s)
        /\ epoch[s] <= resolves[Fingerprint[s]]
        /\ Fingerprint[s] \in Fingerprints
    BY FingerprintType DEF ErrInv
  <2>2. Occurs(s)'
    BY <1>1, <1>3, <1>p, <2>1 DEF Occurs
  <2>3. Inserts(s)'
    <3>1. report[s].pc = "flushed" => Fingerprint[s] # f
      BY <1>2, <2>1 DEF Inserts
    <3> QED
      BY <1>3, <1>8, <1>p, <2>1, <3>1 DEF Inserts
  <2> QED
    BY <1>1, <2>1, <2>2, <2>3
<1>13. ASSUME NEW s \in Reports  PROVE Read(s)'
  <2>1. Read(s) /\ Fingerprint[s] \in Fingerprints /\ Alone(f)
    BY <1>2, FingerprintType DEF ErrInv
  <2>2. CASE s = r
    BY <1>3, <1>p, <2>2 DEF Read
  <2>3. CASE s # r /\ Fingerprint[s] # f
    BY <1>1, <1>3, <1>8, <1>10, <2>1, <2>3 DEF Read
  <2>4. CASE s # r /\ Fingerprint[s] = f
    <3> SUFFICES ASSUME report[s].pc = "read", report[s].seen # None
                 PROVE  /\ report[s].seen.count \in 1..(NumberOf(f) + 1)
                        /\ f \in lapped
                        /\ new.status = "resolved"
                             /\ report[s].seen.status # "resolved" =>
                                epoch[s] < resolves[f]
      BY <1>1, <1>3, <1>7, <1>8, <1>9, <2>4 DEF Read
    <3>1. /\ report[s].seen.count \in 1..NumberOf(f)
          /\ issue[f].status = "resolved" /\ report[s].seen.status # "resolved"
               => epoch[s] < resolves[f]
      BY <2>1, <2>4 DEF Read
    <3>2. f \in lapped
      BY <1>1, <2>1, <2>4 DEF Alone
    <3> QED
      BY <1>4, <1>8, <1>q, <3>1, <3>2
  <2> QED
    BY <2>2, <2>3, <2>4
<1>14. ASSUME NEW g \in Fingerprints
       PROVE  Alone(g)' /\ HasFirst(g)' /\ Counted(g)'
  <2>1. Alone(g) /\ HasFirst(g) /\ Counted(g)
    BY DEF ErrInv
  <2>2. Alone(g)'
    BY <1>1, <1>3, <1>p, <2>1 DEF Alone
  <2>3. CASE g = f
    <3>1. HasFirst(g)'
      BY <1>2, <1>7, <1>8, <1>10, <2>1, <2>3 DEF HasFirst
    <3>2. f \notin lapped => n = NumberOf(f) + 1
      BY <1>2, <2>1, <2>3 DEF Counted, n
    <3>3. Counted(g)'
      BY <1>1, <1>4, <1>8, <1>9, <2>3, <3>2 DEF Counted
    <3> QED
      BY <2>2, <3>1, <3>3
  <2>4. CASE g # f
    BY <1>1, <1>8, <1>9, <1>10, <2>1, <2>2, <2>4 DEF HasFirst, Counted
  <2> QED
    BY <2>3, <2>4
<1>15. \A o \in Operators : AtOperator(o)'
  <2> HIDE DEF f
  <2> QED
    BY <1>1, <1>7, <1>8 DEF ErrInv, AtOperator
<1>16. ResolvedIsQuiet'
  <2> SUFFICES ASSUME NEW g \in Fingerprints,
                      issue'[g] # None, issue'[g].status = "resolved",
                      NEW s \in OccurrencesOf(g)'
               PROVE  epoch'[s] < resolves'[g]
    BY DEF ResolvedIsQuiet
  <2>1. CASE g # f
    BY <1>1, <1>8, <1>9, <2>1 DEF ErrInv, ResolvedIsQuiet
  <2>2. CASE g = f /\ s \in OccurrencesOf(f)
    BY <1>1, <1>2, <1>8, <1>q, <2>2 DEF ErrInv, ResolvedIsQuiet
  <2>3. CASE g = f /\ s = r
    BY <1>1, <1>2, <1>8, <1>q, <2>3
  <2> QED
    BY <1>9, <2>1, <2>2, <2>3
<1> QED
  BY <1>11, <1>12, <1>13, <1>14, <1>15, <1>16 DEF ErrInv

LEMMA OpSelectStep ==
  ASSUME ErrInv, NEW o \in Operators, NEW f \in Fingerprints,
         NEW new \in {"resolved", "ignored"}, Server!OpSelect(o, f, new)
  PROVE  ErrInv'
<1>1. /\ issue[f] # None
      /\ op' = [op EXCEPT ![o] = [pc |-> "read", seen |-> issue[f].status,
                                  new |-> new, on |-> f]]
      /\ UNCHANGED <<issue, occ, report, lapped, resolves, epoch>>
  BY DEF Server!OpSelect
<1>t. ErrTypeOK
  BY DEF ErrInv
<1>2. issue[f].status \in Server!Statuses
  BY <1>t, <1>1 DEF ErrTypeOK, IssueRows, Server!Issue
<1>3. PICK row : row = [pc |-> "read", seen |-> issue[f].status,
                        new |-> new, on |-> f]
  OBVIOUS
<1>4. /\ row \in [pc : {"idle", "read", "done"},
                  seen : Server!Statuses \cup {None},
                  new : Server!Statuses, on : Fingerprints \cup {None}]
      /\ row.on = f
  BY <1>2, <1>3 DEF Server!Statuses
<1>5. op' = [op EXCEPT ![o] = row]
  BY <1>1, <1>3
<1>6. ErrTypeOK'
  BY <1>t, <1>1, <1>4, <1>5 DEF ErrTypeOK
<1>7. \A p \in Operators : AtOperator(p)'
  <2>1. op'[o] = row /\ \A p \in Operators : p # o => op'[p] = op[p]
    BY <1>t, <1>5 DEF ErrTypeOK
  <2> QED
    BY <1>1, <1>4, <2>1 DEF ErrInv, AtOperator
<1>8. \A g : /\ OccurrencesOf(g)' = OccurrencesOf(g)
             /\ NumberOf(g)' = NumberOf(g) /\ FirstOf(g)' = FirstOf(g)
  BY <1>t, <1>1, SameOccurrences DEF ErrTypeOK
<1>9. ASSUME NEW r \in Reports
      PROVE  /\ Occurs(r)' /\ Inserts(r)' /\ Read(r)'
             /\ epoch'[r] <= resolves'[Fingerprint[r]]
  BY <1>1, <1>8 DEF ErrInv, Occurs, Inserts, Read
<1>10. ASSUME NEW g \in Fingerprints
       PROVE  Alone(g)' /\ HasFirst(g)' /\ Counted(g)'
  BY <1>1, <1>8 DEF ErrInv, Alone, HasFirst, Counted
<1>11. ResolvedIsQuiet'
  BY <1>1, <1>8 DEF ErrInv, ResolvedIsQuiet
<1> QED
  BY <1>6, <1>7, <1>9, <1>10, <1>11 DEF ErrInv

LEMMA OpCommitStep ==
  ASSUME ErrInv, NEW o \in Operators, Server!OpCommit(o)
  PROVE  ErrInv'
<1>f. PICK f : f = op[o].on
  OBVIOUS
<1>w. PICK writes \in BOOLEAN : writes = (op[o].seen # op[o].new)
  OBVIOUS
<1>s. PICK status : status = IF writes THEN op[o].new ELSE issue[f].status
  OBVIOUS
<1>n. PICK n : n = IF writes /\ op[o].new = "resolved" THEN resolves[f] + 1
                   ELSE resolves[f]
  OBVIOUS
<1>1. /\ op[o].pc = "read"
      /\ op' = [op EXCEPT ![o].pc = "done"]
      /\ issue' = [issue EXCEPT ![f].status = status]
      /\ resolves' = [resolves EXCEPT ![f] = n]
      /\ UNCHANGED <<occ, report, lapped, epoch>>
  BY <1>f, <1>w, <1>s, <1>n DEF Server!OpCommit
<1>t. ErrTypeOK
  BY DEF ErrInv
<1>2. f \in Fingerprints /\ issue[f] # None
  BY <1>f, <1>1 DEF ErrInv, AtOperator
<1>3. /\ issue[f] \in Server!Issue /\ issue[f].status \in Server!Statuses
      /\ op[o].new \in Server!Statuses /\ resolves[f] \in Nat
      /\ issue[f].count \in Nat
  BY <1>t, <1>2 DEF ErrTypeOK, IssueRows, Server!Issue
<1>4. /\ status \in Server!Statuses /\ n \in Nat /\ resolves[f] <= n
      /\ status = "resolved" => issue[f].status = "resolved" \/ n > resolves[f]
  BY <1>s, <1>n, <1>3
<1>5. PICK new : new = [issue[f] EXCEPT !.status = status]
  OBVIOUS
<1>6. /\ new \in Server!Issue /\ new # None
      /\ new.status = status /\ new.count = issue[f].count
  <2>1. /\ new \in Server!Issue
        /\ new.status = status /\ new.count = issue[f].count
    BY <1>3, <1>4, <1>5 DEF Server!Issue
  <2> QED
    BY <2>1, ReportsAssumption
<1>7. /\ issue' \in [Fingerprints -> IssueRows] /\ issue'[f] = new
      /\ \A g \in Fingerprints : g # f => issue'[g] = issue[g]
  <2>1. issue' = [issue EXCEPT ![f] = new]
    BY <1>1, <1>5
  <2>2. new \in IssueRows
    BY <1>6 DEF IssueRows
  <2> QED
    BY <1>t, <1>2, <2>1, <2>2 DEF ErrTypeOK
<1>8. /\ resolves' \in [Fingerprints -> Nat] /\ resolves'[f] = n
      /\ \A g \in Fingerprints : g # f => resolves'[g] = resolves[g]
  BY <1>t, <1>1, <1>2, <1>4 DEF ErrTypeOK
<1>9. /\ op' \in [Operators -> [pc : {"idle", "read", "done"},
                                seen : Server!Statuses \cup {None},
                                new : Server!Statuses,
                                on : Fingerprints \cup {None}]]
      /\ op'[o].pc = "done" /\ \A p \in Operators : p # o => op'[p] = op[p]
  BY <1>t, <1>1 DEF ErrTypeOK
<1>10. ErrTypeOK'
  BY <1>t, <1>1, <1>7, <1>8, <1>9 DEF ErrTypeOK
<1>11. \A g : /\ OccurrencesOf(g)' = OccurrencesOf(g)
              /\ NumberOf(g)' = NumberOf(g) /\ FirstOf(g)' = FirstOf(g)
  BY <1>t, <1>1, SameOccurrences DEF ErrTypeOK
<1>12. \A g \in Fingerprints :
         /\ (issue'[g] = None) = (issue[g] = None)
         /\ issue[g] # None => issue'[g].count = issue[g].count
         /\ resolves[g] \in Nat /\ resolves[g] <= resolves'[g]
         /\ resolves'[g] \in Nat
         /\ issue[g] # None /\ issue'[g].status = "resolved" =>
              issue[g].status = "resolved" \/ resolves[g] < resolves'[g]
  <2> TAKE g \in Fingerprints
  <2>1. resolves[g] \in Nat
    BY <1>t DEF ErrTypeOK
  <2>2. CASE g = f
    BY <1>2, <1>3, <1>4, <1>6, <1>7, <1>8, <2>2
  <2>3. CASE g # f
    BY <1>7, <1>8, <2>1, <2>3
  <2> QED
    BY <2>2, <2>3
<1>13. ASSUME NEW r \in Reports
       PROVE  /\ Occurs(r)' /\ Inserts(r)' /\ Read(r)'
              /\ epoch'[r] <= resolves'[Fingerprint[r]]
  <2>1. /\ Occurs(r) /\ Inserts(r) /\ Read(r)
        /\ epoch[r] <= resolves[Fingerprint[r]] /\ epoch[r] \in Nat
        /\ Fingerprint[r] \in Fingerprints
    BY <1>t, FingerprintType DEF ErrInv, ErrTypeOK
  <2>2. epoch'[r] <= resolves'[Fingerprint[r]]
    BY <1>1, <1>12, <2>1
  <2>3. Occurs(r)' /\ Inserts(r)'
    BY <1>1, <1>12, <2>1 DEF Occurs, Inserts
  <2>4. Read(r)'
    <3> SUFFICES ASSUME report[r].pc = "read", report[r].seen # None
                 PROVE  /\ issue'[Fingerprint[r]] # None
                        /\ report[r].seen.count \in 1..NumberOf(Fingerprint[r])
                        /\ Fingerprint[r] \notin lapped =>
                             report[r].seen.count = issue'[Fingerprint[r]].count
                        /\ issue'[Fingerprint[r]].status = "resolved"
                             /\ report[r].seen.status # "resolved" =>
                                epoch[r] < resolves'[Fingerprint[r]]
      BY <1>1, <1>11 DEF Read
    <3> QED
      BY <1>12, <2>1 DEF Read
  <2> QED
    BY <2>2, <2>3, <2>4
<1>14. ASSUME NEW g \in Fingerprints
       PROVE  Alone(g)' /\ HasFirst(g)' /\ Counted(g)'
  BY <1>1, <1>11, <1>12 DEF ErrInv, Alone, HasFirst, Counted
<1>15. \A p \in Operators : AtOperator(p)'
  BY <1>9, <1>12 DEF ErrInv, AtOperator
<1>16. ResolvedIsQuiet'
  <2> SUFFICES ASSUME NEW g \in Fingerprints,
                      issue'[g] # None, issue'[g].status = "resolved",
                      NEW r \in OccurrencesOf(g)
               PROVE  epoch[r] < resolves'[g]
    BY <1>1, <1>11 DEF ResolvedIsQuiet
  <2>1. /\ issue[g] # None /\ resolves[g] \in Nat /\ resolves'[g] \in Nat
        /\ resolves[g] <= resolves'[g]
        /\ issue[g].status = "resolved" \/ resolves[g] < resolves'[g]
    BY <1>12
  <2>2. r \in Reports /\ Fingerprint[r] = g
    BY <1>t DEF ErrTypeOK, OccurrencesOf
  <2>3. epoch[r] \in Nat /\ epoch[r] <= resolves[g]
    BY <1>t, <2>2 DEF ErrInv, ErrTypeOK
  <2>4. issue[g].status = "resolved" => epoch[r] < resolves[g]
    BY <2>1 DEF ErrInv, ResolvedIsQuiet
  <2> QED
    BY <2>1, <2>3, <2>4
<1> QED
  BY <1>10, <1>13, <1>14, <1>15, <1>16 DEF ErrInv

LEMMA ErrStep == ErrInv /\ [Next]_vars => ErrInv'
<1> SUFFICES ASSUME ErrInv, [Next]_vars  PROVE ErrInv'
  OBVIOUS
<1>1. CASE UNCHANGED server
  BY <1>1, Untouched DEF server
<1>2. CASE Server!Next
  <2>1. ASSUME NEW items \in wire, Server!IngestLogs(items)  PROVE ErrInv'
    BY <2>1, Untouched DEF Server!IngestLogs
  <2>2. CASE Server!Cleanup
    BY <2>2, Untouched DEF Server!Cleanup
  <2>3. ASSUME NEW r \in Reports, Server!ReportStep(r)  PROVE ErrInv'
    <3>1. CASE Server!ReportSelect(r)
      BY <3>1, SelectStep
    <3>2. CASE Server!ReportFlush(r)
      <4>1. PICK pc \in {"flushed", "collided"} :
              /\ report' = [report EXCEPT ![r].pc = pc]
              /\ pc = "flushed" => issue[Fingerprint[r]] = None
        BY <3>2 DEF Server!ReportFlush, Server!Goto
      <4>2. /\ report[r].pc = "read" /\ report[r].seen = None
            /\ Server!Inserting(Fingerprint[r]) = {}
            /\ UNCHANGED <<issue, occ, op, lapped, resolves, epoch>>
        BY <3>2 DEF Server!ReportFlush
      <4> QED
        BY <4>1, <4>2, FlushStep
    <3>3. CASE Server!ReportInsert(r)
      BY <3>3, InsertStep
    <3>4. CASE Server!ReportUpdate(r)
      BY <3>4, UpdateStep
    <3>5. CASE Server!Alert(r)
      BY <3>5, FlushStep DEF Server!Alert, Server!Goto
    <3> QED
      BY <2>3, <3>1, <3>2, <3>3, <3>4, <3>5 DEF Server!ReportStep
  <2>4. ASSUME NEW r \in Reports,
               Server!ReportFails(r) \/ Server!ReportCut(r)
        PROVE  ErrInv'
    BY <2>4, FlushStep DEF Server!ReportFails, Server!ReportCut, Server!Goto
  <2>5. ASSUME NEW o \in Operators, NEW f \in Fingerprints,
               NEW new \in {"resolved", "ignored"}, Server!OpSelect(o, f, new)
        PROVE  ErrInv'
    BY <2>5, OpSelectStep
  <2>6. ASSUME NEW o \in Operators, Server!OpCommit(o)  PROVE ErrInv'
    BY <2>6, OpCommitStep
  <2> QED
    BY <1>2, <2>1, <2>2, <2>3, <2>4, <2>5, <2>6 DEF Server!Next, Server!Serve
<1> QED
  BY <1>1, <1>2 DEF Next, vars, server

LEMMA ErrAlways == Spec => []ErrInv
<1>1. Init => ErrInv
  BY ErrInit DEF Init
<1> QED
  BY <1>1, ErrStep, PTL DEF Spec

\* However many reports find an error without an issue at the same moment
\* (report_error: select, add, flush), one of them makes the issue; it has an
\* alert about a new error to send, has sent it, or was cut short after its
\* commit, and no other one ever has one.
THEOREM OneFirstHolds == Spec => []OneFirst
<1>1. ErrInv => OneFirst
  <2> SUFFICES ASSUME ErrInv, NEW f \in Fingerprints
               PROVE  /\ issue[f] # None => Cardinality(FirstOf(f)) = 1
                      /\ \A r \in FirstOf(f) :
                           report[r].pc \in {"committed", "told", "cut"}
                      /\ \A r \in Reports :
                           /\ Fingerprint[r] = f /\ report[r].seen = None
                           /\ report[r].pc \in {"committed", "told"}
                           => FirstOf(f) = {r}
    <3>1. ErrInv => \A f \in Fingerprints : FirstReports(f) \cap occ = FirstOf(f)
      BY DEF FirstReports, FirstOf, OccurrencesOf, ErrInv, ErrTypeOK
    <3> QED
      BY <3>1 DEF OneFirst, FirstReports
  <2>1. issue[f] # None => \E r \in Reports : FirstOf(f) = {r}
    BY DEF ErrInv, HasFirst
  <2>2. issue[f] # None => Cardinality(FirstOf(f)) = 1
    BY <2>1, FS_Singleton, Zenon
  <2>4. ASSUME NEW r \in FirstOf(f)
        PROVE  report[r].pc \in {"committed", "told", "cut"}
    <3>1. r \in Reports /\ r \in occ /\ report[r].seen = None
      BY DEF FirstOf, OccurrencesOf, ErrInv, ErrTypeOK
    <3>2. Occurs(r) /\ report[r] \in ReportRows
      BY <3>1 DEF ErrInv, ErrTypeOK
    <3> QED
      BY <3>1, <3>2 DEF Occurs, ReportRows, Outcomes
  <2>3. ASSUME NEW r \in Reports, Fingerprint[r] = f, report[r].seen = None,
               report[r].pc \in {"committed", "told"}
        PROVE  FirstOf(f) = {r}
    <3>1. r \in FirstOf(f)
      BY <2>3 DEF ErrInv, Occurs, FirstOf, OccurrencesOf
    <3>2. issue[f] # None
      BY <3>1 DEF ErrInv, HasFirst, FirstOf
    <3> QED
      BY <2>1, <3>1, <3>2
  <2> QED
    BY <2>2, <2>3, <2>4
<1> QED
  BY <1>1, ErrAlways, PTL

\* An issue's count (occurrence_count, read, incremented and written back) is
\* never more than its occurrences, and it is exact as long as no two reports
\* about the issue have overlapped.
THEOREM CountsWithinHolds == Spec => []CountsWithin
<1>1. ErrInv => CountsWithin
  <2> SUFFICES ASSUME ErrInv, NEW f \in Fingerprints
               PROVE  IF issue[f] = None THEN NumberOf(f) = 0
                      ELSE /\ issue[f].count \in 1..NumberOf(f)
                           /\ f \notin lapped => issue[f].count = NumberOf(f)
    BY DEF CountsWithin, NumberOf
  <2>1. HasFirst(f) /\ Counted(f)
    BY DEF ErrInv
  <2> QED
    BY <2>1, FS_EmptySet DEF HasFirst, Counted, NumberOf
<1> QED
  BY <1>1, ErrAlways, PTL

\* A resolved issue has no occurrence whose report began after the resolve took
\* effect (is_regression, computed from the status that was read).
THEOREM ResolvedIsQuietHolds == Spec => []ResolvedIsQuiet
<1>1. ErrInv => ResolvedIsQuiet
  BY DEF ErrInv
<1> QED
  BY <1>1, ErrAlways, PTL

(***************************************************************************)
(* Induction on the natural numbers for a set: what holds at 0 and goes    *)
(* from n to n + 1 holds everywhere.                                       *)
(***************************************************************************)

LEMMA LeastNumber ==
  ASSUME NEW S \in SUBSET Nat, S # {}
  PROVE  \E n \in S : \A m \in S : n <= m
<1> DEFINE less == OpToRel(<, Nat)
<1>1. \A m, n \in Nat : <<m, n>> \in less <=> m < n
  BY DEF OpToRel
<1>2. \E n \in S : \A m \in S : <<m, n>> \notin less
  BY NatLessThanWellFounded, WFMin, Zenon
<1> HIDE DEF less
<1>3. PICK n \in S : \A m \in S : <<m, n>> \notin less
  BY <1>2
<1>4. ASSUME NEW m \in S  PROVE n <= m
  <2>1. ~(m < n) /\ m \in Nat /\ n \in Nat
    BY <1>1, <1>3
  <2> QED
    BY <2>1
<1> QED
  BY <1>4

LEMMA Induction ==
  ASSUME NEW S, 0 \in S, \A n \in Nat : n \in S => n + 1 \in S
  PROVE  Nat \subseteq S
<1> DEFINE out == Nat \ S
<1> SUFFICES ASSUME out # {}  PROVE FALSE
  OBVIOUS
<1>1. PICK n \in out : \A m \in out : n <= m
  BY LeastNumber
<1> QED
  BY <1>1

(***************************************************************************)
(* The places of a sequence, 1..n at most, and the rank of one among them. *)
(***************************************************************************)

PlacesUpTo(n) == SUBSET (1..n)

LEMMA RankFinite ==
  ASSUME NEW n \in Nat, NEW P \in PlacesUpTo(n)
  PROVE  /\ IsFiniteSet(P) /\ Cardinality(P) \in Nat
         /\ \A i : Rank(P, i) \in Nat /\ IsFiniteSet({j \in P : j <= i})
         /\ \A j \in P : j \in Nat /\ 1 <= j /\ j <= n
<1>1. IsFiniteSet(1..n)
  BY FS_Interval
<1>2. \A Q \in SUBSET (1..n) : IsFiniteSet(Q) /\ Cardinality(Q) \in Nat
  BY <1>1, FS_Subset, FS_CardinalityType, Zenon
<1>3. \A i : {j \in P : j <= i} \in SUBSET (1..n)
  BY DEF PlacesUpTo
<1> QED
  BY <1>2, <1>3 DEF Rank, PlacesUpTo

\* Each place has the next higher rank of those before it.
LEMMA RankNext ==
  ASSUME NEW n \in Nat, NEW P \in PlacesUpTo(n), NEW k \in Nat
  PROVE  /\ Rank(P, 0) = 0
         /\ Rank(P, k + 1) = IF k + 1 \in P THEN Rank(P, k) + 1 ELSE Rank(P, k)
         /\ k >= n => Rank(P, k) = Cardinality(P)
<1> DEFINE upto(i) == {j \in P : j <= i}
<1>0. \A j \in P : j \in Nat /\ 1 <= j /\ j <= n
  BY RankFinite
<1>1. upto(0) = {}
  <2>1. \A j \in P : ~(j <= 0)
    BY <1>0
  <2> QED
    BY <2>1
<1>2. ASSUME k >= n  PROVE upto(k) = P
  <2>1. \A j \in P : j <= k
    BY <1>0, <1>2
  <2> QED
    BY <2>1
<1>3. \A j \in P : j <= k + 1 <=> (j <= k \/ j = k + 1)
  BY <1>0
<1>4. k + 1 \notin P => upto(k + 1) = upto(k)
  BY <1>3
<1>5. k + 1 \in P => upto(k + 1) = upto(k) \cup {k + 1}
  BY <1>3
<1>6. k + 1 \notin upto(k)
  BY <1>0
<1>7. IsFiniteSet(upto(k))
  BY RankFinite, Zenon
<1>8. Cardinality(upto(k) \cup {k + 1}) = Cardinality(upto(k)) + 1
  <2> HIDE DEF upto
  <2> QED
    BY <1>6, <1>7, FS_AddElement, Zenon
<1> QED
  BY <1>1, <1>2, <1>4, <1>5, <1>8, FS_EmptySet DEF Rank

LEMMA RankGrows ==
  ASSUME NEW n \in Nat, NEW P \in PlacesUpTo(n),
         NEW i \in Nat, NEW j \in P, i < j
  PROVE  Rank(P, i) < Rank(P, j)
<1>0. \A m \in P : m \in Nat /\ 1 <= m /\ m <= n
  BY RankFinite
<1>1. PICK k \in Nat : j = k + 1
  BY <1>0
<1>2. Rank(P, j) = Rank(P, k) + 1
  BY <1>1, RankNext
<1>3. {m \in P : m <= i} \in SUBSET {m \in P : m <= k}
  <2>1. \A m \in P : m <= i => m <= k
    BY <1>0, <1>1
  <2> QED
    BY <2>1
<1>4. Rank(P, i) <= Rank(P, k)
  BY <1>3, RankFinite, FS_Subset, Zenon DEF Rank
<1>5. Rank(P, i) \in Nat /\ Rank(P, k) \in Nat
  BY RankFinite
<1> QED
  BY <1>2, <1>4, <1>5

\* Every rank is taken.
LEMMA RankTaken ==
  ASSUME NEW n \in Nat, NEW P \in PlacesUpTo(n), NEW r \in 1..Cardinality(P)
  PROVE  \E i \in P : Rank(P, i) = r
<1> DEFINE T == {k \in Nat : r <= Rank(P, k)}
<1>2. n \in T
  BY RankNext, RankFinite
<1>3. PICK k \in T : \A m \in T : k <= m
  BY <1>2, LeastNumber
<1>4. k # 0
  BY RankNext
<1>5. PICK m \in Nat : k = m + 1
  BY <1>4
<1>6. m \notin T
  BY <1>3, <1>5
<1>7. /\ Rank(P, m) < r /\ r <= Rank(P, k) /\ Rank(P, m) \in Nat
      /\ Rank(P, k) = IF k \in P THEN Rank(P, m) + 1 ELSE Rank(P, m)
  <2>1. /\ Rank(P, m) \in Nat
        /\ Rank(P, k) = IF k \in P THEN Rank(P, m) + 1 ELSE Rank(P, m)
    <3>1. Rank(P, m) \in Nat
      BY RankFinite
    <3>2. Rank(P, m + 1)
            = IF m + 1 \in P THEN Rank(P, m) + 1 ELSE Rank(P, m)
      BY RankNext
    <3> QED
      BY <1>5, <3>1, <3>2, Zenon
  <2>2. r \in Nat
    BY RankFinite
  <2> QED
    BY <1>6, <2>1, <2>2
<1> QED
  BY <1>7

(***************************************************************************)
(* A sequence of those s[i] with i \in P, by rank.                         *)
(***************************************************************************)
\* The elements of Picked are those of s, each at its rank.
LEMMA PickedAt ==
  ASSUME NEW n \in Nat, NEW P \in PlacesUpTo(n), NEW s
  PROVE  /\ Picked(s, P) = [r \in 1..Cardinality(P) |-> Picked(s, P)[r]]
         /\ \A i \in P : /\ Rank(P, i) \in 1..Cardinality(P)
                         /\ Picked(s, P)[Rank(P, i)] = s[i]
<1>1. Picked(s, P) = [r \in 1..Cardinality(P) |-> Picked(s, P)[r]]
  <2>1. PICK f : f = [r \in 1..Cardinality(P) |->
                         s[CHOOSE i \in P : Rank(P, i) = r]]
    OBVIOUS
  <2>2. f = [r \in 1..Cardinality(P) |-> f[r]]
    BY <2>1
  <2> QED
    BY <2>1, <2>2 DEF Picked
<1>2. ASSUME NEW i \in P
      PROVE  /\ Rank(P, i) \in 1..Cardinality(P)
             /\ Picked(s, P)[Rank(P, i)] = s[i]
  <2>0. /\ \A j \in P : j \in Nat /\ 1 <= j /\ j <= n
        /\ \A j : Rank(P, j) \in Nat
        /\ Cardinality(P) \in Nat
    BY RankFinite
  <2>1. ASSUME NEW j \in P, Rank(P, j) = Rank(P, i)  PROVE j = i
    <3>1. i < j => Rank(P, i) < Rank(P, j)
      BY <2>0, RankGrows
    <3>2. j < i => Rank(P, j) < Rank(P, i)
      BY <2>0, RankGrows
    <3> QED
      BY <2>0, <2>1, <3>1, <3>2
  <2>2. Rank(P, i) >= 1
    <3>1. Rank(P, 0) < Rank(P, i)
      BY <2>0, RankGrows
    <3>2. Rank(P, 0) \in Nat /\ Rank(P, i) \in Nat
      BY <2>0
    <3> QED
      BY <3>1, <3>2
  <2>3. Rank(P, i) <= Cardinality(P)
    <3>1. {j \in P : j <= i} \in SUBSET P
      OBVIOUS
    <3> QED
      BY <3>1, RankFinite, FS_Subset, Zenon DEF Rank
  <2>4. Rank(P, i) \in 1..Cardinality(P)
    BY <2>0, <2>2, <2>3
  <2>5. i = CHOOSE j \in P : Rank(P, j) = Rank(P, i)
    BY <2>1
  <2> QED
    BY <2>4, <2>5, Zenon DEF Picked
<1> QED
  BY <1>1, <1>2

LEMMA PickedType ==
  ASSUME NEW S, NEW s \in Seq(S), NEW P \in PlacesUpTo(Len(s))
  PROVE  /\ Picked(s, P) \in Seq(S) /\ Len(Picked(s, P)) = Cardinality(P)
         /\ DOMAIN Picked(s, P) = 1..Cardinality(P)
<1> DEFINE m == Len(s)
           c == Cardinality(P)
<1>1. /\ m \in Nat /\ c \in Nat
      /\ \A j \in P : j \in 1..m
  BY RankFinite
<1>2. ASSUME NEW r \in 1..c  PROVE Picked(s, P)[r] \in S
  <2>1. PICK i \in P : Rank(P, i) = r
    BY <1>1, RankTaken
  <2>2. Picked(s, P)[r] = s[i]
    BY <1>1, <2>1, PickedAt
  <2> QED
    BY <1>1, <2>2
<1>3. Picked(s, P) = [r \in 1..c |-> Picked(s, P)[r]]
  BY <1>1, PickedAt
<1>4. PICK q : q = Picked(s, P)
  OBVIOUS
<1>5. q \in [1..c -> S]
  BY <1>2, <1>3, <1>4, Zenon
<1> QED
  BY <1>1, <1>4, <1>5

LEMMA PickedEmpty == \A s : Picked(s, {}) = <<>>
BY FS_EmptySet DEF Picked

\* One element more.
LEMMA PickedAppend ==
  ASSUME NEW S, NEW s \in Seq(S), NEW x \in S, NEW P \in PlacesUpTo(Len(s))
  PROVE  /\ Picked(Append(s, x), P) = Picked(s, P)
         /\ Picked(Append(s, x), P \cup {Len(s) + 1}) = Append(Picked(s, P), x)
<1>1. PICK m \in Nat : m = Len(s)
  OBVIOUS
<1>a. PICK n \in Nat : n = m + 1
  OBVIOUS
<1>2. PICK t \in Seq(S) :
        /\ t = Append(s, x) /\ Len(t) = n /\ t[n] = x
        /\ \A i \in 1..m : t[i] = s[i]
  <2>1. /\ Append(s, x) \in Seq(S) /\ Len(Append(s, x)) = n
        /\ Append(s, x)[n] = x
        /\ \A i \in 1..m : Append(s, x)[i] = s[i]
    BY <1>1, <1>a
  <2> QED
    BY <2>1, Zenon
<1>3. PICK Q : Q = P \cup {n}
  OBVIOUS
<1>4. PICK c \in Nat : c = Cardinality(P)
  BY <1>1, RankFinite
<1>5. /\ P \in PlacesUpTo(m) /\ P \in PlacesUpTo(n) 
      /\ Q \in PlacesUpTo(n) /\ n \notin P /\ IsFiniteSet(P)
      /\ \A j \in P : j \in Nat /\ 1 <= j /\ j <= m
  <2>1. P \in PlacesUpTo(m)
    BY <1>1
  <2>2. \A j \in P : j \in Nat /\ 1 <= j /\ j <= m
    BY <2>1, RankFinite
  <2>3. \A j \in Q : j \in 1..n
    BY <1>a, <1>3, <2>2
  <2> QED
    BY <1>a, <1>3, <2>1, <2>2, <2>3, RankFinite DEF PlacesUpTo
<1>6. PICK old \in Seq(S) : old = Picked(s, P) /\ Len(old) = c
  BY <1>1, <1>4, PickedType
<1>7. Cardinality(Q) = c + 1
  BY <1>3, <1>4, <1>5, FS_AddElement, Zenon
<1>8. ASSUME NEW i \in P  PROVE Rank(Q, i) = Rank(P, i)
  <2>1. ~(n <= i)
    BY <1>a, <1>5
  <2>2. {j \in Q : j <= i} = {j \in P : j <= i}
    BY <1>3, <1>5, <2>1
  <2> QED
    BY <2>2 DEF Rank
<1>9. Rank(Q, n) = c + 1
  <2>1. {j \in Q : j <= n} = Q
    BY <1>a, <1>3, <1>5
  <2> QED
    BY <1>7, <2>1 DEF Rank
<1>10. ASSUME NEW r \in 1..c
       PROVE  /\ old[r] = Picked(t, P)[r]
              /\ old[r] = Picked(t, Q)[r]
  <2>1. PICK i \in P : Rank(P, i) = r
    BY <1>4, <1>5, RankTaken
  <2>2. old[r] = s[i] /\ Picked(t, P)[r] = t[i]
    BY <1>5, <1>6, <2>1, PickedAt
  <2>3. Picked(t, Q)[r] = t[i] 
    <3>1. i \in Q
      BY <1>3
    <3>2. Picked(t, Q)[Rank(Q, i)] = t[i]
      BY <1>5, <3>1, PickedAt
    <3> QED
      BY <1>8, <2>1, <3>2
  <2>4. s[i] = t[i]
    <3>1. i \in 1..m
      BY <1>5
    <3> QED
      BY <1>2, <3>1
  <2> QED
    BY <2>2, <2>3, <2>4
<1>11. Picked(t, P) = old
  <2>1. Picked(t, P) = [r \in 1..c |-> Picked(t, P)[r]]
    BY <1>4, <1>5, PickedAt
  <2>2. old = [r \in 1..c |-> old[r]]
    BY <1>6
  <2> QED
    BY <1>10, <2>1, <2>2
<1>12. Picked(t, Q) = Append(old, x)
  <2>1. Picked(t, Q)[c + 1] = x
    <3>1. n \in Q
      BY <1>3
    <3>2. Picked(t, Q)[Rank(Q, n)] = t[n]
      BY <1>5, <3>1, PickedAt
    <3> QED
      BY <1>2, <1>9, <3>2
  <2>2. PICK q \in Seq(S) : q = Picked(t, Q) /\ Len(q) = c + 1
    BY <1>2, <1>5, <1>7, PickedType
  <2>3. PICK p \in Seq(S) : p = Append(old, x) /\ Len(p) = c + 1
    <3>1. Append(old, x) \in Seq(S) /\ Len(Append(old, x)) = c + 1
      BY <1>6
    <3> QED
      BY <3>1, Zenon
  <2>4. \A r \in 1..(c + 1) : q[r] = p[r]
    BY <1>6, <1>10, <2>1, <2>2, <2>3
  <2> QED
    BY <2>2, <2>3, <2>4, SeqEqual
<1> QED
  BY <1>1, <1>a, <1>2, <1>3, <1>6, <1>11, <1>12

(***************************************************************************)
(* The items of one kind.                                                  *)
(***************************************************************************)

Item == Client!Item

LEMMA OnlyAppend ==
  ASSUME NEW s \in Seq(Item), NEW x \in Item, NEW kind
  PROVE  /\ Only(Append(s, x), kind)
              = IF x.kind = kind THEN Append(Only(s, kind), x) ELSE Only(s, kind)
         /\ Only(s, kind) \in Seq(Item)
<1> DEFINE places(t) == {i \in DOMAIN t : t[i].kind = kind}
<1>1. /\ DOMAIN s = 1..Len(s) /\ DOMAIN Append(s, x) = 1..(Len(s) + 1)
      /\ \A i \in 1..Len(s) : Append(s, x)[i] = s[i]
      /\ Append(s, x)[Len(s) + 1] = x /\ Len(s) \in Nat
  OBVIOUS
<1>2. places(Append(s, x)) = IF x.kind = kind THEN places(s) \cup {Len(s) + 1}
                             ELSE places(s)
  <2>1. 1..(Len(s) + 1) = (1..Len(s)) \cup {Len(s) + 1}
    BY <1>1
  <2> QED
    BY <1>1, <2>1
<1>3. places(s) \in PlacesUpTo(Len(s))
  BY <1>1 DEF PlacesUpTo
<1>4. Only(s, kind) = Picked(s, places(s))
  BY Zenon DEF Only
<1>5. Only(Append(s, x), kind) = Picked(Append(s, x), places(Append(s, x)))
  BY Zenon DEF Only
<1> HIDE DEF places
<1>6. Only(s, kind) \in Seq(Item)
  BY <1>3, <1>4, PickedType
<1>7. /\ Picked(Append(s, x), places(s)) = Only(s, kind)
      /\ Picked(Append(s, x), places(s) \cup {Len(s) + 1}) = Append(Only(s, kind), x)
  <2>1. PICK P \in PlacesUpTo(Len(s)) : P = places(s)
    BY <1>3
  <2>2. /\ Picked(Append(s, x), P) = Picked(s, P)
        /\ Picked(Append(s, x), P \cup {Len(s) + 1}) = Append(Picked(s, P), x)
    BY PickedAppend
  <2> QED
    BY <1>4, <2>1, <2>2
<1>8. CASE x.kind = kind
  BY <1>2, <1>5, <1>6, <1>7, <1>8, Zenon
<1>9. CASE x.kind # kind
  BY <1>2, <1>5, <1>6, <1>7, <1>9, Zenon
<1> QED
  BY <1>8, <1>9, Zenon

LEMMA OnlyType ==
  ASSUME NEW s \in Seq(Item), NEW kind
  PROVE  Only(s, kind) \in Seq(Item)
<1>1. {i \in DOMAIN s : s[i].kind = kind} \in PlacesUpTo(Len(s))
  BY DEF PlacesUpTo
<1> QED
  BY <1>1, PickedType DEF Only

LEMMA LastOfSeq ==
  ASSUME NEW S, NEW n \in Nat, NEW u \in Seq(S), Len(u) = n + 1
  PROVE  \E v \in Seq(S), x \in S : u = Append(v, x) /\ Len(v) = n
<1>1. u # <<>>
  OBVIOUS
<1>2. PICK v \in Seq(S), x \in S : u = Append(v, x)
  BY <1>1, SequenceEmptyOrAppend
<1> QED
  BY <1>2

LEMMA ConcatAppend ==
  ASSUME NEW S, NEW s \in Seq(S), NEW t \in Seq(S), NEW x \in S
  PROVE  s \o Append(t, x) = Append(s \o t, x)
OBVIOUS

LEMMA EmptyType == \A S : <<>> \in Seq(S)
OBVIOUS

LEMMA Associative ==
  ASSUME NEW S, NEW s \in Seq(S), NEW t \in Seq(S), NEW u \in Seq(S)
  PROVE  s \o (t \o u) = s \o t \o u
OBVIOUS

LEMMA OnlyNone ==
  ASSUME NEW s \in Seq(Item), NEW kind, \A i \in DOMAIN s : s[i].kind # kind
  PROVE  Only(s, kind) = <<>>
<1>1. {i \in DOMAIN s : s[i].kind = kind} = {}
  OBVIOUS
<1> QED
  BY <1>1, PickedEmpty DEF Only

\* What holds of the empty sequence and stays so with every element more.
LEMMA OnlyConcat ==
  ASSUME NEW s \in Seq(Item), NEW t \in Seq(Item), NEW kind
  PROVE  Only(s \o t, kind) = Only(s, kind) \o Only(t, kind)
<1> DEFINE S == {n \in Nat : \A u \in Seq(Item) :
                    Len(u) = n =>
                      Only(s \o u, kind) = Only(s, kind) \o Only(u, kind)}
<1>1. 0 \in S
  <2> SUFFICES ASSUME NEW u \in Seq(Item), Len(u) = 0
               PROVE  Only(s \o u, kind) = Only(s, kind) \o Only(u, kind)
    OBVIOUS
  <2>1. u = <<>> /\ s \o u = s
    OBVIOUS
  <2>2. Only(u, kind) = <<>>
    <3>1. \A i \in DOMAIN u : u[i].kind # kind
      BY <2>1
    <3> QED
      BY <3>1, OnlyNone, Zenon
  <2>3. Only(s, kind) \in Seq(Item)
    BY <2>1, OnlyType
  <2> QED
    BY <2>1, <2>2, <2>3
<1>2. ASSUME NEW n \in Nat, n \in S  PROVE n + 1 \in S
  <2> SUFFICES ASSUME NEW u \in Seq(Item), Len(u) = n + 1
               PROVE  Only(s \o u, kind) = Only(s, kind) \o Only(u, kind)
    OBVIOUS
  <2>1. PICK v \in Seq(Item), x \in Item : u = Append(v, x) /\ Len(v) = n
    BY LastOfSeq
  <2>2. s \o u = Append(s \o v, x) /\ s \o v \in Seq(Item)
    BY <2>1
  <2>3. Only(s \o v, kind) = Only(s, kind) \o Only(v, kind)
    BY <1>2, <2>1
  <2>4. Only(s, kind) \in Seq(Item) /\ Only(v, kind) \in Seq(Item)
    BY OnlyType
  <2>5. Only(s, kind) \o Append(Only(v, kind), x)
          = Append(Only(s, kind) \o Only(v, kind), x)
    BY <2>4, ConcatAppend
  <2>6. CASE x.kind = kind
    <3>1. Only(u, kind) = Append(Only(v, kind), x)
      BY <2>1, <2>6, OnlyAppend, Zenon
    <3>2. Only(s \o u, kind) = Append(Only(s \o v, kind), x)
      BY <2>2, <2>6, OnlyAppend, Zenon
    <3> QED
      BY <2>3, <2>5, <3>1, <3>2, Zenon
  <2>7. CASE x.kind # kind
    <3>1. Only(u, kind) = Only(v, kind)
      BY <2>1, <2>7, OnlyAppend, Zenon
    <3>2. Only(Append(s \o v, x), kind) = Only(s \o v, kind)
      BY <2>2, <2>7, OnlyAppend
    <3> QED
      BY <2>2, <2>3, <3>1, <3>2, Zenon
  <2> QED
    BY <2>6, <2>7, Zenon
<1>3. Len(t) \in S
  <2> HIDE DEF S
  <2> QED
    BY <1>1, <1>2, Induction
<1> QED
  BY <1>3

LEMMA OnlyAll ==
  ASSUME NEW t \in Seq(Item), NEW kind, \A i \in DOMAIN t : t[i].kind = kind
  PROVE  Only(t, kind) = t
<1> DEFINE S == {n \in Nat : \A u \in Seq(Item) :
                    Len(u) = n /\ (\A i \in DOMAIN u : u[i].kind = kind) =>
                      Only(u, kind) = u}
<1>1. 0 \in S
  BY OnlyNone
<1>2. ASSUME NEW n \in Nat, n \in S  PROVE n + 1 \in S
  <2> SUFFICES ASSUME NEW u \in Seq(Item), Len(u) = n + 1,
                      \A i \in DOMAIN u : u[i].kind = kind
               PROVE  Only(u, kind) = u
    OBVIOUS
  <2>1. PICK v \in Seq(Item), x \in Item : u = Append(v, x) /\ Len(v) = n
    BY LastOfSeq
  <2>2. x.kind = kind /\ \A i \in DOMAIN v : v[i].kind = kind
    BY <2>1
  <2> QED
    BY <1>2, <2>1, <2>2, OnlyAppend
<1>3. Len(t) \in S
  <2> HIDE DEF S
  <2> QED
    BY <1>1, <1>2, Induction
<1> QED
  BY <1>3

LEMMA OnlySingle ==
  ASSUME NEW x \in Item, NEW kind
  PROVE  Only(<<x>>, kind) = IF x.kind = kind THEN <<x>> ELSE <<>>
<1>1. <<x>> \in Seq(Item) /\ \A i \in DOMAIN <<x>> : <<x>>[i] = x
  OBVIOUS
<1>2. CASE x.kind = kind
  <2>1. \A i \in DOMAIN <<x>> : <<x>>[i].kind = kind
    BY <1>1, <1>2, Zenon
  <2> QED
    BY <1>1, <1>2, <2>1, OnlyAll, Zenon
<1>3. CASE x.kind # kind
  <2>1. \A i \in DOMAIN <<x>> : <<x>>[i].kind # kind
    BY <1>1, <1>3, Zenon
  <2> QED
    BY <1>1, <1>3, <2>1, OnlyNone, Zenon
<1> QED
  BY <1>2, <1>3, Zenon

LEMMA OnlyHead ==
  ASSUME NEW t \in Seq(Item), NEW kind, t # <<>>
  PROVE  Only(t, kind) = IF Head(t).kind = kind
                           THEN <<Head(t)>> \o Only(Tail(t), kind)
                           ELSE Only(Tail(t), kind)
<1>1. /\ Head(t) \in Item /\ Tail(t) \in Seq(Item)
      /\ <<Head(t)>> \in Seq(Item) /\ t = <<Head(t)>> \o Tail(t)
  OBVIOUS
<1>2. Only(t, kind) = Only(<<Head(t)>>, kind) \o Only(Tail(t), kind)
  <2>1. Only(<<Head(t)>> \o Tail(t), kind)
          = Only(<<Head(t)>>, kind) \o Only(Tail(t), kind)
    BY <1>1, OnlyConcat, Zenon
  <2> QED
    BY <1>1, <2>1, Zenon
<1>3. Only(Tail(t), kind) \in Seq(Item)
  BY <1>1, OnlyType
<1>4. <<>> \o Only(Tail(t), kind) = Only(Tail(t), kind)
  BY <1>3
<1>5. CASE Head(t).kind = kind
  BY <1>1, <1>2, <1>5, OnlySingle, Zenon
<1>6. CASE Head(t).kind # kind
  BY <1>1, <1>2, <1>4, <1>6, OnlySingle, Zenon
<1> QED
  BY <1>5, <1>6, Zenon

(***************************************************************************)
(* The handler: emit's threads, the queue and the worker.                  *)
(***************************************************************************)

LogItem == {x \in Item : x.kind = "log"}
ErrorItem == {x \in Item : x.kind = "error"}

Places == {"get", "report", "flush", "final", "ended", "raised", "dead"}

HandTypeOK ==
  /\ emit \in [Records -> {"new", "report", "done"}]
  /\ queue \in Seq(Item)
  /\ batch \in Seq(LogItem)
  /\ hand = <<>> \/ \E x \in ErrorItem : hand = <<x>>
  /\ worker \in Places
  /\ due \in BOOLEAN
  /\ stop \in BOOLEAN
  /\ accepted \in Seq(Item)
  /\ sent \in Seq(Item)

\* A report is in the worker's hand exactly while it is being posted, and a
\* worker that has ended has nothing in its batch.
AtWorker ==
  /\ hand # <<>> <=> worker = "report"
  /\ worker = "ended" => batch = <<>>

InOrder ==
  worker # "dead" =>
    /\ Logs(accepted) = Logs(sent) \o batch \o Logs(queue)
    /\ Errors(accepted) = Errors(sent) \o hand \o Errors(queue)

HandInv == HandTypeOK /\ AtWorker /\ InOrder

LEMMA ItemKinds ==
  /\ \A x \in Item : x.kind \in {"log", "error"}
  /\ \A r \in Records : /\ Client!Log(r) \in LogItem
                       /\ Client!Error(r) \in ErrorItem
BY DEF Item, LogItem, ErrorItem, Client!Item, Client!Log, Client!Error,
       Records, Client!Records

LEMMA KindsDiffer == LogItem \subseteq Item /\ ErrorItem \subseteq Item
BY DEF LogItem, ErrorItem

\* What one more item, and what a batch or a report in hand, is to Logs and
\* Errors.
LEMMA LogsAppend ==
  ASSUME NEW s \in Seq(Item), NEW x \in Item
  PROVE  /\ Logs(s) \in Seq(Item) /\ Errors(s) \in Seq(Item)
         /\ x \in LogItem => /\ Logs(Append(s, x)) = Append(Logs(s), x)
                             /\ Errors(Append(s, x)) = Errors(s)
         /\ x \in ErrorItem => /\ Logs(Append(s, x)) = Logs(s)
                               /\ Errors(Append(s, x)) = Append(Errors(s), x)
<1>1. "log" # "error"
  OBVIOUS
<1>2. Logs(s) \in Seq(Item) /\ Errors(s) \in Seq(Item)
  BY OnlyType DEF Logs, Errors
<1>3. ASSUME x \in LogItem
      PROVE  /\ Logs(Append(s, x)) = Append(Logs(s), x)
             /\ Errors(Append(s, x)) = Errors(s)
  <2>1. x.kind = "log" /\ x.kind # "error"
    BY <1>1, <1>3 DEF LogItem
  <2> QED
    BY <2>1, OnlyAppend DEF Logs, Errors
<1>4. ASSUME x \in ErrorItem
      PROVE  /\ Logs(Append(s, x)) = Logs(s)
             /\ Errors(Append(s, x)) = Append(Errors(s), x)
  <2>1. x.kind = "error" /\ x.kind # "log"
    BY <1>1, <1>4 DEF ErrorItem
  <2> QED
    BY <2>1, OnlyAppend DEF Logs, Errors
<1> QED
  BY <1>2, <1>3, <1>4

LEMMA LogsType ==
  \A s \in Seq(Item) : Logs(s) \in Seq(Item) /\ Errors(s) \in Seq(Item)
BY OnlyType DEF Logs, Errors

LEMMA LogsConcat ==
  ASSUME NEW s \in Seq(Item), NEW t \in Seq(Item)
  PROVE  /\ Logs(s \o t) = Logs(s) \o Logs(t)
         /\ Errors(s \o t) = Errors(s) \o Errors(t)
BY OnlyConcat DEF Logs, Errors

LEMMA LogsOfBatch ==
  ASSUME NEW b \in Seq(LogItem)
  PROVE  b \in Seq(Item) /\ Logs(b) = b /\ Errors(b) = <<>>
<1>1. b \in Seq(Item)
  BY KindsDiffer
<1>2. \A i \in DOMAIN b : b[i].kind = "log"
  BY DEF LogItem
<1>3. \A i \in DOMAIN b : b[i].kind # "error"
  BY <1>2
<1> QED
  BY <1>1, <1>2, <1>3, OnlyAll, OnlyNone, Zenon DEF Logs, Errors

LEMMA ErrorsOfReport ==
  ASSUME NEW x \in ErrorItem
  PROVE  <<x>> \in Seq(Item) /\ Logs(<<x>>) = <<>> /\ Errors(<<x>>) = <<x>>
<1>1. x \in Item /\ x.kind = "error"
  BY DEF ErrorItem
<1>2. x.kind # "log"
  BY <1>1
<1> QED
  BY <1>1, <1>2, OnlySingle DEF Logs, Errors

LEMMA LogsHead ==
  ASSUME NEW t \in Seq(Item), t # <<>>
  PROVE  /\ Head(t) \in LogItem =>
              /\ Logs(t) = <<Head(t)>> \o Logs(Tail(t))
              /\ Errors(t) = Errors(Tail(t))
         /\ Head(t) \in ErrorItem =>
              /\ Logs(t) = Logs(Tail(t))
              /\ Errors(t) = <<Head(t)>> \o Errors(Tail(t))
<1>1. ASSUME Head(t) \in LogItem
      PROVE  /\ Logs(t) = <<Head(t)>> \o Logs(Tail(t))
             /\ Errors(t) = Errors(Tail(t))
  <2>1. Head(t).kind = "log" /\ Head(t).kind # "error"
    BY <1>1 DEF LogItem
  <2> QED
    BY <2>1, OnlyHead DEF Logs, Errors
<1>2. ASSUME Head(t) \in ErrorItem
      PROVE  /\ Logs(t) = Logs(Tail(t))
             /\ Errors(t) = <<Head(t)>> \o Errors(Tail(t))
  <2>1. Head(t).kind = "error" /\ Head(t).kind # "log"
    BY <1>2 DEF ErrorItem
  <2> QED
    BY <2>1, OnlyHead DEF Logs, Errors
<1> QED
  BY <1>1, <1>2

LEMMA HandInit == Client!Init => HandInv
<1> SUFFICES ASSUME Client!Init  PROVE HandInv
  OBVIOUS
<1>1. HandTypeOK /\ AtWorker
  BY EmptyType DEF Client!Init, HandTypeOK, AtWorker, Places, Records, Client!Records
<1>2. \A i \in DOMAIN <<>> : FALSE
  OBVIOUS
<1>3. <<>> \in Seq(Item)
  OBVIOUS
<1>4. Logs(<<>>) = <<>> /\ Errors(<<>>) = <<>>
  BY <1>2, <1>3, OnlyNone, Zenon DEF Logs, Errors
<1>5. <<>> \o <<>> \o <<>> = <<>>
  OBVIOUS
<1> QED
  BY <1>1, <1>4, <1>5 DEF Client!Init, HandInv, InOrder

\* emit puts an item at the end of both the queue and what was accepted.
LEMMA PutStep ==
  ASSUME HandInv, NEW x \in LogItem \cup ErrorItem, Client!Put(x),
         emit' \in [Records -> {"new", "report", "done"}],
         UNCHANGED <<batch, hand, worker, due, stop, sent>>
  PROVE  HandInv'
<1>1. /\ queue' = Append(queue, x) /\ accepted' = Append(accepted, x)
      /\ x \in Item /\ queue \in Seq(Item) /\ accepted \in Seq(Item)
      /\ sent \in Seq(Item) /\ batch \in Seq(Item) /\ hand \in Seq(Item)
  <2>1. x \in Item
    BY KindsDiffer
  <2>2. batch \in Seq(Item)
    BY LogsOfBatch DEF HandInv, HandTypeOK
  <2>3. hand \in Seq(Item)
    <3>1. hand = <<>> \/ \E y \in ErrorItem : hand = <<y>>
      BY DEF HandInv, HandTypeOK
    <3> QED
      BY <3>1, EmptyType, ErrorsOfReport
  <2> QED
    BY <2>1, <2>2, <2>3 DEF Client!Put, HandInv, HandTypeOK
<1>2. HandTypeOK' /\ AtWorker'
  <2>1. queue' \in Seq(Item) /\ accepted' \in Seq(Item)
    BY <1>1
  <2> QED
    BY <2>1 DEF HandInv, HandTypeOK, AtWorker
<1>3. /\ Logs(sent) \o batch \in Seq(Item) /\ Errors(sent) \o hand \in Seq(Item)
      /\ Logs(queue) \in Seq(Item) /\ Errors(queue) \in Seq(Item)
  <2>1. /\ Logs(sent) \in Seq(Item) /\ Errors(sent) \in Seq(Item)
        /\ Logs(queue) \in Seq(Item) /\ Errors(queue) \in Seq(Item)
    BY <1>1, LogsAppend
  <2> QED
    BY <1>1, <2>1
<1>4. /\ Logs(sent) \o batch \o Append(Logs(queue), x)
           = Append(Logs(sent) \o batch \o Logs(queue), x)
      /\ Errors(sent) \o hand \o Append(Errors(queue), x)
           = Append(Errors(sent) \o hand \o Errors(queue), x)
  <2>1. \A s, t \in Seq(Item) : s \o Append(t, x) = Append(s \o t, x)
    BY <1>1, ConcatAppend
  <2> QED
    BY <1>3, <2>1, Zenon
<1>5. CASE x \in LogItem
  <2>1. /\ Logs(queue') = Append(Logs(queue), x) /\ Errors(queue') = Errors(queue)
        /\ Logs(accepted') = Append(Logs(accepted), x)
        /\ Errors(accepted') = Errors(accepted)
    BY <1>1, <1>5, LogsAppend
  <2>2. InOrder'
    BY <1>4, <2>1 DEF HandInv, InOrder
  <2> QED
    BY <1>2, <2>2 DEF HandInv
<1>6. CASE x \in ErrorItem
  <2>1. /\ Logs(queue') = Logs(queue) /\ Errors(queue') = Append(Errors(queue), x)
        /\ Logs(accepted') = Logs(accepted)
        /\ Errors(accepted') = Append(Errors(accepted), x)
    BY <1>1, <1>6, LogsAppend
  <2>2. InOrder'
    BY <1>4, <2>1 DEF HandInv, InOrder
  <2> QED
    BY <1>2, <2>2 DEF HandInv
<1> QED
  BY <1>5, <1>6

\* A step that leaves the items alone; the worker goes on, but neither to a
\* post of a report nor to the end.
LEMMA StillStep ==
  ASSUME HandInv, emit' \in [Records -> {"new", "report", "done"}],
         due' \in BOOLEAN, stop' \in BOOLEAN,
         \/ worker' = worker
         \/ worker = "get" /\ worker' \in {"get", "flush", "final"},
         UNCHANGED <<queue, batch, hand, accepted, sent>>
  PROVE  HandInv'
BY DEF HandInv, HandTypeOK, AtWorker, InOrder, Places

LEMMA EmitSteps ==
  ASSUME HandInv, NEW r \in Records, Client!EmitLog(r) \/ Client!EmitError(r)
  PROVE  HandInv'
<1>1. /\ due \in BOOLEAN /\ stop \in BOOLEAN
      /\ emit \in [Records -> {"new", "report", "done"}]
  BY DEF HandInv, HandTypeOK
<1>2. CASE Client!EmitLog(r)
  <2>1. emit' \in [Records -> {"new", "report", "done"}]
    BY <1>1, <1>2 DEF Client!EmitLog
  <2>2. UNCHANGED <<batch, hand, worker, due, stop, sent>>
    BY <1>2 DEF Client!EmitLog
  <2>3. CASE Client!Put(Client!Log(r))
    <3>1. Client!Log(r) \in LogItem \cup ErrorItem
      BY ItemKinds
    <3> QED
      BY <2>1, <2>2, <2>3, <3>1, PutStep
  <2>4. CASE UNCHANGED <<queue, accepted>>
    BY <2>1, <2>2, <2>4 DEF HandInv, HandTypeOK, AtWorker, InOrder
  <2> QED
    BY <1>2, <2>3, <2>4 DEF Client!EmitLog
<1>3. CASE Client!EmitError(r)
  <2>1. emit' \in [Records -> {"new", "report", "done"}]
    BY <1>1, <1>3 DEF Client!EmitError
  <2>2. UNCHANGED <<batch, hand, worker, due, stop, sent>>
    BY <1>3 DEF Client!EmitError
  <2>3. CASE Client!Put(Client!Error(r))
    <3>1. Client!Error(r) \in LogItem \cup ErrorItem
      BY ItemKinds
    <3> QED
      BY <2>1, <2>2, <2>3, <3>1, PutStep
  <2>4. CASE UNCHANGED <<queue, accepted>>
    BY <2>1, <2>2, <2>4 DEF HandInv, HandTypeOK, AtWorker, InOrder
  <2> QED
    BY <1>3, <2>3, <2>4 DEF Client!EmitError
<1> QED
  BY <1>2, <1>3

LEMMA ItemsAssociative ==
  \A s, t, u \in Seq(Item) : s \o (t \o u) = s \o t \o u
BY Associative

LEMMA GetStep ==
  ASSUME HandInv, Client!Get
  PROVE  HandInv'
<1>0. /\ worker = "get" /\ queue # <<>> /\ queue' = Tail(queue)
      /\ due' \in BOOLEAN /\ UNCHANGED <<emit, stop, accepted, sent>>
  BY DEF Client!Get, HandInv, HandTypeOK
<1>1. /\ queue \in Seq(Item) /\ Head(queue) \in Item /\ Tail(queue) \in Seq(Item)
      /\ batch \in Seq(LogItem) /\ batch \in Seq(Item) /\ hand = <<>>
      /\ sent \in Seq(Item) /\ accepted \in Seq(Item)
  <2>1. queue \in Seq(Item) /\ batch \in Seq(LogItem) /\ sent \in Seq(Item)
        /\ accepted \in Seq(Item)
    BY DEF HandInv, HandTypeOK
  <2>2. hand = <<>>
    BY <1>0 DEF HandInv, AtWorker
  <2>3. Head(queue) \in Item /\ Tail(queue) \in Seq(Item)
    BY <1>0, <2>1
  <2> QED
    BY <2>1, <2>2, <2>3, LogsOfBatch
<1>2. /\ Logs(sent) \in Seq(Item) /\ Errors(sent) \in Seq(Item)
      /\ Logs(Tail(queue)) \in Seq(Item) /\ Errors(Tail(queue)) \in Seq(Item)
  BY <1>1, LogsAppend
<1>3. CASE Client!IsError(Head(queue))
  <2>1. Head(queue) \in ErrorItem
    BY <1>1, <1>3 DEF Client!IsError, ErrorItem
  <2>2. hand' = <<Head(queue)>> /\ worker' = "report" /\ batch' = batch
    <3>1. ~Client!IsLog(Head(queue))
      BY <1>3 DEF Client!IsError, Client!IsLog
    <3> QED
      BY <3>1 DEF Client!Get
  <2>3. HandTypeOK' /\ AtWorker'
    BY <1>0, <1>1, <2>1, <2>2 DEF HandInv, HandTypeOK, AtWorker, Places
  <2>4. /\ Logs(queue) = Logs(queue')
        /\ Errors(queue) = <<Head(queue)>> \o Errors(queue')
    BY <1>0, <1>1, <2>1, LogsHead
  <2>5. Errors(sent) \o <<>> \o (<<Head(queue)>> \o Errors(queue'))
          = Errors(sent) \o <<Head(queue)>> \o Errors(queue')
    <3>1. <<Head(queue)>> \in Seq(Item) /\ Errors(sent) \o <<>> = Errors(sent)
      BY <1>1, <1>2
    <3> QED
      BY <1>0, <1>2, <3>1, Associative
  <2>6. InOrder'
    BY <1>0, <1>1, <2>2, <2>4, <2>5 DEF HandInv, InOrder
  <2> QED
    BY <2>3, <2>6 DEF HandInv
<1>4. CASE Client!IsLog(Head(queue))
  <2>1. Head(queue) \in LogItem
    BY <1>1, <1>4 DEF Client!IsLog, LogItem
  <2>2. /\ batch' = Append(batch, Head(queue)) /\ hand' = hand
        /\ worker' \in {"get", "flush", "final"}
    <3>1. ~Client!IsError(Head(queue))
      BY <1>4 DEF Client!IsError, Client!IsLog
    <3> QED
      BY <3>1 DEF Client!Get, Client!AfterRound
  <2>3. HandTypeOK' /\ AtWorker'
    <3>1. batch' \in Seq(LogItem)
      BY <1>1, <2>1, <2>2
    <3> QED
      BY <1>0, <1>1, <2>1, <2>2, <3>1
         DEF HandInv, HandTypeOK, AtWorker, Places
  <2>4. /\ Errors(queue) = Errors(queue')
        /\ Logs(queue) = <<Head(queue)>> \o Logs(queue')
    BY <1>0, <1>1, <2>1, LogsHead
  <2>5. Logs(sent) \o batch \o (<<Head(queue)>> \o Logs(queue'))
          = Logs(sent) \o Append(batch, Head(queue)) \o Logs(queue')
    <3>1. /\ <<Head(queue)>> \in Seq(Item) /\ Logs(sent) \o batch \in Seq(Item)
          /\ Append(batch, Head(queue)) = batch \o <<Head(queue)>>
      BY <1>1, <1>2
    <3>2. Logs(sent) \o batch \o <<Head(queue)>>
            = Logs(sent) \o (batch \o <<Head(queue)>>)
      <4>1. /\ Logs(sent) \in Seq(Item) /\ batch \in Seq(Item)
            /\ <<Head(queue)>> \in Seq(Item)
        BY <1>1, <1>2, <3>1
      <4> QED
        BY <4>1, ItemsAssociative, Zenon
    <3>3. Logs(sent) \o batch \o (<<Head(queue)>> \o Logs(queue'))
            = Logs(sent) \o batch \o <<Head(queue)>> \o Logs(queue')
      BY <1>0, <1>2, <3>1, ItemsAssociative, Zenon
    <3> QED
      BY <3>1, <3>2, <3>3, Zenon
  <2>6. InOrder'
    BY <1>0, <1>1, <2>2, <2>4, <2>5 DEF HandInv, InOrder
  <2> QED
    BY <2>3, <2>6 DEF HandInv
<1> QED
  BY <1>3, <1>4 DEF Client!Get

LEMMA SendErrorStep ==
  ASSUME HandInv, Client!SendError
  PROVE  HandInv'
<1>0. /\ worker = "report" /\ hand' = <<>> /\ sent' = sent \o hand
      /\ due' \in BOOLEAN /\ worker' \in {"get", "flush", "final", "raised"}
      /\ UNCHANGED <<emit, queue, batch, stop, accepted>>
  BY DEF Client!SendError, Client!Post, Client!AfterRound, HandInv, HandTypeOK
<1>1. PICK x \in ErrorItem : hand = <<x>>
  BY <1>0 DEF HandInv, HandTypeOK, AtWorker
<1>2. /\ sent \in Seq(Item) /\ <<x>> \in Seq(Item) /\ sent' \in Seq(Item)
      /\ batch \in Seq(Item) /\ queue \in Seq(Item)
  <2>1. sent \in Seq(Item) /\ <<x>> \in Seq(Item) /\ batch \in Seq(Item)
        /\ queue \in Seq(Item)
    BY ErrorsOfReport, LogsOfBatch DEF HandInv, HandTypeOK
  <2> QED
    BY <1>0, <1>1, <2>1
<1>3. HandTypeOK' /\ AtWorker'
  BY <1>0, <1>2 DEF HandInv, HandTypeOK, AtWorker, Places
<1>4. /\ Logs(sent') = Logs(sent) \o <<>>
      /\ Errors(sent') = Errors(sent) \o <<x>>
  <2>1. sent' = sent \o <<x>>
    BY <1>0, <1>1
  <2>2. Logs(<<x>>) = <<>> /\ Errors(<<x>>) = <<x>>
    BY ErrorsOfReport
  <2>3. /\ Logs(sent \o <<x>>) = Logs(sent) \o Logs(<<x>>)
        /\ Errors(sent \o <<x>>) = Errors(sent) \o Errors(<<x>>)
    BY <1>2, LogsConcat
  <2> QED
    BY <2>1, <2>2, <2>3, Zenon
<1>5. /\ Logs(sent) \in Seq(Item) /\ Errors(sent) \in Seq(Item)
      /\ Logs(queue) \in Seq(Item) /\ Errors(queue) \in Seq(Item)
  BY <1>2, LogsType
<1>6. /\ Logs(sent) \o <<>> = Logs(sent)
      /\ Errors(sent) \o <<x>> \o <<>> = Errors(sent) \o <<x>>
  BY <1>2, <1>5
<1>7. InOrder'
  BY <1>0, <1>1, <1>4, <1>6 DEF HandInv, InOrder
<1> QED
  BY <1>3, <1>7 DEF HandInv

\* The batch is posted and emptied.
LEMMA SendBatch ==
  ASSUME HandInv, worker \in {"flush", "final"}, batch' = <<>>,
         sent' = sent \o batch, due' \in BOOLEAN,
         worker' \in {"get", "final", "ended", "raised"},
         UNCHANGED <<emit, queue, hand, stop, accepted>>
  PROVE  HandInv'
<1>2. /\ sent \in Seq(Item) /\ sent' \in Seq(Item)
      /\ batch \in Seq(LogItem) /\ batch \in Seq(Item)
      /\ queue \in Seq(Item) /\ hand = <<>>
  <2>1. sent \in Seq(Item) /\ batch \in Seq(Item) /\ batch \in Seq(LogItem)
        /\ queue \in Seq(Item)
    BY LogsOfBatch DEF HandInv, HandTypeOK
  <2>2. hand = <<>>
    BY DEF HandInv, AtWorker
  <2> QED
    BY <2>1, <2>2
<1>3. HandTypeOK' /\ AtWorker'
  BY <1>2 DEF HandInv, HandTypeOK, AtWorker, Places
<1>4. /\ Logs(sent') = Logs(sent) \o batch
      /\ Errors(sent') = Errors(sent) \o <<>>
  <2>1. Logs(batch) = batch /\ Errors(batch) = <<>>
    BY <1>2, LogsOfBatch
  <2>2. /\ Logs(sent \o batch) = Logs(sent) \o Logs(batch)
        /\ Errors(sent \o batch) = Errors(sent) \o Errors(batch)
    BY <1>2, LogsConcat
  <2>3. sent' = sent \o batch
    OBVIOUS
  <2> QED
    BY <2>1, <2>2, <2>3, Zenon
<1>5. /\ Logs(sent) \in Seq(Item) /\ Errors(sent) \in Seq(Item)
      /\ Logs(queue) \in Seq(Item) /\ Errors(queue) \in Seq(Item)
  BY <1>2, LogsType
<1>6. /\ Logs(sent) \o batch \o <<>> = Logs(sent) \o batch
      /\ Errors(sent) \o <<>> = Errors(sent)
  BY <1>2, <1>5
<1>7. InOrder'
  BY <1>2, <1>4, <1>6 DEF HandInv, InOrder
<1> QED
  BY <1>3, <1>7 DEF HandInv

LEMMA FlushSteps ==
  ASSUME HandInv, Client!SendLogs \/ Client!Finish
  PROVE  HandInv'
<1>1. CASE Client!SendLogs
  <2>1. /\ worker = "flush" /\ batch' = <<>> /\ sent' = sent \o batch
        /\ due' \in BOOLEAN /\ worker' \in {"get", "final", "raised"}
        /\ UNCHANGED <<emit, queue, hand, stop, accepted>>
    BY <1>1 DEF Client!SendLogs, Client!Post
  <2> QED
    BY <2>1, SendBatch
<1>2. CASE Client!Finish
  <2>1. /\ worker = "final" /\ batch' = <<>>
        /\ UNCHANGED <<emit, queue, hand, due, stop, accepted>>
    BY <1>2 DEF Client!Finish
  <2>2. due \in BOOLEAN /\ sent \in Seq(Item)
    BY DEF HandInv, HandTypeOK
  <2>3. /\ sent' = sent \o batch
        /\ worker' \in {"ended", "raised"}
    <3>1. CASE batch = <<>>
      <4>1. sent' = sent /\ worker' = "ended"
        BY <1>2, <3>1 DEF Client!Finish
      <4> QED
        BY <2>2, <3>1, <4>1
    <3>2. CASE batch # <<>>
      BY <1>2, <3>2 DEF Client!Finish, Client!Post
    <3> QED
      BY <3>1, <3>2
  <2> QED
    BY <2>1, <2>2, <2>3, SendBatch
<1> QED
  BY <1>1, <1>2

LEMMA HandStep == HandInv /\ [Next]_vars => HandInv'
<1> SUFFICES ASSUME HandInv, [Next]_vars  PROVE HandInv'
  OBVIOUS
<1>1. CASE UNCHANGED client
  BY <1>1 DEF client, HandInv, HandTypeOK, AtWorker, InOrder, Logs, Errors
<1>2. CASE Client!Next
  <2>0. due \in BOOLEAN /\ stop \in BOOLEAN
        /\ emit \in [Records -> {"new", "report", "done"}]
    BY DEF HandInv, HandTypeOK
  <2>1. ASSUME NEW r \in Client!Records, Client!EmitLog(r) \/ Client!EmitError(r)
        PROVE  HandInv'
    BY <2>1, EmitSteps DEF Records, Client!Records
  <2>2. CASE Client!Close
    <3>1. stop' = TRUE /\ UNCHANGED <<emit, queue, batch, hand, worker, due,
                                     accepted, sent>>
      BY <2>2 DEF Client!Close
    <3> QED
      BY <3>1 DEF HandInv, HandTypeOK, AtWorker, InOrder
  <2>3. CASE Client!Exit
    <3>1. /\ worker' = "dead" /\ queue' = <<>> /\ batch' = <<>> /\ hand' = <<>>
          /\ due' = FALSE /\ UNCHANGED <<stop, accepted, sent>>
          /\ emit' = [r \in Records |-> "done"]
      BY <2>3 DEF Client!Exit, Records, Client!Records
    <3>2. emit' \in [Records -> {"new", "report", "done"}]
      BY <3>1
    <3>3. HandTypeOK'
      BY <3>1, <3>2, EmptyType DEF HandInv, HandTypeOK, Places
    <3> QED
      BY <3>1, <3>3 DEF HandInv, AtWorker, InOrder
  <2>4. CASE Client!Get
    BY <2>4, GetStep
  <2>5. CASE Client!GetEmpty
    BY <2>0, <2>5, StillStep DEF Client!GetEmpty, Client!AfterRound
  <2>6. CASE Client!SendError
    BY <2>6, SendErrorStep
  <2>7. CASE Client!SendLogs \/ Client!Finish
    BY <2>7, FlushSteps
  <2> QED
    BY <1>2, <2>1, <2>2, <2>3, <2>4, <2>5, <2>6, <2>7
       DEF Client!Next, Client!Work
<1> QED
  BY <1>1, <1>2 DEF Next, vars

LEMMA HandAlways == Spec => []HandInv
<1>1. Init => HandInv
  BY HandInit DEF Init
<1> QED
  BY <1>1, HandStep, PTL DEF Spec

\* As long as the process lives, what emit has put on the queue is, in its
\* order and exactly once, posted, in the worker's batch or hand, or still
\* queued; a worker whose loop has ended has posted everything it took.
THEOREM AccountedHolds == Spec => []Accounted
<1>1. HandInv => Accounted
  BY DEF HandInv, AtWorker, InOrder, Accounted
<1> QED
  BY <1>1, HandAlways, PTL
=============================================================================
