--------------------------- MODULE ErrorTracking ---------------------------
(***************************************************************************)
(* The server of observability_service: POST /logs stores a batch of log   *)
(* entries, POST /errors/report groups occurrences into issues, and an     *)
(* operator resolves or ignores an issue.  Every request is a coroutine    *)
(* with a database session of its own (READ COMMITTED): what it has read   *)
(* may be old when it commits.                                             *)
(*                                                                         *)
(* SQLAlchemy writes the columns that differ from what was loaded: a       *)
(* report writes the status only if it read "resolved", an operator only   *)
(* if the status it read is another one.  A first report inserts the issue *)
(* before its occurrence; the unique constraint on the fingerprint makes a *)
(* second insert wait for the first, and fail when that commits.           *)
(***************************************************************************)
EXTENDS Naturals, FiniteSets

CONSTANTS Reports,        \* reports that clients may send
          Earlier,        \* those that may have been sent at the beginning
          Entries,        \* log entries that clients may send
          Operators,      \* calls of resolve or ignore
          Fingerprints,   \* fingerprints of issues
          Fingerprint,    \* per report: the fingerprint of its message
          None

VARIABLES wire,      \* requests that have reached the server
          stored,    \* log_entries
          issue,     \* error_issues: per fingerprint None or the row
          occ,       \* error_occurrences, by report
          report,    \* per report: where it is and the row it has read
          op,        \* per operator call: the same
          lapped,    \* history: fingerprints with reports that overlapped
          resolves,  \* history: per fingerprint, resolves that took effect
          epoch      \* history: per report, resolves it has seen

server == <<stored, issue, occ, report, op, lapped, resolves, epoch>>

Statuses == {"open", "resolved", "ignored"}
Issue == [status: Statuses, count: Nat]

\* The two kinds of requests, as the client posts them.
LogRequest(items) == \A i \in DOMAIN items : items[i].kind = "log"
ReportRequest(r) == <<[kind |-> "error", rec |-> r]>>
EntriesOf(items) == {items[i].rec : i \in DOMAIN items}

Idle == [pc |-> "idle", seen |-> None, new |-> "open", on |-> None]

\* At the beginning each issue has one report, or none.
Init ==
  \E done \in SUBSET Earlier :
    /\ \A r, s \in done : Fingerprint[r] = Fingerprint[s] => r = s
    /\ stored = {}
    /\ issue = [f \in Fingerprints |->
                  IF \E r \in done : Fingerprint[r] = f
                    THEN [status |-> "open", count |-> 1] ELSE None]
    /\ occ = done
    /\ report = [r \in Reports |->
                   [pc |-> IF r \in done THEN "told"
                           ELSE IF r \in Earlier THEN "done" ELSE "idle",
                    seen |-> None]]
    /\ op = [o \in Operators |-> Idle]
    /\ lapped = {}
    /\ resolves = [f \in Fingerprints |-> 0]
    /\ epoch = [r \in Reports |-> 0]

(***************************************************************************)
(* POST /logs: one transaction.  A request beyond the rate limit, or whose *)
(* transaction fails, is one that does not reach the server: its sender    *)
(* does not read the answer.                                               *)
(***************************************************************************)

IngestLogs(items) ==
  /\ items \in wire
  /\ LogRequest(items)
  /\ wire' = wire \ {items}
  /\ stored' = stored \cup EntriesOf(items)
  /\ UNCHANGED <<issue, occ, report, op, lapped, resolves, epoch>>

\* DELETE /logs/cleanup: the entries that are older than the retention.
Cleanup ==
  /\ \E old \in SUBSET stored : old # {} /\ stored' = stored \ old
  /\ UNCHANGED <<wire, issue, occ, report, op, lapped, resolves, epoch>>

(***************************************************************************)
(* POST /errors/report.                                                    *)
(***************************************************************************)

\* Reports about one issue that have read it and not yet committed.
Under(f) == {r \in Reports : Fingerprint[r] = f
                             /\ report[r].pc \in {"read", "flushed"}}

ReportSelect(r) ==
  LET f == Fingerprint[r] IN
  /\ report[r].pc = "idle"
  /\ ReportRequest(r) \in wire
  /\ wire' = wire \ {ReportRequest(r)}
  /\ report' = [report EXCEPT ![r] = [pc |-> "read", seen |-> issue[f]]]
  /\ lapped' = IF Under(f) = {} THEN lapped ELSE lapped \cup {f}
  /\ epoch' = [epoch EXCEPT ![r] = resolves[f]]
  /\ UNCHANGED <<stored, issue, occ, op, resolves>>

Goto(r, pc) == report' = [report EXCEPT ![r].pc = pc]

Inserting(f) == {r \in Under(f) : report[r].pc = "flushed"}

\* Slip: no unique constraint on the fingerprint.
ReportFlushAnyway(r) ==
  /\ report[r].pc = "read"
  /\ report[r].seen = None
  /\ Goto(r, "flushed")
  /\ UNCHANGED <<wire, stored, issue, occ, op, lapped, resolves, epoch>>

\* flush of a first report: waits for the insert of another one; if that has
\* been committed, IntegrityError, and the report is answered with a 500.
ReportFlush(r) ==
  LET f == Fingerprint[r] IN
  /\ report[r].pc = "read"
  /\ report[r].seen = None
  /\ Inserting(f) = {}
  /\ Goto(r, IF issue[f] = None THEN "flushed" ELSE "collided")
  /\ UNCHANGED <<wire, stored, issue, occ, op, lapped, resolves,
                 epoch>>

\* The commit of a first report, and of any other one.  A new issue or a
\* regression is to be told (both settings on), but only after that.
ReportInsert(r) ==
  /\ report[r].pc = "flushed"
  /\ issue' = [issue EXCEPT ![Fingerprint[r]] =
                 [status |-> "open", count |-> 1]]
  /\ occ' = occ \cup {r}
  /\ Goto(r, "committed")
  /\ UNCHANGED <<wire, stored, op, lapped, resolves, epoch>>

\* Slip: only an ignored issue is reopened.
IsRegressionIfIgnored(r) == report[r].seen.status = "ignored"

IsRegression(r) == report[r].seen.status = "resolved"

ReportUpdate(r) ==
  LET f == Fingerprint[r] IN
  /\ report[r].pc = "read"
  /\ report[r].seen # None
  /\ issue' = [issue EXCEPT
                 ![f].count = report[r].seen.count + 1,
                 ![f].status = IF IsRegression(r) THEN "open" ELSE @]
  /\ occ' = occ \cup {r}
  /\ Goto(r, IF IsRegression(r) THEN "committed" ELSE "done")
  /\ UNCHANGED <<wire, stored, op, lapped, resolves, epoch>>

\* refresh, the answer, and notify_issue as a background task after it: the
\* alert is posted.
Alert(r) ==
  /\ report[r].pc = "committed"
  /\ Goto(r, "told")
  /\ UNCHANGED <<wire, stored, issue, occ, op, lapped, resolves, epoch>>

\* The refresh fails, the process dies, or notify_issue logs a TransportError:
\* what has been committed stays and is told to nobody.
ReportCut(r) ==
  /\ report[r].pc = "committed"
  /\ Goto(r, "cut")
  /\ UNCHANGED <<wire, stored, issue, occ, op, lapped, resolves, epoch>>

\* Slip: the issue is committed before its occurrence is added.
ReportFailsHalfway(r) ==
  /\ report[r].pc = "read"
  /\ report[r].seen # None
  /\ issue' = [issue EXCEPT ![Fingerprint[r]].count = report[r].seen.count + 1]
  /\ Goto(r, "failed")
  /\ UNCHANGED <<wire, stored, occ, op, lapped, resolves, epoch>>

\* An await that fails before the commit, or the death of the server's
\* process: the transaction is rolled back.
ReportFails(r) ==
  /\ report[r].pc \in {"read", "flushed"}
  /\ Goto(r, "failed")
  /\ UNCHANGED <<wire, stored, issue, occ, op, lapped, resolves,
                 epoch>>

(***************************************************************************)
(* POST /errors/{id}/resolve and /ignore.                                  *)
(***************************************************************************)

OpSelect(o, f, new) ==
  /\ op[o].pc = "idle"
  /\ issue[f] # None
  /\ op' = [op EXCEPT ![o] = [pc |-> "read", seen |-> issue[f].status,
                              new |-> new, on |-> f]]
  /\ UNCHANGED <<wire, stored, issue, occ, report, lapped, resolves,
                 epoch>>

OpCommit(o) ==
  LET f == op[o].on
      writes == op[o].seen # op[o].new IN
  /\ op[o].pc = "read"
  /\ op' = [op EXCEPT ![o].pc = "done"]
  /\ issue' = [issue EXCEPT ![f].status = IF writes THEN op[o].new ELSE @]
  /\ resolves' = [resolves EXCEPT
                    ![f] = IF writes /\ op[o].new = "resolved" THEN @ + 1
                           ELSE @]
  /\ UNCHANGED <<wire, stored, occ, report, lapped, epoch>>

ReportStep(r) ==
  \/ ReportSelect(r)
  \/ ReportFlush(r)
  \/ ReportInsert(r)
  \/ ReportUpdate(r)
  \/ Alert(r)

Serve ==
  \/ \E items \in wire : IngestLogs(items)
  \/ \E r \in Reports : ReportStep(r)

Next ==
  \/ Serve
  \/ Cleanup
  \/ \E r \in Reports : ReportFails(r) \/ ReportCut(r)
  \/ \E o \in Operators :
       \/ \E f \in Fingerprints, new \in {"resolved", "ignored"} :
            OpSelect(o, f, new)
       \/ OpCommit(o)
=============================================================================
