------------------------------ MODULE EnvStore ------------------------------
(***************************************************************************)
(* The secrets of one environment of a project in env_service: requests    *)
(* that set several keys, delete or reveal one, or export all, each one    *)
(* transaction with its audit rows (READ COMMITTED).  set_secrets selects  *)
(* a key, adds or changes its row, and goes on to the next; SQLAlchemy     *)
(* flushes the write of a key before the next SELECT, so the rows stay     *)
(* locked, in the order of the request's keys, until the commit.           *)
(*                                                                         *)
(* An UPDATE or DELETE names the id that was selected: it waits for the    *)
(* transaction that holds this row; an INSERT waits for the one that holds *)
(* its unique (project, environment, key).  A row's id, and its value, are *)
(* the request that inserted, and last wrote, it.                          *)
(***************************************************************************)
EXTENDS Naturals, Sequences

CONSTANTS Keys, Requests,
          Orders,     \* the key sequences that requests set
          None

VARIABLES secret,     \* per key: None or the committed row
          holder,     \* per key: None or the transaction that has written it
          request,    \* per request: where it is and what it has written
          audit       \* audit_log, as the set of its rows

envVars == <<secret, holder, request, audit>>

Init ==
  /\ secret = [k \in Keys |-> None]
  /\ holder = [k \in Keys |-> None]
  /\ request = [r \in Requests |-> [pc |-> "new", kind |-> None, keys |-> <<>>,
                                    next |-> 1, seen |-> None]]
  /\ audit = {}

\* Who wrote the value of each key.
Values == [k \in Keys |-> IF secret[k] = None THEN None ELSE secret[k].value]

Key(r) == request[r].keys[request[r].next]
Set(r, pc) == request' = [request EXCEPT ![r].pc = pc]

(***************************************************************************)
(* The four handlers, up to what they select.  A request has passed        *)
(* get_project_auth and require_write (ProjectKeys).                       *)
(***************************************************************************)

Begin(r, kind, keys) ==
  /\ request[r].pc = "new"
  /\ request' = [request EXCEPT ![r] = [pc |-> "select", kind |-> kind,
                    keys |-> keys, next |-> 1, seen |-> None]]
  /\ UNCHANGED <<secret, holder, audit>>

SelectThen(r, pc, seen) ==
  /\ request[r].pc = "select"
  /\ request' = [request EXCEPT ![r].pc = pc, ![r].seen = seen]
  /\ UNCHANGED <<secret, holder, audit>>

\* set_secrets: the row of the next key of the payload.
SelectToSet(r) ==
  /\ request[r].kind = "write"
  /\ SelectThen(r, "flush", IF secret[Key(r)] = None THEN None
                            ELSE secret[Key(r)].id)

\* delete_secret: a missing key is a 404.
SelectToDelete(r) ==
  /\ request[r].kind = "delete"
  /\ IF secret[Key(r)] = None THEN SelectThen(r, "failed", None)
     ELSE SelectThen(r, "flush", secret[Key(r)].id)

\* get_secret_value: missing, or it cannot be decrypted; or it is audited.
SelectToReveal(r) ==
  /\ request[r].kind = "read"
  /\ \/ SelectThen(r, "failed", None)
     \/ secret[Key(r)] # None /\ SelectThen(r, "commit", secret[Key(r)].value)

\* export_dotenv: all rows in one statement; one audit row without a key.
SelectToExport(r) ==
  /\ request[r].kind = "export"
  /\ SelectThen(r, "commit", Values)

\* The statement of a flush waits for the transaction that holds the row, or
\* the unique key, it names.
SameRow(r) == secret[Key(r)] # None /\ secret[Key(r)].id = request[r].seen
Waits(r) ==
  /\ request[r].pc = "flush"
  /\ holder[Key(r)] \notin {None, r}
  /\ SameRow(r) \/ request[r].seen = None

\* INSERT of a key that is there, or UPDATE of a row that is not, ends the
\* request (IntegrityError, StaleDataError); DELETE of a row that is not is
\* only warned about.
Refused(r) ==
  /\ request[r].kind = "write"
  /\ IF request[r].seen = None THEN secret[Key(r)] # None ELSE ~SameRow(r)

More(r) == request[r].next < Len(request[r].keys)

Written(r, k) ==
  IF request[r].kind = "delete" THEN None
  ELSE [id |-> IF secret[k] = None THEN r ELSE secret[k].id, value |-> r]

\* Slip: each key is committed before the next one is selected.
FlushCommits(r) ==
  /\ request[r].pc = "flush"
  /\ ~Waits(r)
  /\ ~Refused(r)
  /\ secret' = [secret EXCEPT ![Key(r)] = Written(r, Key(r))]
  /\ request' = [request EXCEPT ![r].pc = IF More(r) THEN "select" ELSE "commit",
                                ![r].next = IF More(r) THEN @ + 1 ELSE @]
  /\ UNCHANGED <<holder, audit>>

Flush(r) ==
  /\ request[r].pc = "flush"
  /\ ~Waits(r)
  /\ ~Refused(r)
  /\ holder' = [holder EXCEPT ![Key(r)] =
                  IF request[r].kind = "write" \/ SameRow(r) THEN r ELSE @]
  /\ request' = [request EXCEPT ![r].pc = IF More(r) THEN "select" ELSE "commit",
                                ![r].next = IF More(r) THEN @ + 1 ELSE @]
  /\ UNCHANGED <<secret, audit>>

Release(r) == holder' = [k \in Keys |-> IF holder[k] = r THEN None ELSE holder[k]]

\* Slip: a request that fails does not give its transaction back.
Kept(r) == UNCHANGED holder

\* The end of get_db without a commit: the transaction is rolled back.
Rollback(r) == Release(r)

FlushFails(r) ==
  /\ request[r].pc = "flush"
  /\ ~Waits(r)
  /\ Refused(r)
  /\ Set(r, "failed")
  /\ Rollback(r)
  /\ UNCHANGED <<secret, audit>>

\* PostgreSQL ends one of two transactions that wait for each other.  (With
\* two keys no more than two of them can.)
Deadlock(r) ==
  /\ Waits(r)
  /\ LET s == holder[Key(r)] IN Waits(s) /\ holder[Key(s)] = r
  /\ Set(r, "failed")
  /\ Rollback(r)
  /\ UNCHANGED <<secret, audit>>

\* An await fails, or the process dies: rolled back.
Fails(r) ==
  /\ request[r].pc \in {"select", "flush", "commit"}
  /\ Set(r, "failed")
  /\ Rollback(r)
  /\ UNCHANGED <<secret, audit>>

\* The commit: rows and audit rows at once; then the answer.
Commit(r) ==
  /\ request[r].pc = "commit"
  /\ secret' = [k \in Keys |-> IF holder[k] = r THEN Written(r, k) ELSE secret[k]]
  /\ audit' = audit \cup {[by |-> r, key |-> request[r].keys[i]] :
                            i \in DOMAIN request[r].keys}
  /\ Set(r, "done")
  /\ Release(r)

Step(r) ==
  \/ SelectToSet(r) \/ SelectToDelete(r) \/ SelectToReveal(r) \/ SelectToExport(r)
  \/ Flush(r) \/ FlushFails(r) \/ Deadlock(r)
  \/ Commit(r)

Next ==
  \E r \in Requests :
    \/ \E keys \in Orders : Begin(r, "write", keys)
    \/ \E k \in Keys : Begin(r, "delete", <<k>>) \/ Begin(r, "read", <<k>>)
    \/ Begin(r, "export", <<None>>)
    \/ Step(r)
    \/ Fails(r)

(***************************************************************************)
(* Properties.                                                             *)
(***************************************************************************)

Sets(r, k) == request[r].kind = "write" /\ \E i \in DOMAIN request[r].keys :
                                             request[r].keys[i] = k

\* When two of them set the same two keys, the values are from one of them.
Unmixed(values) ==
  \A k, l \in Keys :
    values[k] # None /\ values[l] # None
    /\ Sets(values[k], l) /\ Sets(values[l], k) => values[k] = values[l]

\* Bulk writes are never mixed, whatever the order each names its keys in:
\* neither in the table nor in what an export answers.  And no value is there
\* without its row in the audit log.
BatchesWhole ==
  /\ Unmixed(Values)
  /\ \A r \in Requests :
       request[r].kind = "export" /\ request[r].pc = "done" =>
         Unmixed(request[r].seen)
  /\ \A k \in Keys :
       Values[k] # None => [by |-> Values[k], key |-> k] \in audit

\* Every begun request ends: it never waits for ever for a row.
RequestsEnd ==
  \A r \in Requests :
    request[r].pc # "new" ~> request[r].pc \in {"done", "failed"}
=============================================================================
