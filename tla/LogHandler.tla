----------------------------- MODULE LogHandler -----------------------------
(***************************************************************************)
(* RemoteLogHandler of observability_service/client/logging_handler.py:    *)
(* threads of the application put log entries, and a report after the      *)
(* entry of an exception, on a bounded queue; one daemon thread takes them *)
(* off, posts a report at once and log entries in batches.                 *)
(*                                                                         *)
(* logging calls emit under the handler's lock, the FastAPI middleware     *)
(* does not: the two puts of a record are two steps.  The answer of a post *)
(* is not read and a TransportError is swallowed, so what the worker does  *)
(* next depends on one thing only: whether httpx raised something else,    *)
(* which ends the thread.                                                  *)
(***************************************************************************)
EXTENDS Naturals, Sequences

CONSTANTS NRecords,     \* bound: log records of the application
          QueueSize,    \* maxsize of the queue
          BatchSize     \* batch_size

VARIABLES emit,     \* per record: where its call of emit is
          queue,    \* _queue
          batch,    \* log_batch of the worker
          hand,     \* the report the worker is about to post
          worker,   \* where the worker is
          due,      \* flush_interval_seconds have passed since last_flush
          stop,     \* _stop
          wire,     \* requests that have reached the server
          accepted, \* history: what emit put on the queue, in order
          sent      \* history: what the worker posted, in order

client == <<emit, queue, batch, hand, worker, due, stop, accepted, sent>>

Records == 1..NRecords   \* numbered in the order of their first put

Item == [kind: {"log", "error"}, rec: Records]
Log(r) == [kind |-> "log", rec |-> r]
Error(r) == [kind |-> "error", rec |-> r]
IsLog(item) == item.kind = "log"
IsError(item) == item.kind = "error"

Running == worker \notin {"ended", "raised", "dead"}

Init ==
  /\ emit = [r \in Records |-> "new"]
  /\ queue = <<>>
  /\ batch = <<>>
  /\ hand = <<>>
  /\ worker = "get"
  /\ due = FALSE
  /\ stop = FALSE
  /\ wire = {}
  /\ accepted = <<>>
  /\ sent = <<>>

(***************************************************************************)
(* The application.                                                        *)
(***************************************************************************)

Full == Len(queue) = QueueSize

Put(item) ==
  /\ queue' = Append(queue, item)
  /\ accepted' = Append(accepted, item)

\* emit: the entry, if there is room; then, for a record with an exception,
\* the report.  A full queue ends the call, with or without the report.
EmitLog(r) ==
  /\ emit[r] = "new"
  /\ \A s \in 1..(r - 1) : emit[s] # "new"
  /\ \/ /\ ~Full
        /\ Put(Log(r))
        /\ \E next \in {"report", "done"} : emit' = [emit EXCEPT ![r] = next]
     \/ /\ Full
        /\ emit' = [emit EXCEPT ![r] = "done"]
        /\ UNCHANGED <<queue, accepted>>
  /\ UNCHANGED <<batch, hand, worker, due, stop, wire, sent>>

EmitError(r) ==
  /\ emit[r] = "report"
  /\ emit' = [emit EXCEPT ![r] = "done"]
  /\ IF Full THEN UNCHANGED <<queue, accepted>> ELSE Put(Error(r))
  /\ UNCHANGED <<batch, hand, worker, due, stop, wire, sent>>

\* close: logging.shutdown or the application, at any time.
Close ==
  /\ ~stop
  /\ stop' = TRUE
  /\ UNCHANGED <<emit, queue, batch, hand, worker, due, wire, accepted, sent>>

\* close waits for the worker a limited time only; then the process ends,
\* with its daemon thread and all that is in its memory.
Exit ==
  /\ stop
  /\ worker # "dead"
  /\ worker' = "dead"
  /\ emit' = [r \in Records |-> "done"]
  /\ queue' = <<>>
  /\ batch' = <<>>
  /\ hand' = <<>>
  /\ due' = FALSE
  /\ UNCHANGED <<stop, wire, accepted, sent>>

(***************************************************************************)
(* The worker.                                                             *)
(***************************************************************************)

\* The end of a round and the test of _stop before the next one.
\* Slip: only a full batch is posted.
FlushIfFull(b, d) == Len(b) >= BatchSize

FlushNow(b, d) == b # <<>> /\ (Len(b) >= BatchSize \/ d)
AfterRound(b, d) ==
  IF FlushNow(b, d) THEN "flush" ELSE IF stop THEN "final" ELSE "get"

\* queue.get returns an item.  Time passes while it waits: due may become
\* true, and stays so until the next flush.
Get ==
  /\ worker = "get"
  /\ queue # <<>>
  /\ queue' = Tail(queue)
  /\ due' \in {due, TRUE}
  /\ \/ /\ IsError(Head(queue))
        /\ hand' = <<Head(queue)>>
        /\ worker' = "report"
        /\ UNCHANGED batch
     \/ /\ IsLog(Head(queue))
        /\ batch' = Append(batch, Head(queue))
        /\ worker' = AfterRound(batch', due')
        /\ UNCHANGED hand
  /\ UNCHANGED <<emit, stop, wire, accepted, sent>>

\* queue.get times out, which takes what is left of the flush interval.
GetEmpty ==
  /\ worker = "get"
  /\ queue = <<>>
  /\ due' = TRUE
  /\ worker' = AfterRound(batch, TRUE)
  /\ UNCHANGED <<emit, queue, batch, hand, stop, wire, accepted, sent>>

\* httpx.post: the request reaches the server or not, and the call ends the
\* thread or not.
Post(items, next) ==
  /\ sent' = sent \o items
  /\ wire' \in {wire, wire \cup {items}}
  /\ worker' \in {next, "raised"}

SendError ==
  /\ worker = "report"
  /\ due' \in {due, TRUE}
  /\ hand' = <<>>
  /\ Post(hand, AfterRound(batch, due'))
  /\ UNCHANGED <<emit, queue, batch, stop, accepted>>

\* Slip: the batch is not emptied after it has been posted.
SendLogsKeepsBatch ==
  /\ worker = "flush"
  /\ due' = FALSE
  /\ Post(batch, IF stop THEN "final" ELSE "get")
  /\ UNCHANGED <<emit, queue, batch, hand, stop, accepted>>

SendLogs ==
  /\ worker = "flush"
  /\ batch' = <<>>
  /\ due' = FALSE
  /\ Post(batch, IF stop THEN "final" ELSE "get")
  /\ UNCHANGED <<emit, queue, hand, stop, accepted>>

\* The loop has ended: the batch is posted, the queue is left as it is.
Finish ==
  /\ worker = "final"
  /\ batch' = <<>>
  /\ IF batch = <<>>
       THEN worker' = "ended" /\ UNCHANGED <<wire, sent>>
       ELSE Post(batch, "ended")
  /\ UNCHANGED <<emit, queue, hand, due, stop, accepted>>

Work == Get \/ GetEmpty \/ SendError \/ SendLogs \/ Finish

Next ==
  \/ \E r \in Records : EmitLog(r) \/ EmitError(r)
  \/ Close
  \/ Exit
  \/ Work
=============================================================================
