--------------------------- MODULE Observability ---------------------------
(***************************************************************************)
(* observability_service, client and server: the handler of one            *)
(* application (LogHandler) posts to the server (ErrorTracking).  A post   *)
(* is given up after ten seconds, the server goes on with it: two reports  *)
(* of one handler can be under way at once.                                *)
(***************************************************************************)
EXTENDS Naturals, Sequences, FiniteSets

CONSTANTS NRecords, QueueSize, BatchSize,    \* of the application's handler
          Earlier,                          \* reports of earlier days
          Operators, Fingerprints, Fingerprint, None

ASSUME SizesAssumption ==
  NRecords \in Nat /\ QueueSize \in Nat \ {0} /\ BatchSize \in Nat \ {0}

VARIABLES emit, queue, batch, hand, worker, due, stop, accepted, sent,
          wire,
          stored, issue, occ, report, op, lapped, resolves, epoch

Records == 1..NRecords
Reports == Records \cup Earlier
Entries == Records

ASSUME FingerprintAssumption == Fingerprint \in [Reports -> Fingerprints]

Client == INSTANCE LogHandler
Server == INSTANCE ErrorTracking

ASSUME ReportsAssumption == IsFiniteSet(Earlier) /\ None \notin Server!Issue

client == <<emit, queue, batch, hand, worker, due, stop, accepted, sent>>
server == <<stored, issue, occ, report, op, lapped, resolves, epoch>>
vars == <<client, wire, server>>

Init == Client!Init /\ Server!Init

Next ==
  \/ Client!Next /\ UNCHANGED server
  \/ Server!Next /\ UNCHANGED client

\* The worker thread and the server's event loop run; nothing makes the
\* application log, close the handler or exit, nor an operator act.
Fairness ==
  /\ WF_vars(Client!Work /\ UNCHANGED server)
  /\ WF_vars(Server!Serve /\ UNCHANGED client)

Spec == Init /\ [][Next]_vars /\ Fairness

(***************************************************************************)
(* Properties.                                                             *)
(***************************************************************************)

\* The items at some places, in their order: each stands at the rank of its
\* place among them.
Rank(places, i) == Cardinality({j \in places : j <= i})
Picked(items, places) ==
  [n \in 1..Cardinality(places) |->
     items[CHOOSE i \in places : Rank(places, i) = n]]

Only(items, kind) ==
  Picked(items, {i \in DOMAIN items : items[i].kind = kind})

Logs(items) == Only(items, "log")
Errors(items) == Only(items, "error")

\* As long as the process lives, what emit has put on the queue is, in its
\* order and exactly once, posted, in the worker's batch or hand, or still
\* queued; and a worker whose loop has ended after close has posted everything
\* it took (_worker, its last flush).
Accounted ==
  worker # "dead" =>
    /\ Logs(accepted) = Logs(sent) \o batch \o Logs(queue)
    /\ Errors(accepted) = Errors(sent) \o hand \o Errors(queue)
    /\ worker = "ended" => batch = <<>> /\ hand = <<>>

\* Again and again everything emit has accepted is posted, unless the handler
\* is closed or its worker dies: a half-full batch does not wait for ever.
Flushed == []<>(stop \/ ~Client!Running \/ Len(sent) = Len(accepted))

OccurrencesOf(f) == {r \in occ : Fingerprint[r] = f}

\* An issue's count is never more than its occurrences, and it is exact as
\* long as no two reports about the issue have overlapped in report_error.
CountsWithin ==
  \A f \in Fingerprints :
    LET n == Cardinality(OccurrencesOf(f)) IN
    IF issue[f] = None
      THEN n = 0
      ELSE /\ issue[f].count \in 1..n
           /\ f \notin lapped => issue[f].count = n

\* A resolved issue has no occurrence whose report began after the resolve
\* took effect: whatever else is going on, such a report reopens it.
ResolvedIsQuiet ==
  \A f \in Fingerprints :
    issue[f] # None /\ issue[f].status = "resolved" =>
      \A r \in OccurrencesOf(f) : epoch[r] < resolves[f]

\* Reports about an error that has no issue yet, as they read it.
FirstReports(f) ==
  {r \in Reports : Fingerprint[r] = f /\ report[r].seen = None}

\* However many reports find an error without an issue at the same moment,
\* one of them makes the issue; that one sends the alert about a new error,
\* unless it is cut short after its commit, and no other one ever does: an
\* issue is told once, or nobody is told of it and no later report makes up.
OneFirst ==
  \A f \in Fingerprints :
    LET firsts == FirstReports(f) \cap occ IN
    /\ issue[f] # None =>
         /\ Cardinality(firsts) = 1
         /\ \A r \in firsts : report[r].pc \in {"committed", "told", "cut"}
    /\ \A r \in FirstReports(f) :
         report[r].pc \in {"committed", "told"} => firsts = {r}
=============================================================================
