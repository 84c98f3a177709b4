---------------------------- MODULE Notifications ----------------------------
(* notifications_service: NotificationsService.send and                    *)
(* handle_resend_webhook as concurrent requests, each in one transaction,  *)
(* with Resend between them.                                               *)
(*                                                                         *)
(* send looks for the key, inserts its row (flush), calls Resend up to     *)
(* MAX_RETRIES times and commits.  The flushed row is not visible, but its *)
(* key is in the unique index: an INSERT with the same key waits for it.   *)
(* Rendering, which raises before anything is written, is left out, and so *)
(* is a send that finds its key: it only reads.                            *)
(*                                                                         *)
(* Outside src/: Resend, which makes one mail of all calls with one        *)
(* Idempotency-Key, gives it one id (here: the key), and sends each event  *)
(* about it until it gets a 200, in any order.                             *)
EXTENDS Naturals, FiniteSets

CONSTANTS
  Keys,        \* idempotency keys of callers
  Logs,        \* ids of notification_log rows
  Senders,     \* concurrent calls of send
  Hooks,       \* concurrent calls of handle_resend_webhook
  None,
  MaxRetries,  \* MAX_RETRIES of email_provider
  StatusEvents,  \* statuses of _STATUS_EVENTS that Resend reports
  OtherEvents,   \* events it reports that are not in _STATUS_EVENTS
  MaxFaults    \* bound: transactions that fail, lost answers to Resend

Kinds == StatusEvents \cup OtherEvents
Status == {"sent", "failed"} \cup StatusEvents

ASSUME NotificationsAssumption ==
  /\ Keys \cap Logs = {} /\ None \notin Keys \cup Logs
  /\ MaxRetries \in Nat \ {0} /\ MaxFaults \in Nat
  /\ OtherEvents \cap ({"sent", "failed"} \cup StatusEvents) = {}

ProviderKeys == Keys \cup Logs
LogRow == [key : Keys \cup {None}, status : Status,
           msg : ProviderKeys \cup {None}]
Mail == [id : ProviderKeys, key : Keys \cup {None}]
Event == [mail : ProviderKeys, kind : Kinds]
NoLog == [key |-> None, status |-> "none", msg |-> None]
NoHook == [event |-> None, log |-> None, status |-> "none"]

VARIABLES
  log,       \* committed notification_log rows
  used,      \* ids given to a row, committed or not
  events,    \* email_events rows: the row and the kind
  mails,     \* what Resend has accepted
  emitted,   \* events Resend has raised
  pending,   \* of them, those not answered with 200
  early,     \* auxiliary: those raised before the mail's row was committed
  pc,        \* where each send is
  key,       \* its idempotency key
  id,        \* its row
  tries,     \* calls of Resend without an answer
  result,    \* the status it is about to commit
  hook,      \* what each webhook call has read
  faults

vars == <<log, used, events, mails, emitted, pending, early, pc, key, id,
          tries, result, hook, faults>>
senders == <<pc, key, id, tries, result>>
provider == <<mails, emitted, pending, early>>

Init ==
  /\ log = [l \in Logs |-> NoLog] /\ used = {} /\ events = {}
  /\ mails = {} /\ emitted = {} /\ pending = {} /\ early = {}
  /\ pc = [p \in Senders |-> "idle"]
  /\ key = [p \in Senders |-> None]
  /\ id = [p \in Senders |-> None]
  /\ tries = [p \in Senders |-> 0]
  /\ result = [p \in Senders |-> None]
  /\ hook = [h \in Hooks |-> NoHook]
  /\ faults = 0

(* The send returns or raises; what it has not committed is rolled back. *)
Finish(p) ==
  /\ pc' = [pc EXCEPT ![p] = "idle"]
  /\ key' = [key EXCEPT ![p] = None]
  /\ id' = [id EXCEPT ![p] = None]
  /\ tries' = [tries EXCEPT ![p] = 0]
  /\ result' = [result EXCEPT ![p] = None]

Known(k) == k # None /\ \E l \in Logs : log[l] # NoLog /\ log[l].key = k
Held(k) == k # None /\ \E p \in Senders : id[p] # None /\ key[p] = k

-----------------------------------------------------------------------------
(* send *)

CheckKey(p, k) ==
  /\ pc[p] = "idle" /\ ~Known(k)
  /\ pc' = [pc EXCEPT ![p] = "flush"]
  /\ key' = [key EXCEPT ![p] = k]
  /\ UNCHANGED <<id, tries, result, log, used, events, provider, hook, faults>>

(* The INSERT waits for a row with its key to be committed or rolled back, *)
(* and raises IntegrityError if it was committed.                          *)
Flush(p) ==
  /\ pc[p] = "flush" /\ ~Held(key[p]) /\ ~Known(key[p])
  /\ \E l \in Logs \ used :
       /\ used' = used \cup {l}
       /\ id' = [id EXCEPT ![p] = l]
  /\ pc' = [pc EXCEPT ![p] = "call"]
  /\ UNCHANGED <<key, tries, result, log, events, provider, hook, faults>>

Duplicate(p) ==
  /\ pc[p] = "flush" /\ Known(key[p])
  /\ Finish(p)
  /\ UNCHANGED <<log, used, events, provider, hook, faults>>

ProviderKeyOfRow(p) == id[p]            \* slip: always the row's id
ProviderKey(p) == IF key[p] # None THEN key[p] ELSE id[p]

Accepted(p) == mails \cup {[id |-> ProviderKey(p), key |-> key[p]]}

Ends(p, status) ==
  /\ pc' = [pc EXCEPT ![p] = "commit"]
  /\ result' = [result EXCEPT ![p] = status]

(* A 200, or a 4xx. *)
Answered(p, status) ==
  /\ pc[p] = "call"
  /\ mails' = IF status = "sent" THEN Accepted(p) ELSE mails
  /\ Ends(p, status)
  /\ UNCHANGED <<key, id, tries, log, used, events, emitted, pending, early,
                 hook, faults>>

(* A transport error, a 429 or a 5xx: tried again, and in the end failed.  *)
(* Resend may have accepted the mail all the same.                         *)
UnansweredIsSent(p, accepted) ==        \* slip: the loop's end is not an error
  /\ pc[p] = "call"
  /\ mails' = IF accepted THEN Accepted(p) ELSE mails
  /\ tries' = [tries EXCEPT ![p] = @ + 1]
  /\ IF tries[p] + 1 = MaxRetries THEN Ends(p, "sent")
                                  ELSE UNCHANGED <<pc, result>>
  /\ UNCHANGED <<key, id, log, used, events, emitted, pending, early, hook,
                 faults>>
Unanswered(p, accepted) ==
  /\ pc[p] = "call"
  /\ mails' = IF accepted THEN Accepted(p) ELSE mails
  /\ tries' = [tries EXCEPT ![p] = @ + 1]
  /\ IF tries[p] + 1 = MaxRetries THEN Ends(p, "failed")
                                  ELSE UNCHANGED <<pc, result>>
  /\ UNCHANGED <<key, id, log, used, events, emitted, pending, early, hook,
                 faults>>

CommitSend(p) ==
  /\ pc[p] = "commit"
  /\ log' = [log EXCEPT ![id[p]] =
       [key |-> key[p], status |-> result[p],
        msg |-> IF result[p] = "sent" THEN ProviderKey(p) ELSE None]]
  /\ Finish(p)
  /\ UNCHANGED <<used, events, provider, hook, faults>>

(* The process dies, an await fails, Resend's answer is not JSON. *)
SendFails(p) ==
  /\ pc[p] # "idle" /\ faults < MaxFaults
  /\ faults' = faults + 1
  /\ Finish(p)
  /\ UNCHANGED <<log, used, events, provider, hook>>

-----------------------------------------------------------------------------
(* Resend *)

RowsOf(m) == {l \in Logs : log[l] # NoLog /\ log[l].msg = m}

Emit(m, kind) ==
  LET e == [mail |-> m.id, kind |-> kind]
  IN /\ e \notin emitted
     /\ emitted' = emitted \cup {e} /\ pending' = pending \cup {e}
     /\ early' = IF RowsOf(m.id) = {} THEN early \cup {e} ELSE early
  /\ UNCHANGED <<senders, log, used, events, mails, hook, faults>>

-----------------------------------------------------------------------------
(* handle_resend_webhook *)

(* The SELECT finds no row with the message's id: the send is not          *)
(* committed yet, has failed, or was rolled back.                          *)
EventMissed(h, e) ==
  /\ hook[h] = NoHook /\ e \in pending /\ RowsOf(e.mail) = {}
  /\ hook' = [hook EXCEPT ![h] =
                [event |-> e, log |-> None, status |-> "none"]]
  /\ UNCHANGED <<senders, log, used, events, provider, faults>>

(* The answer is 200 all the same, whatever has been committed by now. *)
EventIgnored(h) ==
  /\ hook[h] # NoHook /\ hook[h].log = None
  /\ pending' = pending \ {hook[h].event}
  /\ hook' = [hook EXCEPT ![h] = NoHook]
  /\ UNCHANGED <<senders, log, used, events, mails, emitted, early, faults>>

EventFoundAcks(h, e) ==                 \* slip: answered before it is handled
  /\ hook[h] = NoHook /\ e \in pending
  /\ \E l \in RowsOf(e.mail) :
       hook' = [hook EXCEPT ![h] =
                  [event |-> e, log |-> l, status |-> log[l].status]]
  /\ pending' = pending \ {e}
  /\ UNCHANGED <<senders, log, used, events, mails, emitted, early, faults>>
EventFound(h, e) ==
  /\ hook[h] = NoHook /\ e \in pending
  /\ \E l \in RowsOf(e.mail) :
       hook' = [hook EXCEPT ![h] =
                  [event |-> e, log |-> l, status |-> log[l].status]]
  /\ UNCHANGED <<senders, log, used, events, provider, faults>>

(* The UPDATE of the status: none if the event has none, or if it is the   *)
(* one that was read.                                                      *)
NewStatus(h) ==
  IF hook[h].event.kind \in StatusEvents \ {hook[h].status}
  THEN hook[h].event.kind
  ELSE log[hook[h].log].status

EventCommit(h, lost) ==
  /\ hook[h] # NoHook /\ hook[h].log # None
  /\ events' = events \cup {<<hook[h].log, hook[h].event.kind>>}
  /\ log' = [log EXCEPT ![hook[h].log].status = NewStatus(h)]
  /\ IF lost
     THEN faults < MaxFaults /\ faults' = faults + 1 /\ pending' = pending
     ELSE faults' = faults /\ pending' = pending \ {hook[h].event}
  /\ hook' = [hook EXCEPT ![h] = NoHook]
  /\ UNCHANGED <<senders, used, mails, emitted, early>>

(* The process dies, an await fails, the 200 of EventIgnored is lost. *)
EventFails(h) ==
  /\ hook[h] # NoHook /\ faults < MaxFaults
  /\ faults' = faults + 1
  /\ hook' = [hook EXCEPT ![h] = NoHook]
  /\ UNCHANGED <<senders, log, used, events, provider>>

-----------------------------------------------------------------------------
Next ==
  \/ \E p \in Senders :
       \/ \E k \in Keys \cup {None} : CheckKey(p, k)
       \/ Flush(p) \/ Duplicate(p)
       \/ \E status \in {"sent", "failed"} : Answered(p, status)
       \/ \E accepted \in BOOLEAN : Unanswered(p, accepted)
       \/ CommitSend(p) \/ SendFails(p)
  \/ \E m \in mails, kind \in Kinds : Emit(m, kind)
  \/ \E h \in Hooks :
       \/ \E e \in pending : EventMissed(h, e) \/ EventFound(h, e)
       \/ EventIgnored(h)
       \/ \E lost \in BOOLEAN : EventCommit(h, lost)
       \/ EventFails(h)

Spec == Init /\ [][Next]_vars

-----------------------------------------------------------------------------
Labels == {"idle", "flush", "call", "commit"}

TypeOK ==
  /\ log \in [Logs -> LogRow \cup {NoLog}]
  /\ used \subseteq Logs
  /\ events \subseteq Logs \X Kinds
  /\ mails \subseteq Mail
  /\ emitted \subseteq Event /\ pending \subseteq emitted
  /\ early \subseteq emitted
  /\ pc \in [Senders -> Labels]
  /\ key \in [Senders -> Keys \cup {None}]
  /\ id \in [Senders -> Logs \cup {None}]
  /\ tries \in [Senders -> 0..MaxRetries]
  /\ result \in [Senders -> {"sent", "failed", None}]
  /\ hook \in [Hooks -> [event : Event, log : Logs, status : Status]
                          \cup [event : Event, log : {None}, status : {"none"}]
                          \cup {NoHook}]
  /\ faults \in 0..MaxFaults

(* "a retried request from your backend can never double-send" (README):   *)
(* all sends with one key, at once, after a crash or after a failure, make *)
(* at most one mail.                                                       *)
NeverDoubleSend ==
  \A m, n \in mails : m.key # None /\ m.key = n.key => m = n

(* What get_status tells a caller has happened: "sent" and everything      *)
(* after it is a mail Resend has accepted, and a status a webhook has set  *)
(* is that of an event on record.                                          *)
StatusHasSource ==
  \A l \in Logs : log[l] # NoLog =>
    /\ log[l].status # "failed" => \E m \in mails : m.id = log[l].msg
    /\ log[l].status \notin {"sent", "failed"} =>
         <<l, log[l].status>> \in events

(* An event that Resend raises after the commit of its mail's send is on   *)
(* record before it is told 200 and stops sending it, through overlapping  *)
(* calls, lost answers and failed transactions.  (An earlier one may be    *)
(* answered 200 on a SELECT that came before the commit, and is lost.)     *)
NoEventDropped ==
  \A e \in emitted \ (pending \cup early) :
    \E l \in RowsOf(e.mail) : <<l, e.kind>> \in events
=============================================================================
