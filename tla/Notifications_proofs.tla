------------------------- MODULE Notifications_proofs -------------------------
(* Proofs about Notifications, for every number of keys, rows, sends and   *)
(* webhook calls, of tries and of faults.                                  *)
EXTENDS Notifications, TLAPS

(* A mail that was sent with a caller's key has that key's id. *)
MailInv == \A m \in mails : m.key # None => m.id = m.key

(* Only a row of a mail has a provider's id, only a row with one is more   *)
(* than failed, and a status that an event has set has its event.          *)
RowInv(l) == log[l] # NoLog =>
  /\ l \in used
  /\ log[l].msg # None => \E m \in mails : m.id = log[l].msg
  /\ log[l].status # "failed" => log[l].msg # None
  /\ log[l].status \notin {"sent", "failed"} => <<l, log[l].status>> \in events
LogInv == \A l \in Logs : RowInv(l)

(* What a send may rely on between two awaits: its row is its own, not     *)
(* visible yet, and "sent" is about a mail that Resend has.                *)
AtSend(p) ==
  /\ pc[p] \in {"idle", "flush"} => id[p] = None /\ tries[p] = 0
  /\ pc[p] \in {"call", "commit"} => id[p] \in used /\ log[id[p]] = NoLog
  /\ pc[p] = "call" => tries[p] < MaxRetries
  /\ pc[p] = "commit" => result[p] \in {"sent", "failed"}
  /\ pc[p] = "commit" /\ result[p] = "sent" =>
       \E m \in mails : m.id = ProviderKey(p)
SendInv ==
  /\ \A p \in Senders : AtSend(p)
  /\ \A p, q \in Senders : id[p] # None /\ id[p] = id[q] => p = q

(* A row that a webhook call has found stays the row of its event's mail.  *)
HookInv == \A h \in Hooks :
  hook[h] # NoHook /\ hook[h].log # None =>
    log[hook[h].log].msg = hook[h].event.mail

(* An event that was not raised early has had a row to be found by ever    *)
(* since, so that a call which has found none is about an early one.       *)
EventInv ==
  /\ \A e \in emitted \ early : RowsOf(e.mail) # {}
  /\ \A h \in Hooks :
       hook[h] # NoHook /\ hook[h].log = None => hook[h].event \in early
  /\ NoEventDropped

(* The inductive invariant. *)
IInv == TypeOK /\ MailInv /\ LogInv /\ SendInv /\ HookInv /\ EventInv

-----------------------------------------------------------------------------
LEMMA InitInv == Init => IInv
<1> SUFFICES ASSUME Init PROVE IInv
  OBVIOUS
<1> USE NotificationsAssumption DEF Init
<1>1. TypeOK
  <2>1. 0 \in 0..MaxFaults /\ 0 \in 0..MaxRetries
    OBVIOUS
  <2>2. /\ pc \in [Senders -> Labels]
        /\ key \in [Senders -> Keys \cup {None}]
        /\ id \in [Senders -> Logs \cup {None}]
        /\ result \in [Senders -> {"sent", "failed", None}]
    BY DEF Labels
  <2> QED
    BY <2>1, <2>2 DEF TypeOK
<1>2. MailInv /\ LogInv /\ HookInv
  BY DEF MailInv, LogInv, RowInv, HookInv
<1>3. SendInv
  BY DEF SendInv, AtSend
<1>4. EventInv
  BY DEF EventInv, NoEventDropped
<1> QED
  BY <1>1, <1>2, <1>3, <1>4 DEF IInv

-----------------------------------------------------------------------------
(* Committed rows are well formed, and a webhook call holds an event. *)
LEMMA RowTyped ==
  ASSUME TypeOK, NEW l \in Logs, log[l] # NoLog
  PROVE  log[l] \in LogRow
BY DEF TypeOK

LEMMA HookTyped ==
  ASSUME TypeOK, NEW h \in Hooks, hook[h] # NoHook
  PROVE  /\ hook[h].event \in Event /\ hook[h].log \in Logs \cup {None}
         /\ hook[h].event.mail \in ProviderKeys /\ hook[h].event.mail # None
         /\ hook[h].event.kind \in Kinds
<1>1. \/ hook[h] \in [event : Event, log : Logs, status : Status]
      \/ hook[h] \in [event : Event, log : {None}, status : {"none"}]
  BY DEF TypeOK
<1>2. hook[h].event \in Event /\ hook[h].log \in Logs \cup {None}
  BY <1>1
<1> QED
  BY <1>2, NotificationsAssumption DEF Event, ProviderKeys

(* A step of no send: rows that senders hold stay unwritten. *)
LEMMA SendersKeep ==
  ASSUME IInv, UNCHANGED <<senders, used, mails>>,
         \A l \in Logs : log[l] = NoLog => log'[l] = NoLog
  PROVE  SendInv'
<1> USE DEF senders
<1>1. ASSUME NEW p \in Senders PROVE AtSend(p)'
  <2>1. AtSend(p) /\ used \subseteq Logs
    BY DEF IInv, SendInv, TypeOK
  <2> QED
    BY <2>1 DEF AtSend, ProviderKey
<1> QED
  BY <1>1 DEF SendInv, IInv

(* A step of one send that keeps its row's id, writes no row and takes no  *)
(* mail away.                                                              *)
LEMMA OneSends ==
  ASSUME IInv, NEW p \in Senders, AtSend(p)', mails \subseteq mails',
         UNCHANGED <<key, id, log, used>>,
         \A q \in Senders \ {p} :
           pc'[q] = pc[q] /\ tries'[q] = tries[q] /\ result'[q] = result[q]
  PROVE  SendInv'
<1>1. ASSUME NEW q \in Senders \ {p} PROVE AtSend(q)'
  <2>1. AtSend(q)
    BY DEF IInv, SendInv
  <2> QED
    BY <2>1 DEF AtSend, ProviderKey
<1> QED
  BY <1>1 DEF SendInv, IInv

(* A send that ends gives its row's id back. *)
LEMMA FinishKeeps ==
  ASSUME IInv, NEW p \in Senders, Finish(p), UNCHANGED <<used, mails>>,
         \A l \in Logs : log'[l] = log[l] \/ l = id[p]
  PROVE  /\ SendInv'
         /\ pc' \in [Senders -> Labels]
         /\ key' \in [Senders -> Keys \cup {None}]
         /\ id' \in [Senders -> Logs \cup {None}]
         /\ tries' \in [Senders -> 0..MaxRetries]
         /\ result' \in [Senders -> {"sent", "failed", None}]
<1> USE DEF Finish
<1>1. /\ pc' \in [Senders -> Labels]
      /\ key' \in [Senders -> Keys \cup {None}]
      /\ id' \in [Senders -> Logs \cup {None}]
      /\ result' \in [Senders -> {"sent", "failed", None}]
  BY DEF IInv, TypeOK, Labels
<1>2. tries' \in [Senders -> 0..MaxRetries]
  <2>1. 0 \in 0..MaxRetries
    BY NotificationsAssumption
  <2> QED
    BY <2>1 DEF IInv, TypeOK
<1>3. pc'[p] = "idle" /\ id'[p] = None /\ tries'[p] = 0
  BY DEF IInv, TypeOK
<1>4. ASSUME NEW q \in Senders \ {p}
      PROVE  /\ pc'[q] = pc[q] /\ key'[q] = key[q] /\ id'[q] = id[q]
             /\ tries'[q] = tries[q] /\ result'[q] = result[q]
  BY DEF IInv, TypeOK
<1>5. \A q \in Senders \ {p} : AtSend(q)'
  <2> SUFFICES ASSUME NEW q \in Senders \ {p} PROVE AtSend(q)'
    OBVIOUS
  <2>1. AtSend(q) /\ used \subseteq Logs
    BY DEF IInv, SendInv, TypeOK
  <2>2. pc[q] \in {"call", "commit"} =>
          id[q] # None /\ id[q] # id[p] /\ id[q] \in Logs
    BY <2>1, NotificationsAssumption DEF AtSend, IInv, SendInv
  <2> QED
    BY <1>4, <2>1, <2>2 DEF AtSend, ProviderKey
<1>6. AtSend(p)'
  BY <1>3 DEF AtSend
<1>7. \A q, r \in Senders : id'[q] # None /\ id'[q] = id'[r] => q = r
  BY <1>3, <1>4 DEF IInv, SendInv
<1> QED
  BY <1>1, <1>2, <1>5, <1>6, <1>7 DEF SendInv

(* More mails and events, and the same rows. *)
LEMMA RowsKeep ==
  ASSUME LogInv, HookInv, log' = log, used \subseteq used',
         mails \subseteq mails', events \subseteq events'
  PROVE  LogInv' /\ (hook' = hook => HookInv')
<1>1. ASSUME NEW l \in Logs PROVE RowInv(l)'
  BY DEF LogInv, RowInv
<1> QED
  BY <1>1 DEF LogInv, HookInv

(* Committed rows stay, with the mail they are about. *)
RowsStay ==
  \A l \in Logs : log[l] # NoLog => log'[l] # NoLog /\ log'[l].msg = log[l].msg

LEMMA EventsKeep ==
  ASSUME IInv, RowsStay, events \subseteq events', early \subseteq early',
         \A e \in emitted' \ early' :
           e \in emitted \ early \/ RowsOf(e.mail) # {},
         \A e \in emitted' \ (pending' \cup early') :
           \/ e \in emitted \ (pending \cup early)
           \/ \E l \in RowsOf(e.mail) : <<l, e.kind>> \in events',
         \A h \in Hooks : hook'[h] # NoHook /\ hook'[h].log = None =>
           hook'[h].event \in early'
  PROVE  EventInv'
<1>1. ASSUME NEW m, NEW l \in RowsOf(m) PROVE l \in RowsOf(m)'
  BY DEF RowsOf, RowsStay
<1>2. ASSUME NEW e \in emitted' \ early' PROVE RowsOf(e.mail)' # {}
  <2>1. RowsOf(e.mail) # {}
    BY DEF IInv, EventInv
  <2> QED
    BY <2>1, <1>1
<1>3. ASSUME NEW e \in emitted' \ (pending' \cup early')
      PROVE  \E l \in RowsOf(e.mail)' : <<l, e.kind>> \in events'
  <2>1. \E l \in RowsOf(e.mail) : <<l, e.kind>> \in events'
    BY DEF IInv, EventInv, NoEventDropped
  <2> QED
    BY <2>1, <1>1
<1> QED
  BY <1>2, <1>3 DEF EventInv, NoEventDropped

(* A step of a send. *)
LEMMA SendKeepsEvents ==
  ASSUME IInv, RowsStay, UNCHANGED <<events, emitted, pending, early, hook>>
  PROVE  EventInv'
<1>1. \A h \in Hooks : hook'[h] # NoHook /\ hook'[h].log = None =>
        hook'[h].event \in early'
  BY DEF IInv, EventInv
<1> QED
  BY <1>1, EventsKeep

-----------------------------------------------------------------------------
(* Each action. *)

LEMMA CheckKeyStep ==
  ASSUME IInv, NEW p \in Senders, NEW k \in Keys \cup {None}, CheckKey(p, k)
  PROVE  IInv'
<1> USE DEF CheckKey, provider
<1>1. TypeOK'
  BY DEF IInv, TypeOK, Labels
<1>2. LogInv' /\ HookInv' /\ MailInv'
  BY RowsKeep DEF IInv, MailInv
<1>3. ASSUME NEW q \in Senders PROVE AtSend(q)'
  <2>1. AtSend(q)
    BY DEF IInv, SendInv
  <2>2. CASE q = p
    BY <2>1, <2>2 DEF AtSend, IInv, TypeOK
  <2>3. CASE q # p
    BY <2>1, <2>3 DEF AtSend, IInv, TypeOK, ProviderKey
  <2> QED
    BY <2>2, <2>3
<1>20. EventInv'
  BY SendKeepsEvents DEF RowsStay
<1> QED
  BY <1>20, <1>1, <1>2, <1>3 DEF IInv, SendInv

LEMMA FlushStep ==
  ASSUME IInv, NEW p \in Senders, Flush(p)
  PROVE  IInv'
<1> USE DEF Flush, provider
<1>1. PICK l \in Logs \ used :
        used' = used \cup {l} /\ id' = [id EXCEPT ![p] = l]
  OBVIOUS
<1>2. TypeOK'
  BY <1>1 DEF IInv, TypeOK, Labels
<1>3. LogInv' /\ HookInv' /\ MailInv'
  BY <1>1, RowsKeep DEF IInv, MailInv
<1>4. log[l] = NoLog /\ l # None
  BY NotificationsAssumption DEF IInv, LogInv, RowInv
<1>5. ASSUME NEW q \in Senders \ {p}, id[q] # None PROVE id[q] # l
  BY <1>1, <1>5 DEF IInv, SendInv, AtSend, TypeOK, Labels
<1>6. ASSUME NEW q \in Senders PROVE AtSend(q)'
  <2>1. AtSend(q)
    BY DEF IInv, SendInv
  <2>2. CASE q = p
    BY <1>1, <1>4, <2>1, <2>2, NotificationsAssumption
    DEF AtSend, IInv, TypeOK
  <2>3. CASE q # p
    BY <1>1, <2>1, <2>3 DEF AtSend, IInv, TypeOK, ProviderKey
  <2> QED
    BY <2>2, <2>3
<1>7. /\ id'[p] = l
      /\ \A q \in Senders \ {p} : id'[q] = id[q]
  BY <1>1 DEF IInv, TypeOK
<1>8. \A q, r \in Senders : id'[q] # None /\ id'[q] = id'[r] => q = r
  BY <1>5, <1>7 DEF IInv, SendInv
<1>20. EventInv'
  BY SendKeepsEvents DEF RowsStay
<1> QED
  BY <1>20, <1>2, <1>3, <1>6, <1>8 DEF IInv, SendInv

LEMMA DuplicateStep ==
  ASSUME IInv, NEW p \in Senders, Duplicate(p)
  PROVE  IInv'
<1> USE DEF Duplicate, provider
<1>1. TypeOK' /\ SendInv'
  BY FinishKeeps DEF IInv, TypeOK
<1>2. LogInv' /\ HookInv' /\ MailInv'
  BY RowsKeep DEF IInv, MailInv
<1>20. EventInv'
  BY SendKeepsEvents DEF RowsStay
<1> QED
  BY <1>20, <1>1, <1>2 DEF IInv

(* What Resend accepts has the key it was given. *)
LEMMA AcceptedMail ==
  ASSUME IInv, NEW p \in Senders, pc[p] = "call",
         mails' = Accepted(p) \/ mails' = mails
  PROVE  mails \subseteq mails' /\ mails' \subseteq Mail /\ MailInv'
<1>1. ProviderKey(p) \in ProviderKeys /\ key[p] \in Keys \cup {None}
  BY DEF ProviderKey, ProviderKeys, IInv, TypeOK, SendInv, AtSend
<1>2. [id |-> ProviderKey(p), key |-> key[p]] \in Mail
  BY <1>1 DEF Mail
<1>3. mails \subseteq mails' /\ mails' \subseteq Mail
  BY <1>2 DEF Accepted, IInv, TypeOK
<1>4. ASSUME NEW m \in mails', m.key # None PROVE m.id = m.key
  <2>1. CASE m \in mails
    BY <1>4, <2>1 DEF IInv, MailInv
  <2>2. CASE m = [id |-> ProviderKey(p), key |-> key[p]]
    BY <1>4, <2>2 DEF ProviderKey
  <2> QED
    BY <2>1, <2>2 DEF Accepted
<1> QED
  BY <1>3, <1>4 DEF MailInv

LEMMA AnsweredStep ==
  ASSUME IInv, NEW p \in Senders, NEW s \in {"sent", "failed"}, Answered(p, s)
  PROVE  IInv'
<1> USE DEF Answered, Ends
<1>1. mails \subseteq mails' /\ mails' \subseteq Mail /\ MailInv'
  BY AcceptedMail
<1>2. TypeOK'
  BY <1>1 DEF IInv, TypeOK, Labels
<1>3. LogInv' /\ HookInv'
  BY <1>1, RowsKeep DEF IInv
<1>4. pc'[p] = "commit" /\ result'[p] = s
  BY DEF IInv, TypeOK
<1>5. ASSUME s = "sent" PROVE \E m \in mails' : m.id = ProviderKey(p)
  <2> DEFINE mail == [id |-> ProviderKey(p), key |-> key[p]]
  <2>1. mail \in mails' /\ mail.id = ProviderKey(p)
    BY <1>5 DEF Accepted
  <2> QED
    BY <2>1
<1>6. AtSend(p)'
  BY <1>4, <1>5 DEF AtSend, ProviderKey, IInv, SendInv
<1>7. SendInv'
  BY <1>1, <1>6, OneSends DEF IInv, TypeOK
<1>20. EventInv'
  BY SendKeepsEvents DEF RowsStay
<1> QED
  BY <1>20, <1>1, <1>2, <1>3, <1>7 DEF IInv

LEMMA UnansweredStep ==
  ASSUME IInv, NEW p \in Senders, NEW b \in BOOLEAN, Unanswered(p, b)
  PROVE  IInv'
<1> USE DEF Unanswered
<1>1. mails \subseteq mails' /\ mails' \subseteq Mail /\ MailInv'
  BY AcceptedMail
<1>2. tries[p] + 1 \in 0..MaxRetries /\ tries'[p] = tries[p] + 1
  BY NotificationsAssumption DEF IInv, TypeOK, SendInv, AtSend
<1>3. AtSend(p)
  BY DEF IInv, SendInv
<1>4. LogInv' /\ HookInv'
  BY <1>1, RowsKeep DEF IInv
<1>20. EventInv'
  BY SendKeepsEvents DEF RowsStay
<1>5. CASE tries[p] + 1 = MaxRetries
  <2>1. pc'[p] = "commit" /\ result'[p] = "failed"
    BY <1>5 DEF Ends, IInv, TypeOK
  <2>2. TypeOK'
    BY <1>1, <1>2, <1>5 DEF Ends, IInv, TypeOK, Labels
  <2>3. AtSend(p)'
    BY <1>3, <2>1 DEF AtSend
  <2>4. SendInv'
    BY <1>1, <1>5, <2>3, OneSends DEF IInv, TypeOK, Ends
  <2> QED
    BY <1>20, <1>1, <1>4, <2>2, <2>4 DEF IInv
<1>6. CASE tries[p] + 1 # MaxRetries
  <2>1. TypeOK'
    BY <1>1, <1>2, <1>6 DEF IInv, TypeOK, Labels
  <2>2. tries'[p] < MaxRetries
    BY <1>2, <1>6, NotificationsAssumption
  <2>3. AtSend(p)'
    BY <1>3, <1>6, <2>2 DEF AtSend
  <2>4. SendInv'
    BY <1>1, <1>6, <2>3, OneSends DEF IInv, TypeOK
  <2> QED
    BY <1>20, <1>1, <1>4, <2>1, <2>4 DEF IInv
<1> QED
  BY <1>5, <1>6

LEMMA CommitSendStep ==
  ASSUME IInv, NEW p \in Senders, CommitSend(p)
  PROVE  IInv'
<1> DEFINE new == [key |-> key[p], status |-> result[p],
                   msg |-> IF result[p] = "sent" THEN ProviderKey(p) ELSE None]
<1> USE DEF CommitSend, provider
<1>1. AtSend(p) /\ id[p] \in Logs /\ log[id[p]] = NoLog /\ id[p] \in used
  BY DEF IInv, SendInv, AtSend, TypeOK
<1>2. ProviderKey(p) \in ProviderKeys
  BY <1>1 DEF ProviderKey, ProviderKeys, IInv, TypeOK
<1>3. new \in LogRow
  BY <1>1, <1>2 DEF AtSend, LogRow, Status, IInv, TypeOK
<1>4. log' = [log EXCEPT ![id[p]] = new]
  OBVIOUS
<1>5. /\ log'[id[p]] = new
      /\ \A l \in Logs : l # id[p] => log'[l] = log[l]
      /\ log' \in [Logs -> LogRow \cup {NoLog}]
  BY <1>1, <1>3, <1>4 DEF IInv, TypeOK
<1> HIDE DEF new
<1>6. TypeOK' /\ SendInv'
  BY <1>5, FinishKeeps DEF IInv, TypeOK
<1>7. ASSUME NEW l \in Logs PROVE RowInv(l)'
  <2>1. CASE l = id[p]
    <3>1. CASE result[p] = "sent"
      <4>1. \E m \in mails : m.id = ProviderKey(p)
        BY <1>1, <3>1 DEF AtSend
      <4>2. ProviderKey(p) # None
        BY <1>2, NotificationsAssumption DEF ProviderKeys
      <4> QED
        BY <1>1, <1>5, <2>1, <3>1, <4>1, <4>2 DEF RowInv, new
    <3>2. CASE result[p] = "failed"
      BY <1>1, <1>5, <2>1, <3>2 DEF RowInv, new
    <3> QED
      BY <1>1, <3>1, <3>2 DEF AtSend
  <2>2. CASE l # id[p]
    BY <1>5, <2>2 DEF RowInv, IInv, LogInv
  <2> QED
    BY <2>1, <2>2
<1>20. EventInv'
  <2>1. RowsStay
    BY <1>1, <1>5 DEF RowsStay
  <2> QED
    BY <2>1, SendKeepsEvents
<1>8. ASSUME NEW h \in Hooks, hook[h] # NoHook, hook[h].log # None
      PROVE  log'[hook[h].log].msg = hook[h].event.mail
  <2>1. /\ hook[h].log \in Logs /\ hook[h].event.mail # None
        /\ log[hook[h].log].msg = hook[h].event.mail
    BY <1>8, HookTyped DEF IInv, HookInv
  <2>2. hook[h].log # id[p]
    BY <1>1, <2>1 DEF NoLog
  <2> QED
    BY <1>5, <2>1, <2>2
<1> QED
  BY <1>20, <1>6, <1>7, <1>8 DEF IInv, LogInv, HookInv, MailInv

LEMMA SendFailsStep ==
  ASSUME IInv, NEW p \in Senders, SendFails(p)
  PROVE  IInv'
<1> USE DEF SendFails, provider
<1>1. faults' \in 0..MaxFaults
  BY NotificationsAssumption DEF IInv, TypeOK
<1>2. TypeOK' /\ SendInv'
  BY <1>1, FinishKeeps DEF IInv, TypeOK
<1>3. LogInv' /\ HookInv' /\ MailInv'
  BY RowsKeep DEF IInv, MailInv
<1>20. EventInv'
  BY SendKeepsEvents DEF RowsStay
<1> QED
  BY <1>20, <1>2, <1>3 DEF IInv

LEMMA EmitStep ==
  ASSUME IInv, NEW m \in mails, NEW kind \in Kinds, Emit(m, kind)
  PROVE  IInv'
<1> USE DEF Emit, senders
<1>1. [mail |-> m.id, kind |-> kind] \in Event
  BY DEF IInv, TypeOK, Mail, Event
<1>2. TypeOK'
  BY <1>1 DEF IInv, TypeOK
<1>3. LogInv' /\ HookInv' /\ MailInv' /\ SendInv'
  BY RowsKeep, SendersKeep DEF IInv, MailInv
<1>4. EventInv'
  <2> DEFINE e == [mail |-> m.id, kind |-> kind]
  <2>1. /\ emitted' = emitted \cup {e} /\ pending' = pending \cup {e}
        /\ early' = IF RowsOf(m.id) = {} THEN early \cup {e} ELSE early
        /\ e.mail = m.id
        /\ log' = log /\ hook' = hook /\ events' = events
    OBVIOUS
  <2> HIDE DEF e, Emit
  <2>4. early \subseteq early' /\ (e \notin early' => RowsOf(e.mail) # {})
    BY <2>1
  <2>2. \A h \in Hooks : hook'[h] # NoHook /\ hook'[h].log = None =>
          hook'[h].event \in early'
    BY <2>1, <2>4 DEF IInv, EventInv
  <2>3. \A d \in emitted' \ early' :
          d \in emitted \ early \/ RowsOf(d.mail) # {}
    BY <2>1, <2>4
  <2>5. \A d \in emitted' \ (pending' \cup early') :
          d \in emitted \ (pending \cup early)
    BY <2>1, <2>4
  <2>6. RowsStay /\ events \subseteq events'
    BY <2>1 DEF RowsStay
  <2> QED
    BY <2>2, <2>3, <2>4, <2>5, <2>6, EventsKeep
<1> QED
  BY <1>2, <1>3, <1>4 DEF IInv

LEMMA EventMissedStep ==
  ASSUME IInv, NEW h \in Hooks, NEW e \in pending, EventMissed(h, e)
  PROVE  IInv'
<1> USE DEF EventMissed, senders, provider
<1>1. e \in Event /\ e \in early
  BY DEF IInv, TypeOK, EventInv
<1> DEFINE new == [event |-> e, log |-> None, status |-> "none"]
<1>2. /\ new \in [event : Event, log : {None}, status : {"none"}]
      /\ new.event = e /\ new.log = None
  BY <1>1
<1>3. hook' = [hook EXCEPT ![h] = new]
  OBVIOUS
<1> HIDE DEF new
<1>4. TypeOK'
  BY <1>2, <1>3 DEF IInv, TypeOK
<1>5. \A g \in Hooks : hook'[g] = IF g = h THEN new ELSE hook[g]
  BY <1>3 DEF IInv, TypeOK
<1>6. LogInv' /\ MailInv' /\ SendInv'
  BY RowsKeep, SendersKeep DEF IInv, MailInv
<1>7. HookInv'
  BY <1>2, <1>5 DEF IInv, HookInv
<1>8. EventInv'
  <2>1. \A g \in Hooks : hook'[g] # NoHook /\ hook'[g].log = None =>
          hook'[g].event \in early'
    BY <1>1, <1>2, <1>5 DEF IInv, EventInv
  <2> QED
    BY <2>1, EventsKeep DEF RowsStay
<1> QED
  BY <1>4, <1>6, <1>7, <1>8 DEF IInv

LEMMA EventIgnoredStep ==
  ASSUME IInv, NEW h \in Hooks, EventIgnored(h)
  PROVE  IInv'
<1> USE DEF EventIgnored, senders
<1>1. TypeOK'
  BY DEF IInv, TypeOK
<1>2. \A g \in Hooks : hook'[g] = IF g = h THEN NoHook ELSE hook[g]
  BY DEF IInv, TypeOK
<1>3. LogInv' /\ MailInv' /\ SendInv'
  BY RowsKeep, SendersKeep DEF IInv, MailInv
<1>4. HookInv'
  BY <1>2 DEF IInv, HookInv
<1>5. EventInv'
  <2>1. \A g \in Hooks : hook'[g] # NoHook /\ hook'[g].log = None =>
          hook'[g].event \in early'
    BY <1>2 DEF IInv, EventInv
  <2>2. hook[h].event \in early
    BY DEF IInv, EventInv
  <2>3. \A e \in emitted' \ (pending' \cup early') :
          e \in emitted \ (pending \cup early)
    BY <2>2
  <2> QED
    BY <2>1, <2>3, EventsKeep DEF RowsStay
<1> QED
  BY <1>1, <1>3, <1>4, <1>5 DEF IInv

LEMMA EventFoundStep ==
  ASSUME IInv, NEW h \in Hooks, NEW e \in pending, EventFound(h, e)
  PROVE  IInv'
<1> USE DEF EventFound, senders, provider
<1>1. PICK l \in RowsOf(e.mail) :
        hook' = [hook EXCEPT ![h] =
                   [event |-> e, log |-> l, status |-> log[l].status]]
  OBVIOUS
<1>2. /\ l \in Logs /\ log[l].msg = e.mail /\ log[l] \in LogRow
      /\ e \in Event
  BY RowTyped DEF RowsOf, IInv, TypeOK
<1>3. [event |-> e, log |-> l, status |-> log[l].status]
        \in [event : Event, log : Logs, status : Status]
  BY <1>2 DEF LogRow
<1>4. TypeOK'
  BY <1>1, <1>3 DEF IInv, TypeOK
<1>7. /\ hook'[h].log = l /\ l # None
      /\ \A g \in Hooks : g # h => hook'[g] = hook[g]
  BY <1>1, <1>2, NotificationsAssumption DEF IInv, TypeOK
<1>8. EventInv'
  <2>1. \A g \in Hooks : hook'[g] # NoHook /\ hook'[g].log = None =>
          hook'[g].event \in early'
    BY <1>7 DEF IInv, EventInv
  <2> QED
    BY <2>1, EventsKeep DEF RowsStay
<1>5. ASSUME NEW g \in Hooks, hook'[g] # NoHook, hook'[g].log # None
      PROVE  log'[hook'[g].log].msg = hook'[g].event.mail
  <2>1. CASE g = h
    BY <1>1, <1>2, <2>1 DEF IInv, TypeOK
  <2>2. CASE g # h
    BY <1>1, <1>5, <2>2 DEF IInv, TypeOK, HookInv
  <2> QED
    BY <2>1, <2>2
<1>6. LogInv' /\ MailInv' /\ SendInv'
  BY RowsKeep, SendersKeep DEF IInv, MailInv
<1> QED
  BY <1>4, <1>5, <1>6, <1>8 DEF IInv, HookInv

LEMMA EventCommitStep ==
  ASSUME IInv, NEW h \in Hooks, NEW lost \in BOOLEAN, EventCommit(h, lost)
  PROVE  IInv'
<1> USE DEF EventCommit, senders
<1> DEFINE l == hook[h].log
           e == hook[h].event
           new == [log[l] EXCEPT !.status = NewStatus(h)]
<1>1. /\ l \in Logs /\ e \in Event /\ e.kind \in Kinds
      /\ e.mail # None /\ log[l].msg = e.mail
  BY HookTyped DEF IInv, HookInv
<1>2. log[l] # NoLog /\ log[l] \in LogRow
  BY <1>1, RowTyped DEF NoLog, IInv
<1>3. NewStatus(h) \in Status
  BY <1>2 DEF NewStatus, LogRow, Status
<1>4. new \in LogRow /\ new.msg = log[l].msg /\ new.status = NewStatus(h)
  BY <1>2, <1>3 DEF LogRow
<1>5. log' = [log EXCEPT ![l] = new]
  BY <1>1 DEF IInv, TypeOK
<1>6. /\ log'[l] = new
      /\ \A k \in Logs : k # l => log'[k] = log[k]
      /\ log' \in [Logs -> LogRow \cup {NoLog}]
  BY <1>1, <1>4, <1>5 DEF IInv, TypeOK
<1>7. events' = events \cup {<<l, e.kind>>}
  OBVIOUS
<1>8. faults' \in 0..MaxFaults /\ pending' \subseteq emitted
  BY NotificationsAssumption DEF IInv, TypeOK
<1>9. hook' = [hook EXCEPT ![h] = NoHook]
  OBVIOUS
<1>10. TypeOK'
  BY <1>1, <1>6, <1>7, <1>8, <1>9 DEF IInv, TypeOK
<1>11. ASSUME NEW k \in Logs PROVE RowInv(k)'
  <2>1. RowInv(k)
    BY DEF IInv, LogInv
  <2>2. CASE k = l
    <3>1. NewStatus(h) \notin {"sent", "failed"} =>
            <<l, NewStatus(h)>> \in events'
      BY <1>2, <1>7, <2>1, <2>2 DEF NewStatus, RowInv
    <3> QED
      BY <1>1, <1>2, <1>4, <1>6, <2>1, <2>2, <3>1 DEF RowInv
  <2>3. CASE k # l
    BY <1>6, <1>7, <2>1, <2>3 DEF RowInv
  <2> QED
    BY <2>2, <2>3
<1>12. ASSUME NEW g \in Hooks, hook'[g] # NoHook, hook'[g].log # None
       PROVE  log'[hook'[g].log].msg = hook'[g].event.mail
  <2>1. hook'[g] = hook[g]
    BY <1>9, <1>12 DEF IInv, TypeOK
  <2>2. hook[g].log \in Logs /\ log[hook[g].log].msg = hook[g].event.mail
    BY <1>12, <2>1, HookTyped DEF IInv, HookInv
  <2>3. log'[hook[g].log].msg = log[hook[g].log].msg
    BY <1>4, <1>6, <2>2
  <2> QED
    BY <2>1, <2>2, <2>3
<1>13. SendInv'
  BY <1>2, <1>6, SendersKeep
<1>14. EventInv'
  <2>1. RowsStay
    <3>1. new # NoLog
      BY <1>1, <1>4 DEF NoLog
    <3> QED
      BY <1>1, <1>4, <1>6, <3>1 DEF RowsStay
  <2>2. l \in RowsOf(e.mail) /\ <<l, e.kind>> \in events'
    BY <1>1, <1>2, <1>7 DEF RowsOf
  <2>3. \A g \in Hooks : hook'[g] # NoHook => hook'[g] = hook[g]
    BY <1>9 DEF IInv, TypeOK
  <2>4. \A g \in Hooks : hook'[g] # NoHook /\ hook'[g].log = None =>
          hook'[g].event \in early'
    BY <2>3 DEF IInv, EventInv
  <2>5. /\ emitted' = emitted /\ early' = early
        /\ \A d \in pending : d \in pending' \/ d = e
        /\ events \subseteq events'
    OBVIOUS
  <2> HIDE DEF EventCommit, e, l
  <2>6. \A d \in emitted' \ (pending' \cup early') :
          \/ d \in emitted \ (pending \cup early)
          \/ \E k \in RowsOf(d.mail) : <<k, d.kind>> \in events'
    BY <2>2, <2>5
  <2> QED
    BY <2>1, <2>4, <2>5, <2>6, EventsKeep
<1> QED
  BY <1>14, <1>10, <1>11, <1>12, <1>13 DEF IInv, LogInv, HookInv, MailInv

LEMMA EventFailsStep ==
  ASSUME IInv, NEW h \in Hooks, EventFails(h)
  PROVE  IInv'
<1> USE DEF EventFails, senders, provider
<1>1. faults' \in 0..MaxFaults
  BY NotificationsAssumption DEF IInv, TypeOK
<1>2. TypeOK'
  BY <1>1 DEF IInv, TypeOK
<1>5. \A g \in Hooks : g # h => hook'[g] = hook[g]
  BY DEF IInv, TypeOK
<1>6. hook'[h] = NoHook
  BY DEF IInv, TypeOK
<1>3. HookInv'
  BY <1>5, <1>6 DEF IInv, HookInv
<1>4. LogInv' /\ MailInv' /\ SendInv'
  BY RowsKeep, SendersKeep DEF IInv, MailInv
<1>7. EventInv'
  <2>1. \A g \in Hooks : hook'[g] # NoHook /\ hook'[g].log = None =>
          hook'[g].event \in early'
    BY <1>5, <1>6 DEF IInv, EventInv
  <2> QED
    BY <2>1, EventsKeep DEF RowsStay
<1> QED
  BY <1>2, <1>3, <1>4, <1>7 DEF IInv

-----------------------------------------------------------------------------
LEMMA StutterInv == IInv /\ UNCHANGED vars => IInv'
<1> SUFFICES ASSUME IInv, UNCHANGED vars PROVE IInv'
  OBVIOUS
<1> USE DEF vars
<1>1. TypeOK'
  BY DEF IInv, TypeOK
<1>2. LogInv' /\ HookInv' /\ MailInv' /\ SendInv'
  BY RowsKeep, SendersKeep DEF IInv, MailInv, senders
<1>3. EventInv'
  BY SendKeepsEvents DEF RowsStay
<1> QED
  BY <1>1, <1>2, <1>3 DEF IInv

LEMMA StepInv == IInv /\ [Next]_vars => IInv'
<1> SUFFICES ASSUME IInv, [Next]_vars PROVE IInv'
  OBVIOUS
<1>1. CASE UNCHANGED vars
  BY <1>1, StutterInv
<1>2. ASSUME NEW p \in Senders, NEW k \in Keys \cup {None}, CheckKey(p, k)
      PROVE  IInv'
  BY <1>2, CheckKeyStep
<1>3. ASSUME NEW p \in Senders,
             \/ Flush(p) \/ Duplicate(p) \/ CommitSend(p) \/ SendFails(p)
      PROVE  IInv'
  BY <1>3, FlushStep, DuplicateStep, CommitSendStep, SendFailsStep
<1>4. ASSUME NEW p \in Senders, NEW s \in {"sent", "failed"}, Answered(p, s)
      PROVE  IInv'
  BY <1>4, AnsweredStep
<1>5. ASSUME NEW p \in Senders, NEW b \in BOOLEAN, Unanswered(p, b)
      PROVE  IInv'
  BY <1>5, UnansweredStep
<1>6. ASSUME NEW m \in mails, NEW kind \in Kinds, Emit(m, kind)
      PROVE  IInv'
  BY <1>6, EmitStep
<1>7. ASSUME NEW h \in Hooks, NEW e \in pending,
             EventMissed(h, e) \/ EventFound(h, e)
      PROVE  IInv'
  BY <1>7, EventMissedStep, EventFoundStep
<1>8. ASSUME NEW h \in Hooks, NEW lost \in BOOLEAN, EventCommit(h, lost)
      PROVE  IInv'
  BY <1>8, EventCommitStep
<1>9. ASSUME NEW h \in Hooks, EventIgnored(h) \/ EventFails(h)
      PROVE  IInv'
  BY <1>9, EventIgnoredStep, EventFailsStep
<1> QED
  BY <1>1, <1>2, <1>3, <1>4, <1>5, <1>6, <1>7, <1>8, <1>9 DEF Next

LEMMA Invariant == Spec => []IInv
BY InitInv, StepInv, PTL DEF Spec

-----------------------------------------------------------------------------
(* The variables of send, handle_resend_webhook and their tables keep      *)
(* their types.                                                            *)
THEOREM TypeCorrect == Spec => []TypeOK
<1>1. IInv => TypeOK
  BY DEF IInv
<1> QED
  BY <1>1, Invariant, PTL

(* Two mails with one idempotency key are one mail: all sends with a key,  *)
(* however they overlap, crash or are repeated, mail once.                 *)
THEOREM OneMailPerKey == Spec => []NeverDoubleSend
<1>1. IInv => NeverDoubleSend
  <2> SUFFICES ASSUME IInv, NEW m \in mails, NEW n \in mails,
                      m.key # None, m.key = n.key
               PROVE  m = n
    BY DEF NeverDoubleSend
  <2>1. m \in Mail /\ n \in Mail
    BY DEF IInv, TypeOK
  <2>2. m.id = m.key /\ n.id = n.key
    BY DEF IInv, MailInv
  <2> QED
    BY <2>1, <2>2 DEF Mail
<1> QED
  BY <1>1, Invariant, PTL

(* The status of a committed row has its mail, and the event that set it,  *)
(* behind it.                                                              *)
THEOREM StatusSafe == Spec => []StatusHasSource
<1>1. IInv => StatusHasSource
  BY DEF IInv, LogInv, RowInv, StatusHasSource
<1> QED
  BY <1>1, Invariant, PTL

(* An event that Resend raises once its mail's send is committed is on     *)
(* record before handle_resend_webhook answers it with 200, for any number *)
(* of sends, calls, events and faults.                                     *)
THEOREM EventsKept == Spec => []NoEventDropped
<1>1. IInv => NoEventDropped
  BY DEF IInv, EventInv
<1> QED
  BY <1>1, Invariant, PTL
=============================================================================
