------------------------------- MODULE Billing -------------------------------
(***************************************************************************)
(* billing_service with its audit_service: the notifications (ITNs) of     *)
(* PayFast and the application's own calls, each a request with its own    *)
(* session, against one subscriptions and one payments table.              *)
(*                                                                         *)
(* A step is what happens between two awaits that matter: reading the      *)
(* rows, the audit entry, the provider's API, the commit.  Nothing is      *)
(* locked while a request works; SQLAlchemy writes `status` at the commit, *)
(* and only if it differs from what was loaded.  A notification is known   *)
(* by its pf_payment_id, and `paid` holds those with a payments row (a     *)
(* second row of one id is not told apart from the first).                 *)
(*                                                                         *)
(* Outside src/: PayFast, which sends a notification until it gets a 200.  *)
(***************************************************************************)
EXTENDS LogLevels

CONSTANTS
  Subs,       \* subscriptions, named by their m_payment_id
  Notices,    \* ITNs, named by their pf_payment_id
  Requests,   \* concurrent requests of the host
  None,
  Levels,     \* levels the host may set the audit logger to
  MaxFaults   \* bound: failed awaits, lost answers, overlapping deliveries

Status == {"pending", "active", "failed", "cancelled", "paused"}
SubRow == [status : Status, token : BOOLEAN]
(* The payment_status of a notification, "OTHER" being any that handle_itn *)
(* does not know, and its subscription: None if m_payment_id is not ours.  *)
Notice == [sub : Subs \cup {None},
           kind : {"COMPLETE", "FAILED", "CANCELLED", "OTHER"}]
Sets == [COMPLETE |-> "active", FAILED |-> "failed", CANCELLED |-> "cancelled",
         cancel |-> "cancelled", pause |-> "paused", unpause |-> "active"]

ASSUME BillingAssumption ==
  /\ Levels \subseteq DOMAIN Rank /\ MaxFaults \in Nat
  /\ None \notin Subs \cup Notices \cup SubRow \cup Notice \cup Status

VARIABLES
  sub,       \* subscriptions rows
  paid,      \* notices with a payments row
  logged,    \* notices with an audit_logs row
  note,      \* what each notice says, once PayFast has sent it
  acked,     \* notices answered with 200
  pf,        \* the subscription as PayFast knows it
  repriced,  \* the host has changed the plan's amount
  pc,        \* where each request is
  at,        \* the notice, or the subscription, a request is about
  op,        \* cancel, pause or unpause
  loaded,    \* the status a request has loaded
  audit,     \* audit_service: none, with a session of its own, or the same
  level,     \* the level the host runs with
  faults

vars == <<sub, paid, logged, note, acked, pf, repriced, pc, at, op, loaded,
          audit, level, faults>>
tables == <<sub, paid, logged>>
config == <<repriced, audit, level>>

Init ==
  /\ sub = [s \in Subs |-> None]
  /\ paid = {} /\ logged = {}
  /\ note = [n \in Notices |-> None]
  /\ acked = {}
  /\ pf = [s \in Subs |-> "none"]
  /\ repriced = FALSE
  /\ pc = [r \in Requests |-> "idle"]
  /\ at = [r \in Requests |-> None]
  /\ op = [r \in Requests |-> None]
  /\ loaded = [r \in Requests |-> None]
  /\ audit \in {"none", "own", "shared"}
  /\ level \in Levels
  /\ faults = 0

(* The request returns or raises; its session is rolled back. *)
Finish(r) ==
  /\ pc' = [pc EXCEPT ![r] = "idle"]
  /\ at' = [at EXCEPT ![r] = None]
  /\ op' = [op EXCEPT ![r] = None]
  /\ loaded' = [loaded EXCEPT ![r] = None]

Goto(r, label) ==
  pc' = [pc EXCEPT ![r] = label] /\ UNCHANGED <<at, op, loaded>>

(* The session's UPDATE: nothing, if the new value is the loaded one. *)
SetStatus(r, s, new) ==
  IF loaded[r] = new THEN sub[s].status ELSE new

-----------------------------------------------------------------------------
(* create_checkout commits before PayFast's page is known to the customer. *)
Checkout(s) ==
  /\ sub[s] = None
  /\ sub' = [sub EXCEPT ![s] = [status |-> "pending", token |-> FALSE]]
  /\ UNCHANGED <<paid, logged, note, acked, pf, pc, at, op, loaded, faults,
                 config>>

(* The host edits plans.amount: notifications of the subscriptions sold    *)
(* before carry the old amount and are refused from now on.                *)
Reprice ==
  /\ repriced' = TRUE
  /\ UNCHANGED <<tables, note, acked, pf, pc, at, op, loaded, audit, level,
                 faults>>

-----------------------------------------------------------------------------
(* PayFast *)

Charge(s, n, kind) ==
  /\ sub[s] # None /\ pf[s] \in {"none", "active"}
  /\ note[n] = None
  /\ note' = [note EXCEPT ![n] = [sub |-> s, kind |-> kind]]
  /\ pf' = IF kind = "COMPLETE" THEN [pf EXCEPT ![s] = "active"] ELSE pf
  /\ UNCHANGED <<tables, acked, pc, at, op, loaded, faults, config>>

CustomerCancels(s) ==
  /\ pf[s] \in {"active", "paused"}
  /\ pf' = [pf EXCEPT ![s] = "cancelled"]
  /\ UNCHANGED <<tables, note, acked, pc, at, op, loaded, faults, config>>

NotifyCancelled(s, n) ==
  /\ pf[s] = "cancelled" /\ note[n] = None
  /\ \A m \in Notices : note[m] # [sub |-> s, kind |-> "CANCELLED"]
  /\ note' = [note EXCEPT ![n] = [sub |-> s, kind |-> "CANCELLED"]]
  /\ UNCHANGED <<tables, acked, pf, pc, at, op, loaded, faults, config>>

(* A notification about something else that the merchant account sold. *)
NotifyStray(n) ==
  /\ note[n] = None
  /\ note' = [note EXCEPT ![n] = [sub |-> None, kind |-> "COMPLETE"]]
  /\ UNCHANGED <<tables, acked, pf, pc, at, op, loaded, faults, config>>

-----------------------------------------------------------------------------
(* handle_itn *)

(* An unknown m_payment_id is answered with 200 and nothing is recorded. *)
DeliverUnknown(n, lost) ==
  /\ note[n] # None /\ note[n].sub = None /\ n \notin acked
  /\ IF lost
     THEN faults < MaxFaults /\ faults' = faults + 1 /\ acked' = acked
     ELSE faults' = faults /\ acked' = acked \cup {n}
  /\ UNCHANGED <<tables, note, pf, pc, at, op, loaded, config>>

DeliverAuditsActivation(r, n) ==        \* slip: only COMPLETE is audited
  /\ pc[r] = "idle"
  /\ note[n] # None /\ note[n].sub # None
  /\ n \notin acked /\ ~repriced
  /\ faults' = faults
  /\ pc' = [pc EXCEPT ![r] = IF audit = "none" \/ note[n].kind # "COMPLETE"
                             THEN "commit" ELSE "audit"]
  /\ at' = [at EXCEPT ![r] = n]
  /\ loaded' = [loaded EXCEPT ![r] = sub[note[n].sub].status]
  /\ UNCHANGED <<op, tables, note, acked, pf, config>>

(* Verified, found, the amount right: Payment and status are pending in    *)
(* the session; a payment_status it does not know skips the audit entry.   *)
(* PayFast sends again what had no 200, and may time out while an earlier  *)
(* delivery is still being handled.                                        *)
Deliver(r, n) ==
  /\ pc[r] = "idle"
  /\ note[n] # None /\ note[n].sub # None
  /\ n \notin acked /\ ~repriced
  /\ IF \E q \in Requests : at[q] = n
     THEN faults < MaxFaults /\ faults' = faults + 1
     ELSE faults' = faults
  /\ pc' = [pc EXCEPT ![r] = IF audit = "none" \/ note[n].kind = "OTHER"
                             THEN "commit" ELSE "audit"]
  /\ at' = [at EXCEPT ![r] = n]
  /\ loaded' = [loaded EXCEPT ![r] = sub[note[n].sub].status]
  /\ UNCHANGED <<op, tables, note, acked, pf, config>>

WriteIfNew(r) ==                        \* slip: no row for an unchanged status
  LET n == note[at[r]]
  IN IF n.kind = "OTHER" \/ loaded[r] = Sets[n.kind]
     THEN UNCHANGED <<paid, sub>>
     ELSE /\ paid' = paid \cup {at[r]}
          /\ sub' = [sub EXCEPT ![n.sub] =
                       [status |-> Sets[n.kind],
                        token  |-> @.token \/ n.kind = "COMPLETE"]]
(* The commit of handle_itn's session; an unknown payment_status leaves    *)
(* the subscription alone.                                                 *)
Write(r) ==
  LET n == note[at[r]]
  IN /\ paid' = paid \cup {at[r]}
     /\ IF n.kind = "OTHER"
        THEN sub' = sub
        ELSE sub' = [sub EXCEPT ![n.sub] =
               [status |-> SetStatus(r, n.sub, Sets[n.kind]),
                token  |-> @.token \/ n.kind = "COMPLETE"]]

(* log_action commits its own session, or everything when the session is   *)
(* shared; with INFO enabled its log call then raises out of handle_itn.   *)
LogAction(r) ==
  /\ pc[r] = "audit"
  /\ logged' = logged \cup {at[r]}
  /\ IF audit = "shared" THEN Write(r) ELSE UNCHANGED <<sub, paid>>
  /\ IF Raises(level, "INFO") THEN Finish(r)
     ELSE Goto(r, IF audit = "shared" THEN "answer" ELSE "commit")
  /\ UNCHANGED <<note, acked, pf, faults, config>>

CommitForgotten(r, lost) ==             \* slip: the commit of the audit
  /\ pc[r] \in {"commit", "answer"}     \* session is taken for that of both
  /\ IF audit = "none" THEN Write(r) ELSE UNCHANGED <<sub, paid>>
  /\ faults' = faults /\ acked' = acked
  /\ Finish(r)
  /\ UNCHANGED <<logged, note, pf, config>>

(* The last commit and the 200, which may be lost on its way. *)
Commit(r, lost) ==
  /\ pc[r] \in {"commit", "answer"}
  /\ IF pc[r] = "commit" THEN Write(r) ELSE UNCHANGED <<sub, paid>>
  /\ IF lost
     THEN faults < MaxFaults /\ faults' = faults + 1 /\ acked' = acked
     ELSE faults' = faults /\ acked' = acked \cup {at[r]}
  /\ Finish(r)
  /\ UNCHANGED <<logged, note, pf, config>>

-----------------------------------------------------------------------------
(* cancel, pause, unpause *)

ManageUnchecked(r, s, o) ==             \* slip: the API call is not awaited
  /\ pc[r] = "idle" /\ sub[s] # None /\ sub[s].token
  /\ pc' = [pc EXCEPT ![r] = "write"]
  /\ at' = [at EXCEPT ![r] = s]
  /\ op' = [op EXCEPT ![r] = o]
  /\ loaded' = [loaded EXCEPT ![r] = sub[s].status]
  /\ UNCHANGED <<tables, note, acked, pf, faults, config>>
Manage(r, s, o) ==
  /\ pc[r] = "idle" /\ sub[s] # None /\ sub[s].token
  /\ pc' = [pc EXCEPT ![r] = "call"]
  /\ at' = [at EXCEPT ![r] = s]
  /\ op' = [op EXCEPT ![r] = o]
  /\ loaded' = [loaded EXCEPT ![r] = sub[s].status]
  /\ UNCHANGED <<tables, note, acked, pf, faults, config>>

Accepts(o, state) ==
  \/ o = "cancel" /\ state \in {"active", "paused"}
  \/ o = "pause" /\ state = "active"
  \/ o = "unpause" /\ state = "paused"

CallProvider(r) ==
  /\ pc[r] = "call" /\ Accepts(op[r], pf[at[r]])
  /\ pf' = [pf EXCEPT ![at[r]] = Sets[op[r]]]
  /\ Goto(r, "write")
  /\ UNCHANGED <<tables, note, acked, faults, config>>

(* raise_for_status *)
CallRefused(r) ==
  /\ pc[r] = "call" /\ ~Accepts(op[r], pf[at[r]])
  /\ Finish(r)
  /\ UNCHANGED <<tables, note, acked, pf, faults, config>>

ManageCommit(r) ==
  /\ pc[r] = "write"
  /\ sub' = [sub EXCEPT ![at[r]].status = SetStatus(r, at[r], Sets[op[r]])]
  /\ Finish(r)
  /\ UNCHANGED <<paid, logged, note, acked, pf, faults, config>>

(* An await fails or the process dies: what is not committed is gone, and  *)
(* so is the answer of a provider that has done what it was asked to.      *)
Fail(r) ==
  /\ pc[r] # "idle" /\ faults < MaxFaults
  /\ faults' = faults + 1
  /\ Finish(r)
  /\ \/ pf' = pf
     \/ pc[r] = "call" /\ Accepts(op[r], pf[at[r]])
        /\ pf' = [pf EXCEPT ![at[r]] = Sets[op[r]]]
  /\ UNCHANGED <<tables, note, acked, config>>

-----------------------------------------------------------------------------
Next ==
  \/ Reprice
  \/ \E s \in Subs :
       \/ Checkout(s) \/ CustomerCancels(s)
       \/ \E n \in Notices :
            \/ \E kind \in {"COMPLETE", "FAILED", "OTHER"} : Charge(s, n, kind)
            \/ NotifyCancelled(s, n)
  \/ \E n \in Notices :
       \/ NotifyStray(n)
       \/ \E lost \in BOOLEAN : DeliverUnknown(n, lost)
  \/ \E r \in Requests :
       \/ \E n \in Notices : Deliver(r, n)
       \/ LogAction(r)
       \/ \E lost \in BOOLEAN : Commit(r, lost)
       \/ \E s \in Subs, o \in {"cancel", "pause", "unpause"} : Manage(r, s, o)
       \/ CallProvider(r) \/ CallRefused(r) \/ ManageCommit(r)
       \/ Fail(r)

Spec == Init /\ [][Next]_vars

(* Requests run on, and PayFast goes on sending what had no 200. *)
FairSpec ==
  /\ Spec
  /\ \A r \in Requests :
       WF_vars(LogAction(r) \/ Commit(r, FALSE) \/ CallProvider(r)
               \/ CallRefused(r) \/ ManageCommit(r))
  /\ \A n \in Notices : SF_vars(\E r \in Requests : Deliver(r, n))

-----------------------------------------------------------------------------
Labels == {"idle", "audit", "commit", "answer", "call", "write"}

TypeOK ==
  /\ sub \in [Subs -> SubRow \cup {None}]
  /\ paid \subseteq Notices /\ logged \subseteq Notices
  /\ note \in [Notices -> Notice \cup {None}]
  /\ acked \subseteq Notices
  /\ pf \in [Subs -> {"none", "active", "paused", "cancelled"}]
  /\ repriced \in BOOLEAN
  /\ pc \in [Requests -> Labels]
  /\ at \in [Requests -> Notices \cup Subs \cup {None}]
  /\ op \in [Requests -> {"cancel", "pause", "unpause", None}]
  /\ loaded \in [Requests -> Status \cup {None}]
  /\ audit \in {"none", "own", "shared"}
  /\ level \in Levels
  /\ faults \in 0..MaxFaults

(* A 200 is for ever: PayFast does not send the notification again, so     *)
(* what is about a subscription of ours must be in the payments table by   *)
(* then.  (An unknown m_payment_id is answered 200 and recorded nowhere.)  *)
AckedIsRecorded == \A n \in acked : note[n].sub # None => n \in paid

Recorded(s, kind) == [sub |-> s, kind |-> kind] \in {note[n] : n \in paid}

(* What a subscription's row says has happened: it is never active or      *)
(* paused without a completed payment on record, nor failed without a      *)
(* failed one; and "cancelled" is the provider's word, so nobody who was   *)
(* told so is charged again.                                               *)
StatusBacked ==
  \A s \in Subs : sub[s] # None =>
    /\ sub[s].status \in {"active", "paused"} \/ sub[s].token =>
         Recorded(s, "COMPLETE")
    /\ sub[s].status = "failed" => Recorded(s, "FAILED")
    /\ sub[s].status = "cancelled" => pf[s] = "cancelled"

(* With an audit service no payment, failure or cancellation is recorded   *)
(* that it does not know of, whichever of the two sessions commits and     *)
(* whatever fails in between.  (A payment_status that handle_itn does not  *)
(* know gets its payments row and no audit entry.)                         *)
RecordedIsAudited ==
  audit # "none" => \A n \in paid : note[n].kind # "OTHER" => n \in logged

(* Every notification about a subscription is recorded in the end, through *)
(* lost answers and failed awaits, unless its plan has a new price or the  *)
(* log call of an audit session of its own raises before every commit.     *)
PaymentsSettle ==
  \A n \in Notices :
    note[n] # None /\ note[n].sub # None ~>
      \/ n \in paid
      \/ repriced
      \/ /\ audit = "own" /\ Raises(level, "INFO")
         /\ note[n] # None /\ note[n].kind # "OTHER"

(* "if PayFast retries an ITN, you'll get a duplicate row rather than a    *)
(* corrupted state" (README, Security notes).                              *)
RetryKeepsState ==
  [][\A r \in Requests :
       /\ LogAction(r) \/ \E lost \in BOOLEAN : Commit(r, lost)
       /\ at[r] \in paid
       => sub' = sub]_vars
=============================================================================
