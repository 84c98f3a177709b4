--------------------------- MODULE Billing_proofs ---------------------------
(* Proofs about Billing, for every number of subscriptions, notifications  *)
(* and concurrent requests, every placing of the audit session and every   *)
(* log level.                                                              *)
EXTENDS Billing, TLAPS

Ops == {"cancel", "pause", "unpause"}

(* A notification that was sent and is about a subscription of ours. *)
Ours(n) == note[n] # None /\ note[n].sub # None

(* A notification that is ours is about a subscription that exists,        *)
(* PayFast reports a cancellation only once it has made it, which it never *)
(* takes back, only what was sent is recorded or answered, and PayFast     *)
(* knows only what was sold.                                               *)
NoteInv ==
  /\ \A n \in Notices : Ours(n) =>
       /\ sub[note[n].sub] # None
       /\ note[n].kind = "CANCELLED" => pf[note[n].sub] = "cancelled"
  /\ \A n \in paid : note[n] # None
  /\ \A n \in acked : note[n] # None
  /\ \A s \in Subs : pf[s] # "none" => sub[s] # None

(* What a request at each label may rely on although it holds no lock.     *)
AtReq(r) ==
  /\ pc[r] \in {"audit", "commit", "answer"} =>
       at[r] \in Notices /\ Ours(at[r]) /\ loaded[r] \in Status
  /\ pc[r] = "audit" => audit # "none"
  /\ pc[r] = "commit" =>
       audit = "none" \/ at[r] \in logged \/ note[at[r]].kind = "OTHER"
  /\ pc[r] = "answer" => at[r] \in paid
  /\ pc[r] \in {"call", "write"} =>
       /\ at[r] \in Subs /\ op[r] \in Ops
       /\ sub[at[r]] # None /\ sub[at[r]].token
  /\ pc[r] = "write" /\ op[r] = "cancel" => pf[at[r]] = "cancelled"

AtInv == \A r \in Requests : AtReq(r)

(* The inductive invariant. *)
IInv ==
  /\ TypeOK /\ NoteInv /\ AtInv
  /\ AckedIsRecorded /\ RecordedIsAudited /\ StatusBacked

-----------------------------------------------------------------------------
LEMMA InitInv == Init => IInv
<1> SUFFICES ASSUME Init PROVE IInv
  OBVIOUS
<1> USE BillingAssumption DEF Init
<1>1. TypeOK
  <2>1. 0 \in 0..MaxFaults
    OBVIOUS
  <2>2. /\ pc \in [Requests -> Labels]
        /\ at \in [Requests -> Notices \cup Subs \cup {None}]
    BY DEF Labels
  <2>3. /\ op \in [Requests -> {"cancel", "pause", "unpause", None}]
        /\ loaded \in [Requests -> Status \cup {None}]
    OBVIOUS
  <2>4. /\ sub \in [Subs -> SubRow \cup {None}]
        /\ note \in [Notices -> Notice \cup {None}]
    OBVIOUS
  <2>5. pf \in [Subs -> {"none", "active", "paused", "cancelled"}]
    OBVIOUS
  <2> QED
    BY <2>1, <2>2, <2>3, <2>4, <2>5 DEF TypeOK
<1>2. NoteInv /\ AtInv
  BY DEF NoteInv, AtInv, AtReq, Ours
<1>3. AckedIsRecorded /\ RecordedIsAudited /\ StatusBacked
  BY DEF AckedIsRecorded, RecordedIsAudited, StatusBacked
<1> QED
  BY <1>1, <1>2, <1>3 DEF IInv

-----------------------------------------------------------------------------
(* What every step does to what requests rely on: rows stay, tokens stay,  *)
(* payments, audit rows and notices stay, a cancellation is final.         *)
Grows ==
  /\ \A s \in Subs : sub[s] # None =>
       sub'[s] # None /\ (sub[s].token => sub'[s].token)
  /\ paid \subseteq paid' /\ logged \subseteq logged'
  /\ \A n \in Notices : note[n] # None => note'[n] = note[n]
  /\ \A s \in Subs : pf[s] = "cancelled" => pf'[s] = "cancelled"
  /\ audit' = audit

(* The invariant of the requests that do not take the step. *)
LEMMA OthersKeep ==
  ASSUME IInv, Grows, NEW r \in Requests, pc'[r] = pc[r], at'[r] = at[r],
         op'[r] = op[r], loaded'[r] = loaded[r]
  PROVE  AtReq(r)'
<1>1. AtReq(r)
  BY DEF IInv, AtInv
<1> QED
  BY <1>1 DEF IInv, TypeOK, AtReq, Grows, Ours

LEMMA AllKeep ==
  ASSUME IInv, Grows, UNCHANGED <<pc, at, op, loaded>>
  PROVE  AtInv'
BY OthersKeep DEF AtInv

(* A request that ends relies on nothing. *)
LEMMA EndKeeps ==
  ASSUME IInv, Grows, NEW r \in Requests, Finish(r)
  PROVE  AtInv'
<1> SUFFICES ASSUME NEW q \in Requests PROVE AtReq(q)'
  BY DEF AtInv
<1>1. CASE q = r
  <2>1. pc'[q] = "idle"
    BY <1>1 DEF Finish, IInv, TypeOK
  <2> QED
    BY <2>1 DEF AtReq
<1>2. CASE q # r
  <2>1. /\ pc'[q] = pc[q] /\ at'[q] = at[q]
        /\ op'[q] = op[q] /\ loaded'[q] = loaded[q]
    BY <1>2 DEF Finish, IInv, TypeOK
  <2> QED
    BY <2>1, OthersKeep
<1> QED
  BY <1>1, <1>2

(* One request moves on, to a place it may be at. *)
LEMMA OneMoves ==
  ASSUME IInv, Grows, NEW r \in Requests, AtReq(r)',
         \A q \in Requests \ {r} :
           /\ pc'[q] = pc[q] /\ at'[q] = at[q]
           /\ op'[q] = op[q] /\ loaded'[q] = loaded[q]
  PROVE  AtInv'
BY OthersKeep DEF AtInv

LEMMA GotoMoves ==
  ASSUME IInv, Grows, NEW r \in Requests, NEW l \in Labels, Goto(r, l)
  PROVE  /\ pc' \in [Requests -> Labels] /\ pc'[r] = l
         /\ UNCHANGED <<at, op, loaded>>
         /\ AtReq(r)' => AtInv'
<1>1. /\ pc' \in [Requests -> Labels] /\ pc'[r] = l
      /\ UNCHANGED <<at, op, loaded>>
      /\ \A q \in Requests \ {r} : pc'[q] = pc[q]
  BY DEF Goto, IInv, TypeOK
<1> QED
  BY <1>1, OneMoves

-----------------------------------------------------------------------------
(* The commit of handle_itn's session. *)

LEMMA RecordedStays ==
  ASSUME TypeOK, paid \subseteq paid', NEW s, NEW k, Recorded(s, k),
         \A n \in paid : note'[n] = note[n]
  PROVE  Recorded(s, k)'
BY DEF Recorded

LEMMA WriteRow ==
  ASSUME IInv, NEW r \in Requests, pc[r] \in {"audit", "commit"}, Write(r),
         NEW n, n = note[at[r]]
  PROVE  /\ n \in Notice /\ at[r] \in Notices
         /\ paid' = paid \cup {at[r]}
         /\ sub[n.sub] \in SubRow
         /\ sub' \in [Subs -> SubRow \cup {None}]
         /\ n.sub \in Subs
         /\ \A s \in Subs : s # n.sub => sub'[s] = sub[s]
         /\ sub'[n.sub] \in SubRow
         /\ \/ sub'[n.sub].status = sub[n.sub].status
            \/ n.kind # "OTHER" /\ sub'[n.sub].status = Sets[n.kind]
         /\ sub'[n.sub].token <=> sub[n.sub].token \/ n.kind = "COMPLETE"
<1> USE BillingAssumption
<1>1. at[r] \in Notices /\ note[at[r]] # None /\ n.sub # None
  BY DEF IInv, AtInv, AtReq, Ours
<1>2. n \in Notice /\ sub[n.sub] # None
  BY <1>1 DEF IInv, TypeOK, NoteInv, Ours
<1>3. n.sub \in Subs
      /\ n.kind \in {"COMPLETE", "FAILED", "CANCELLED", "OTHER"}
  BY <1>1, <1>2 DEF Notice
<1>4. sub[n.sub] \in SubRow
  BY <1>2, <1>3 DEF IInv, TypeOK
<1>5. CASE n.kind = "OTHER"
  <2>1. paid' = paid \cup {at[r]} /\ sub' = sub
    BY <1>5 DEF Write
  <2>2. sub'[n.sub].token <=> sub[n.sub].token \/ n.kind = "COMPLETE"
    BY <1>5, <2>1
  <2>3. sub' \in [Subs -> SubRow \cup {None}]
    BY <2>1 DEF IInv, TypeOK
  <2> QED
    BY <1>1, <1>2, <1>3, <1>4, <2>1, <2>2, <2>3
<1>6. CASE n.kind # "OTHER"
  <2>1. Sets[n.kind] \in Status
    BY <1>3, <1>6 DEF Sets, Status
  <2> DEFINE new == [status |-> SetStatus(r, n.sub, Sets[n.kind]),
                     token  |-> sub[n.sub].token \/ n.kind = "COMPLETE"]
  <2>2. SetStatus(r, n.sub, Sets[n.kind]) \in {sub[n.sub].status, Sets[n.kind]}
    BY DEF SetStatus
  <2>3. new \in SubRow
    BY <1>4, <2>1, <2>2 DEF SubRow
  <2>4. paid' = paid \cup {at[r]} /\ sub' = [sub EXCEPT ![n.sub] = new]
    BY <1>6 DEF Write
  <2>5. new.status = SetStatus(r, n.sub, Sets[n.kind])
        /\ (new.token <=> sub[n.sub].token \/ n.kind = "COMPLETE")
    OBVIOUS
  <2> HIDE DEF new
  <2>6. /\ sub'[n.sub] = new
        /\ \A s \in Subs : s # n.sub => sub'[s] = sub[s]
        /\ sub' \in [Subs -> SubRow \cup {None}]
    BY <1>3, <2>3, <2>4 DEF IInv, TypeOK
  <2>7. \/ sub'[n.sub].status = sub[n.sub].status
        \/ n.kind # "OTHER" /\ sub'[n.sub].status = Sets[n.kind]
    BY <1>6, <2>2, <2>5, <2>6
  <2>8. sub'[n.sub].token <=> sub[n.sub].token \/ n.kind = "COMPLETE"
    BY <2>5, <2>6
  <2> QED
    BY <1>1, <1>2, <1>3, <1>4, <2>3, <2>4, <2>6, <2>7, <2>8
<1> QED
  BY <1>5, <1>6

LEMMA WriteBacked ==
  ASSUME IInv, NEW r \in Requests, pc[r] \in {"audit", "commit"}, Write(r),
         UNCHANGED <<note, pf>>
  PROVE  StatusBacked'
<1> PICK n : n = note[at[r]]
  OBVIOUS
<1>1. PICK p \in Notices : p = at[r]
  BY WriteRow
<1>2. /\ n \in Notice /\ n.sub \in Subs
      /\ n.kind \in {"COMPLETE", "FAILED", "CANCELLED", "OTHER"}
  BY WriteRow DEF Notice
<1>3. Recorded(n.sub, n.kind)'
  <2>1. n = [sub |-> n.sub, kind |-> n.kind]
    BY <1>2 DEF Notice
  <2>2. p \in paid' /\ note'[p] = n
    BY <1>1, WriteRow
  <2> QED
    BY <2>1, <2>2 DEF Recorded
<1>4. n.kind = "CANCELLED" => pf'[n.sub] = "cancelled"
  <2>1. note[p] # None /\ note[p].sub # None
    BY <1>1, <1>2, BillingAssumption
  <2> QED
    BY <1>1, <2>1 DEF IInv, NoteInv, Ours
<1>5. \A s, k : Recorded(s, k) => Recorded(s, k)'
  <2>1. paid \subseteq paid' /\ TypeOK
    BY WriteRow DEF IInv
  <2> QED
    BY <2>1, RecordedStays
<1> SUFFICES ASSUME NEW s \in Subs, sub'[s] # None
             PROVE  /\ sub'[s].status \in {"active", "paused"}
                         \/ sub'[s].token => Recorded(s, "COMPLETE")'
                    /\ sub'[s].status = "failed" => Recorded(s, "FAILED")'
                    /\ sub'[s].status = "cancelled" => pf'[s] = "cancelled"
  BY DEF StatusBacked
<1>6. CASE s # n.sub
  <2>1. sub'[s] = sub[s]
    BY <1>6, WriteRow
  <2> QED
    BY <2>1, <1>5 DEF IInv, StatusBacked
<1>7. CASE s = n.sub
  <2>1. sub[s] # None
    BY <1>7, WriteRow, BillingAssumption
  <2>2. /\ \/ sub'[s].status = sub[s].status
           \/ n.kind # "OTHER" /\ sub'[s].status = Sets[n.kind]
        /\ sub'[s].token <=> sub[s].token \/ n.kind = "COMPLETE"
    BY <1>7, WriteRow
  <2>3. /\ sub[s].status \in {"active", "paused"} \/ sub[s].token =>
             Recorded(s, "COMPLETE")'
        /\ sub[s].status = "failed" => Recorded(s, "FAILED")'
        /\ sub[s].status = "cancelled" => pf'[s] = "cancelled"
    BY <2>1, <1>5 DEF IInv, StatusBacked
  <2>4. /\ Sets["COMPLETE"] = "active" /\ Sets["FAILED"] = "failed"
        /\ Sets["CANCELLED"] = "cancelled"
    BY DEF Sets
  <2>5. CASE n.kind = "COMPLETE"
    BY <2>2, <2>3, <2>4, <2>5, <1>3, <1>7
  <2>6. CASE n.kind = "FAILED"
    BY <2>2, <2>3, <2>4, <2>6, <1>3, <1>7
  <2>7. CASE n.kind = "CANCELLED"
    BY <2>2, <2>3, <2>4, <2>7, <1>4, <1>7
  <2>8. CASE n.kind = "OTHER"
    BY <2>2, <2>3, <2>8
  <2> QED
    BY <2>5, <2>6, <2>7, <2>8, <1>2
<1> QED
  BY <1>6, <1>7

-----------------------------------------------------------------------------
(* A step that writes no table. *)
LEMMA SameTables ==
  ASSUME IInv, UNCHANGED <<tables, audit>>,
         \A n \in Notices : note[n] # None => note'[n] = note[n],
         \A s \in Subs : pf[s] = "cancelled" => pf'[s] = "cancelled"
  PROVE  Grows /\ RecordedIsAudited' /\ StatusBacked'
<1>1. Grows
  BY DEF Grows, tables
<1>2. \A n \in paid : note'[n] = note[n]
  BY DEF IInv, TypeOK, NoteInv
<1>a. RecordedIsAudited'
  BY <1>2 DEF IInv, RecordedIsAudited, tables
<1>3. \A s, k : Recorded(s, k) => Recorded(s, k)'
  <2>1. paid \subseteq paid' /\ TypeOK
    BY DEF tables, IInv
  <2> QED
    BY <1>2, <2>1, RecordedStays
<1>4. StatusBacked'
  BY <1>3 DEF IInv, StatusBacked, tables
<1> QED
  BY <1>1, <1>a, <1>4

(* PayFast sends one more notification. *)
LEMMA OneSent ==
  ASSUME IInv, NEW n \in Notices, NEW new \in Notice, note[n] = None,
         note' = [note EXCEPT ![n] = new],
         new.sub # None =>
           /\ sub[new.sub] # None
           /\ new.kind = "CANCELLED" => pf'[new.sub] = "cancelled",
         \A s \in Subs : pf[s] = "cancelled" => pf'[s] = "cancelled",
         \A s \in Subs : pf'[s] # "none" => sub[s] # None,
         pf' \in [Subs -> {"none", "active", "paused", "cancelled"}],
         UNCHANGED <<tables, acked, pc, at, op, loaded, faults, config>>
  PROVE  IInv'
<1> USE BillingAssumption
<1>1. \A m \in Notices : note'[m] = IF m = n THEN new ELSE note[m]
  BY DEF IInv, TypeOK
<1>2. \A m \in Notices : note[m] # None => note'[m] = note[m]
  BY <1>1
<1>3. TypeOK'
  BY DEF IInv, TypeOK, tables, config, Labels
<1>4. Grows /\ RecordedIsAudited' /\ StatusBacked'
  BY <1>2, SameTables DEF config
<1>5. NoteInv'
  <2>1. \A m \in Notices : Ours(m) => note[m].sub \in Subs
    BY DEF IInv, TypeOK, Notice, Ours
  <2>2. sub' = sub /\ paid' = paid /\ acked' = acked
    BY DEF tables
  <2>3. \A m \in paid \cup acked : m \in Notices /\ m # n /\ note[m] # None
    BY DEF IInv, TypeOK, NoteInv
  <2>4. ASSUME NEW m \in Notices, Ours(m)'
        PROVE  /\ sub'[note'[m].sub] # None
               /\ note'[m].kind = "CANCELLED" =>
                    pf'[note'[m].sub] = "cancelled"
    <3>1. CASE m = n
      BY <2>2, <2>4, <3>1, <1>1 DEF Ours
    <3>2. CASE m # n
      <4>1. note'[m] = note[m] /\ Ours(m)
        BY <2>4, <3>2, <1>1 DEF Ours
      <4> QED
        BY <4>1, <2>1, <2>2 DEF IInv, NoteInv
    <3> QED
      BY <3>1, <3>2
  <2> QED
    BY <1>1, <2>2, <2>3, <2>4 DEF NoteInv
<1>6. AtInv'
  BY <1>4, AllKeep
<1>7. AckedIsRecorded'
  <2>1. \A m \in acked : note'[m] = note[m]
    BY <1>2 DEF IInv, TypeOK, NoteInv
  <2> QED
    BY <2>1 DEF IInv, AckedIsRecorded, tables
<1> QED
  BY <1>3, <1>4, <1>5, <1>6, <1>7 DEF IInv

LEMMA SameNotes ==
  ASSUME IInv, Grows, UNCHANGED note,
         \A n \in paid' : n \in paid \/ note[n] # None,
         \A n \in acked' : n \in acked \/ note[n] # None,
         \A s \in Subs : pf'[s] # "none" => pf[s] # "none" \/ sub[s] # None
  PROVE  NoteInv'
<1>1. \A n \in Notices : Ours(n) =>
        sub'[note[n].sub] # None /\ note[n].sub \in Subs
  BY BillingAssumption DEF IInv, TypeOK, NoteInv, Notice, Grows, Ours
<1> QED
  BY <1>1 DEF IInv, NoteInv, Grows, Ours

LEMMA CheckoutKeeps ==
  ASSUME IInv, NEW s \in Subs, Checkout(s)
  PROVE  IInv'
<1> USE BillingAssumption
<1> DEFINE new == [status |-> "pending", token |-> FALSE]
<1>0. new \in SubRow /\ new.status = "pending" /\ ~new.token
  BY DEF SubRow, Status
<1>1. new \in SubRow /\ new # None /\ new.status = "pending" /\ ~new.token
  BY <1>0
<1>2. sub[s] = None /\ sub' = [sub EXCEPT ![s] = new]
  BY DEF Checkout
<1> HIDE DEF new
<1>3. TypeOK'
  <2>1. sub' \in [Subs -> SubRow \cup {None}]
    BY <1>1, <1>2 DEF IInv, TypeOK
  <2>2. /\ paid' = paid /\ logged' = logged /\ note' = note
        /\ acked' = acked /\ pf' = pf /\ repriced' = repriced
        /\ pc' = pc /\ at' = at /\ op' = op /\ loaded' = loaded
        /\ audit' = audit /\ level' = level /\ faults' = faults
    BY DEF Checkout, config
  <2> QED
    BY <2>1, <2>2 DEF IInv, TypeOK
<1>4. Grows
  BY <1>1, <1>2 DEF IInv, TypeOK, Checkout, config, Grows
<1>5. NoteInv'
  BY <1>4, SameNotes DEF Checkout, IInv, NoteInv
<1>6. AtInv'
  BY <1>4, AllKeep DEF Checkout
<1>7. AckedIsRecorded' /\ RecordedIsAudited'
  BY DEF IInv, AckedIsRecorded, RecordedIsAudited, Checkout, config
<1>8. StatusBacked'
  <2>1. \A q, k : Recorded(q, k) => Recorded(q, k)'
    BY RecordedStays DEF Checkout, IInv
  <2>2. \A q \in Subs : sub'[q] = IF q = s THEN new ELSE sub[q]
    BY <1>2 DEF IInv, TypeOK
  <2> QED
    BY <1>1, <2>1, <2>2 DEF IInv, StatusBacked, Checkout
<1> QED
  BY <1>3, <1>5, <1>6, <1>7, <1>8 DEF IInv

LEMMA RepriceKeeps ==
  ASSUME IInv, Reprice
  PROVE  IInv'
<1>1. TypeOK'
  BY DEF IInv, TypeOK, Reprice, tables, Labels
<1>2. Grows /\ RecordedIsAudited' /\ StatusBacked'
  BY SameTables DEF Reprice
<1>3. NoteInv'
  BY <1>2, SameNotes DEF Reprice, tables
<1>4. AtInv'
  BY <1>2, AllKeep DEF Reprice
<1>5. AckedIsRecorded'
  BY DEF IInv, AckedIsRecorded, Reprice, tables
<1> QED
  BY <1>1, <1>2, <1>3, <1>4, <1>5 DEF IInv

-----------------------------------------------------------------------------
(* PayFast. *)

LEMMA ChargeKeeps ==
  ASSUME IInv, NEW s \in Subs, NEW n \in Notices,
         NEW kind \in {"COMPLETE", "FAILED", "OTHER"}, Charge(s, n, kind)
  PROVE  IInv'
<1> USE BillingAssumption
<1> DEFINE new == [sub |-> s, kind |-> kind]
<1>1. new \in Notice /\ new.sub = s /\ new.kind # "CANCELLED"
  BY DEF Notice
<1>2. /\ note[n] = None /\ note' = [note EXCEPT ![n] = new]
      /\ sub[s] # None
      /\ UNCHANGED <<tables, acked, pc, at, op, loaded, faults, config>>
  BY DEF Charge
<1> HIDE DEF new
<1>3. /\ pf' \in [Subs -> {"none", "active", "paused", "cancelled"}]
      /\ \A q \in Subs : pf[q] = "cancelled" => pf'[q] = "cancelled"
      /\ \A q \in Subs : q # s => pf'[q] = pf[q]
  BY DEF IInv, TypeOK, Charge
<1>4. \A q \in Subs : pf'[q] # "none" => sub[q] # None
  BY <1>2, <1>3 DEF IInv, NoteInv
<1> QED
  BY <1>1, <1>2, <1>3, <1>4, OneSent

LEMMA CustomerCancelsKeeps ==
  ASSUME IInv, NEW s \in Subs, CustomerCancels(s)
  PROVE  IInv'
<1>1. /\ pf' \in [Subs -> {"none", "active", "paused", "cancelled"}]
      /\ \A q \in Subs : pf[q] = "cancelled" => pf'[q] = "cancelled"
      /\ \A q \in Subs : pf'[q] # "none" => pf[q] # "none"
  BY DEF IInv, TypeOK, CustomerCancels
<1>2. TypeOK'
  BY <1>1 DEF IInv, TypeOK, CustomerCancels, tables, config, Labels
<1>3. Grows /\ RecordedIsAudited' /\ StatusBacked'
  BY <1>1, SameTables DEF CustomerCancels, config
<1>4. NoteInv'
  <2>1. \A n \in Notices : Ours(n) => note[n].sub \in Subs
    BY BillingAssumption DEF IInv, TypeOK, Notice, Ours
  <2> QED
    BY <2>1, <1>1 DEF IInv, NoteInv, CustomerCancels, tables, Ours
<1>5. AtInv'
  BY <1>3, AllKeep DEF CustomerCancels
<1>6. AckedIsRecorded'
  BY DEF IInv, AckedIsRecorded, CustomerCancels, tables
<1> QED
  BY <1>2, <1>3, <1>4, <1>5, <1>6 DEF IInv

LEMMA NotifyCancelledKeeps ==
  ASSUME IInv, NEW s \in Subs, NEW n \in Notices, NotifyCancelled(s, n)
  PROVE  IInv'
<1> USE BillingAssumption
<1> DEFINE new == [sub |-> s, kind |-> "CANCELLED"]
<1>1. new \in Notice /\ new.sub = s
  BY DEF Notice
<1>2. /\ note[n] = None /\ pf[s] = "cancelled" /\ pf' = pf
      /\ note' = [note EXCEPT ![n] = new]
      /\ UNCHANGED <<tables, acked, pc, at, op, loaded, faults, config>>
  BY DEF NotifyCancelled
<1> HIDE DEF new
<1>3. /\ \A q \in Subs : pf'[q] # "none" => sub[q] # None
      /\ pf' \in [Subs -> {"none", "active", "paused", "cancelled"}]
  BY <1>2 DEF IInv, TypeOK, NoteInv
<1>4. sub[s] # None
  BY <1>2, <1>3
<1> QED
  BY <1>1, <1>2, <1>3, <1>4, OneSent

LEMMA NotifyStrayKeeps ==
  ASSUME IInv, NEW n \in Notices, NotifyStray(n)
  PROVE  IInv'
<1> DEFINE new == [sub |-> None, kind |-> "COMPLETE"]
<1>1. new \in Notice /\ new.sub = None
  BY DEF Notice
<1>2. /\ note[n] = None /\ pf' = pf
      /\ note' = [note EXCEPT ![n] = new]
      /\ UNCHANGED <<tables, acked, pc, at, op, loaded, faults, config>>
  BY DEF NotifyStray
<1> HIDE DEF new
<1>3. /\ \A q \in Subs : pf'[q] # "none" => sub[q] # None
      /\ pf' \in [Subs -> {"none", "active", "paused", "cancelled"}]
  BY <1>2 DEF IInv, TypeOK, NoteInv
<1> QED
  BY <1>1, <1>2, <1>3, OneSent

-----------------------------------------------------------------------------
(* The steps of handle_itn. *)

LEMMA DeliverUnknownKeeps ==
  ASSUME IInv, NEW n \in Notices, NEW lost \in BOOLEAN,
         DeliverUnknown(n, lost)
  PROVE  IInv'
<1>1. /\ note[n] # None /\ note[n].sub = None
      /\ acked' \subseteq acked \cup {n}
      /\ UNCHANGED <<tables, note, pf, pc, at, op, loaded, config>>
  BY DEF DeliverUnknown
<1>2. faults' \in 0..MaxFaults
  BY BillingAssumption DEF DeliverUnknown, IInv, TypeOK
<1>3. TypeOK'
  BY <1>1, <1>2 DEF IInv, TypeOK, tables, config
<1>4. Grows /\ RecordedIsAudited' /\ StatusBacked'
  BY <1>1, SameTables DEF config
<1>5. NoteInv'
  BY <1>1, <1>4, SameNotes DEF tables, IInv, NoteInv
<1>6. AtInv'
  BY <1>1, <1>4, AllKeep
<1>7. AckedIsRecorded'
  BY <1>1 DEF IInv, AckedIsRecorded, tables
<1> QED
  BY <1>3, <1>4, <1>5, <1>6, <1>7 DEF IInv

LEMMA DeliverKeeps ==
  ASSUME IInv, NEW r \in Requests, NEW n \in Notices, Deliver(r, n)
  PROVE  IInv'
<1> USE BillingAssumption
<1>1. note[n] \in Notice /\ note[n].sub \in Subs
  BY DEF Deliver, IInv, TypeOK, Notice
<1>2. sub[note[n].sub] \in SubRow
  BY <1>1 DEF Deliver, IInv, TypeOK, NoteInv, Ours
<1>3. sub[note[n].sub].status \in Status
  BY <1>2 DEF SubRow
<1>4. PICK l \in {"commit", "audit"} :
        /\ pc' = [pc EXCEPT ![r] = l]
        /\ l = "commit" <=> audit = "none" \/ note[n].kind = "OTHER"
  BY DEF Deliver
<1>5. faults' \in 0..MaxFaults
  BY DEF Deliver, IInv, TypeOK
<1>6. TypeOK'
  BY <1>3, <1>4, <1>5 DEF IInv, TypeOK, Deliver, tables, config, Labels
<1>7. Grows /\ RecordedIsAudited' /\ StatusBacked'
  BY SameTables DEF Deliver, config
<1>8. NoteInv'
  BY DEF IInv, NoteInv, Deliver, tables, Ours
<1>9. AtInv'
  <2>1. /\ pc'[r] = l /\ at'[r] = n /\ loaded'[r] \in Status
        /\ note'[n] # None /\ note'[n].sub # None
        /\ note' = note /\ audit' = audit
    BY <1>3, <1>4 DEF IInv, TypeOK, Deliver, config
  <2>2. AtReq(r)'
    BY <2>1, <1>4 DEF AtReq, Ours
  <2>3. \A q \in Requests \ {r} :
          /\ pc'[q] = pc[q] /\ at'[q] = at[q]
          /\ op'[q] = op[q] /\ loaded'[q] = loaded[q]
    BY <1>4 DEF IInv, TypeOK, Deliver
  <2> QED
    BY <2>2, <2>3, <1>7, OneMoves
<1>10. AckedIsRecorded'
  BY DEF IInv, AckedIsRecorded, Deliver, tables
<1> QED
  BY <1>6, <1>7, <1>8, <1>9, <1>10 DEF IInv

(* The tables after a commit of handle_itn's session. *)
LEMMA WriteKeeps ==
  ASSUME IInv, NEW r \in Requests, pc[r] \in {"audit", "commit"}, Write(r),
         logged \subseteq logged', acked' \subseteq acked \cup {at[r]},
         \/ at[r] \in logged'
         \/ audit = "none" \/ note[at[r]].kind = "OTHER",
         UNCHANGED <<note, pf, audit>>
  PROVE  /\ sub' \in [Subs -> SubRow \cup {None}]
         /\ at[r] \in Notices /\ paid' = paid \cup {at[r]}
         /\ Grows /\ NoteInv' /\ RecordedIsAudited' /\ StatusBacked'
<1> USE BillingAssumption
<1> PICK n : n = note[at[r]]
  OBVIOUS
<1>1. /\ n \in Notice /\ at[r] \in Notices
      /\ paid' = paid \cup {at[r]}
      /\ sub[n.sub] \in SubRow
      /\ sub' \in [Subs -> SubRow \cup {None}]
      /\ \A s \in Subs : s # n.sub => sub'[s] = sub[s]
      /\ sub'[n.sub] \in SubRow
      /\ sub'[n.sub].token <=> sub[n.sub].token \/ n.kind = "COMPLETE"
  BY WriteRow
<1>2. n # None /\ sub'[n.sub] # None
  BY <1>1
<1>3. Grows
  BY <1>1, <1>2 DEF Grows
<1>4. NoteInv'
  BY <1>1, <1>2, <1>3, SameNotes DEF IInv, NoteInv
<1>5. RecordedIsAudited'
  BY <1>1 DEF IInv, RecordedIsAudited
<1>6. StatusBacked'
  BY WriteBacked
<1> QED
  BY <1>1, <1>3, <1>4, <1>5, <1>6

(* A request ends: its labels. *)
LEMMA FinishTypes ==
  ASSUME TypeOK, NEW r \in Requests, Finish(r)
  PROVE  /\ pc' \in [Requests -> Labels]
         /\ at' \in [Requests -> Notices \cup Subs \cup {None}]
         /\ op' \in [Requests -> {"cancel", "pause", "unpause", None}]
         /\ loaded' \in [Requests -> Status \cup {None}]
BY DEF TypeOK, Finish, Labels

LEMMA LogActionKeeps ==
  ASSUME IInv, NEW r \in Requests, LogAction(r)
  PROVE  IInv'
<1> USE BillingAssumption
<1>1. /\ at[r] \in Notices /\ Ours(at[r]) /\ loaded[r] \in Status
      /\ logged' = logged \cup {at[r]} /\ pc[r] = "audit"
      /\ audit # "none"
      /\ note' = note /\ acked' = acked /\ pf' = pf /\ repriced' = repriced
      /\ audit' = audit /\ level' = level /\ faults' = faults
  BY DEF LogAction, config, IInv, AtInv, AtReq
<1>2. /\ sub' \in [Subs -> SubRow \cup {None}]
      /\ paid \subseteq paid' /\ paid' \subseteq Notices
      /\ Grows /\ NoteInv' /\ RecordedIsAudited' /\ StatusBacked'
  <2>1. CASE audit = "shared" /\ Write(r)
    <3>1. /\ sub' \in [Subs -> SubRow \cup {None}]
          /\ at[r] \in Notices /\ paid' = paid \cup {at[r]}
          /\ Grows /\ NoteInv' /\ RecordedIsAudited' /\ StatusBacked'
      BY <1>1, <2>1, WriteKeeps
    <3> QED
      BY <3>1 DEF IInv, TypeOK
  <2>2. CASE UNCHANGED <<sub, paid>>
    <3>1. Grows
      BY <1>1, <2>2 DEF Grows
    <3>2. NoteInv' /\ RecordedIsAudited'
      BY <1>1, <2>2 DEF IInv, NoteInv, RecordedIsAudited, Ours
    <3>3. \A s, k : Recorded(s, k) => Recorded(s, k)'
      BY <1>1, <2>2, RecordedStays DEF IInv
    <3>4. StatusBacked'
      BY <1>1, <2>2, <3>3 DEF IInv, StatusBacked
    <3> QED
      BY <2>2, <3>1, <3>2, <3>4 DEF IInv, TypeOK
  <2> QED
    BY <2>1, <2>2 DEF LogAction
<1>3. /\ pc' \in [Requests -> Labels]
      /\ at' \in [Requests -> Notices \cup Subs \cup {None}]
      /\ op' \in [Requests -> {"cancel", "pause", "unpause", None}]
      /\ loaded' \in [Requests -> Status \cup {None}]
      /\ AtInv'
  <2>1. CASE Finish(r)
    BY <2>1, <1>2, FinishTypes, EndKeeps DEF IInv
  <2>2. CASE audit = "shared" /\ Goto(r, "answer")
    <3>1. at[r] \in paid'
      BY <1>1, <2>2 DEF LogAction, Write
    <3>2. /\ pc' \in [Requests -> Labels] /\ pc'[r] = "answer"
          /\ UNCHANGED <<at, op, loaded>>
          /\ AtReq(r)' => AtInv'
      BY <2>2, <1>2, GotoMoves DEF Labels
    <3>3. AtReq(r)'
      BY <1>1, <3>1, <3>2 DEF AtReq, Ours
    <3> QED
      BY <3>2, <3>3 DEF IInv, TypeOK
  <2>3. CASE Goto(r, "commit")
    <3>1. /\ pc' \in [Requests -> Labels] /\ pc'[r] = "commit"
          /\ UNCHANGED <<at, op, loaded>>
          /\ AtReq(r)' => AtInv'
      BY <2>3, <1>2, GotoMoves DEF Labels
    <3>2. AtReq(r)'
      BY <1>1, <3>1 DEF AtReq, Ours
    <3> QED
      BY <3>1, <3>2 DEF IInv, TypeOK
  <2> QED
    BY <2>1, <2>2, <2>3 DEF LogAction
<1>4. TypeOK'
  BY <1>1, <1>2, <1>3 DEF IInv, TypeOK
<1>5. AckedIsRecorded'
  BY <1>1, <1>2 DEF IInv, AckedIsRecorded
<1> QED
  BY <1>2, <1>3, <1>4, <1>5 DEF IInv

LEMMA CommitKeeps ==
  ASSUME IInv, NEW r \in Requests, NEW lost \in BOOLEAN, Commit(r, lost)
  PROVE  IInv'
<1> USE BillingAssumption
<1>1. /\ at[r] \in Notices /\ note[at[r]] # None
      /\ pc[r] = "commit" =>
           audit = "none" \/ at[r] \in logged \/ note[at[r]].kind = "OTHER"
      /\ pc[r] = "answer" => at[r] \in paid
      /\ logged' = logged /\ note' = note /\ pf' = pf
      /\ repriced' = repriced /\ audit' = audit /\ level' = level
      /\ pc[r] \in {"commit", "answer"} /\ Finish(r)
  BY DEF Commit, config, IInv, AtInv, AtReq, Ours
<1>4. faults' \in 0..MaxFaults /\ acked' \subseteq acked \cup {at[r]}
  BY DEF Commit, IInv, TypeOK
<1>2. /\ sub' \in [Subs -> SubRow \cup {None}]
      /\ paid \subseteq paid' /\ paid' \subseteq Notices
      /\ at[r] \in paid'
      /\ Grows /\ NoteInv' /\ RecordedIsAudited' /\ StatusBacked'
  <2>1. CASE pc[r] = "commit"
    <3>1. Write(r)
      BY <2>1 DEF Commit
    <3>2. /\ sub' \in [Subs -> SubRow \cup {None}]
          /\ at[r] \in Notices /\ paid' = paid \cup {at[r]}
          /\ Grows /\ NoteInv' /\ RecordedIsAudited' /\ StatusBacked'
      BY <1>1, <1>4, <2>1, <3>1, WriteKeeps
    <3> QED
      BY <3>2 DEF IInv, TypeOK
  <2>2. CASE pc[r] = "answer"
    <3>1. UNCHANGED <<sub, paid>>
      BY <2>2 DEF Commit
    <3>2. Grows /\ RecordedIsAudited' /\ StatusBacked'
      BY <1>1, <3>1, SameTables DEF tables
    <3>3. NoteInv'
      BY <1>1, <1>4, <3>1 DEF IInv, NoteInv, Ours
    <3> QED
      BY <1>1, <2>2, <3>1, <3>2, <3>3 DEF IInv, TypeOK
  <2> QED
    BY <1>1, <2>1, <2>2
<1>3. /\ pc' \in [Requests -> Labels]
      /\ at' \in [Requests -> Notices \cup Subs \cup {None}]
      /\ op' \in [Requests -> {"cancel", "pause", "unpause", None}]
      /\ loaded' \in [Requests -> Status \cup {None}]
      /\ AtInv'
  BY <1>1, <1>2, FinishTypes, EndKeeps DEF IInv
<1>5. TypeOK'
  BY <1>1, <1>2, <1>3, <1>4 DEF IInv, TypeOK
<1>6. AckedIsRecorded'
  BY <1>1, <1>2, <1>4 DEF IInv, AckedIsRecorded
<1> QED
  BY <1>2, <1>3, <1>5, <1>6 DEF IInv

-----------------------------------------------------------------------------
(* The steps of cancel, pause and unpause. *)

LEMMA ManageKeeps ==
  ASSUME IInv, NEW r \in Requests, NEW s \in Subs, NEW o \in Ops,
         Manage(r, s, o)
  PROVE  IInv'
<1> USE BillingAssumption
<1>1. sub[s] \in SubRow
  BY DEF Manage, IInv, TypeOK
<1>2. sub[s].status \in Status
  BY <1>1 DEF SubRow
<1>3. TypeOK'
  BY <1>2 DEF IInv, TypeOK, Manage, tables, config, Labels, Ops
<1>4. Grows /\ RecordedIsAudited' /\ StatusBacked'
  BY SameTables DEF Manage, config
<1>5. NoteInv'
  BY DEF IInv, NoteInv, Manage, tables, Ours
<1>6. AtInv'
  <2>1. /\ pc'[r] = "call" /\ at'[r] = s /\ op'[r] = o
        /\ sub'[s] # None /\ sub'[s].token
    BY DEF IInv, TypeOK, Manage, tables
  <2>2. AtReq(r)'
    BY <2>1 DEF AtReq
  <2>3. \A q \in Requests \ {r} :
          /\ pc'[q] = pc[q] /\ at'[q] = at[q]
          /\ op'[q] = op[q] /\ loaded'[q] = loaded[q]
    BY DEF IInv, TypeOK, Manage
  <2> QED
    BY <2>2, <2>3, <1>4, OneMoves
<1>7. AckedIsRecorded'
  BY DEF IInv, AckedIsRecorded, Manage, tables
<1> QED
  BY <1>3, <1>4, <1>5, <1>6, <1>7 DEF IInv

(* What PayFast does when it is asked: it never revives a cancelled        *)
(* subscription.                                                           *)
LEMMA Asked ==
  ASSUME IInv, NEW r \in Requests, pc[r] = "call",
         \/ pf' = pf
         \/ Accepts(op[r], pf[at[r]])
            /\ pf' = [pf EXCEPT ![at[r]] = Sets[op[r]]]
  PROVE  /\ at[r] \in Subs /\ op[r] \in Ops
         /\ sub[at[r]] # None /\ sub[at[r]].token
         /\ pf' \in [Subs -> {"none", "active", "paused", "cancelled"}]
         /\ \A s \in Subs : pf[s] = "cancelled" => pf'[s] = "cancelled"
         /\ \A s \in Subs : pf'[s] # "none" => pf[s] # "none"
<1>1. /\ at[r] \in Subs /\ op[r] \in Ops
      /\ sub[at[r]] # None /\ sub[at[r]].token
  BY DEF IInv, AtInv, AtReq
<1>2. Sets[op[r]] \in {"active", "paused", "cancelled"}
  BY <1>1 DEF Sets, Ops
<1>3. Accepts(op[r], pf[at[r]]) => pf[at[r]] \in {"active", "paused"}
  BY DEF Accepts
<1>4. pf \in [Subs -> {"none", "active", "paused", "cancelled"}]
  BY DEF IInv, TypeOK
<1> QED
  BY <1>1, <1>2, <1>3, <1>4

LEMMA CallProviderKeeps ==
  ASSUME IInv, NEW r \in Requests, CallProvider(r)
  PROVE  IInv'
<1>1. /\ pc[r] = "call" /\ Goto(r, "write")
      /\ Accepts(op[r], pf[at[r]])
      /\ pf' = [pf EXCEPT ![at[r]] = Sets[op[r]]]
      /\ UNCHANGED <<tables, note, acked, faults, config>>
  BY DEF CallProvider
<1>2. /\ at[r] \in Subs /\ op[r] \in Ops
      /\ sub[at[r]] # None /\ sub[at[r]].token
      /\ pf' \in [Subs -> {"none", "active", "paused", "cancelled"}]
      /\ \A s \in Subs : pf[s] = "cancelled" => pf'[s] = "cancelled"
      /\ \A s \in Subs : pf'[s] # "none" => pf[s] # "none"
  BY <1>1, Asked
<1>3. Grows /\ RecordedIsAudited' /\ StatusBacked'
  BY <1>1, <1>2, SameTables DEF config
<1>4. NoteInv'
  BY <1>1, <1>2, <1>3, SameNotes DEF tables
<1>5. /\ pc' \in [Requests -> Labels] /\ pc'[r] = "write"
      /\ UNCHANGED <<at, op, loaded>>
      /\ AtReq(r)' => AtInv'
  BY <1>1, <1>3, GotoMoves DEF Labels
<1>6. AtReq(r)'
  <2>1. op[r] = "cancel" => pf'[at[r]] = "cancelled"
    BY <1>1, <1>2 DEF Sets, IInv, TypeOK
  <2> QED
    BY <1>1, <1>2, <1>5, <2>1 DEF AtReq, tables
<1>7. TypeOK'
  BY <1>1, <1>2, <1>5 DEF IInv, TypeOK, tables, config
<1>8. AckedIsRecorded'
  BY <1>1 DEF IInv, AckedIsRecorded, tables
<1> QED
  BY <1>3, <1>4, <1>5, <1>6, <1>7, <1>8 DEF IInv

(* The end of a request that has written nothing, whatever PayFast did. *)
LEMMA EndsKeeps ==
  ASSUME IInv, NEW r \in Requests, Finish(r),
         UNCHANGED <<tables, note, acked, config>>, faults' \in 0..MaxFaults,
         \/ pf' = pf
         \/ pc[r] = "call" /\ Accepts(op[r], pf[at[r]])
            /\ pf' = [pf EXCEPT ![at[r]] = Sets[op[r]]]
  PROVE  IInv'
<1>1. /\ pf' \in [Subs -> {"none", "active", "paused", "cancelled"}]
      /\ \A s \in Subs : pf[s] = "cancelled" => pf'[s] = "cancelled"
      /\ \A s \in Subs : pf'[s] # "none" => pf[s] # "none"
  <2>1. CASE pf' = pf
    BY <2>1 DEF IInv, TypeOK
  <2>2. CASE /\ pc[r] = "call" /\ Accepts(op[r], pf[at[r]])
             /\ pf' = [pf EXCEPT ![at[r]] = Sets[op[r]]]
    BY <2>2, Asked
  <2> QED
    BY <2>1, <2>2
<1>2. Grows /\ RecordedIsAudited' /\ StatusBacked'
  BY <1>1, SameTables DEF config
<1>3. NoteInv'
  BY <1>1, <1>2, SameNotes DEF tables
<1>4. /\ pc' \in [Requests -> Labels]
      /\ at' \in [Requests -> Notices \cup Subs \cup {None}]
      /\ op' \in [Requests -> {"cancel", "pause", "unpause", None}]
      /\ loaded' \in [Requests -> Status \cup {None}]
      /\ AtInv'
  BY <1>2, FinishTypes, EndKeeps DEF IInv
<1>5. TypeOK'
  BY <1>1, <1>4 DEF IInv, TypeOK, tables, config
<1>6. AckedIsRecorded'
  BY DEF IInv, AckedIsRecorded, tables
<1> QED
  BY <1>2, <1>3, <1>4, <1>5, <1>6 DEF IInv

LEMMA ManageCommitKeeps ==
  ASSUME IInv, NEW r \in Requests, ManageCommit(r)
  PROVE  IInv'
<1> USE BillingAssumption
<1> PICK s : s = at[r]
  OBVIOUS
<1> PICK st : st = SetStatus(r, s, Sets[op[r]])
  OBVIOUS
<1>1. /\ s \in Subs /\ op[r] \in Ops /\ sub[s] # None /\ sub[s].token
      /\ op[r] = "cancel" => pf[s] = "cancelled"
  BY DEF IInv, AtInv, AtReq, ManageCommit
<1>2. sub[s] \in SubRow /\ sub[s].status \in Status
  BY <1>1 DEF IInv, TypeOK, SubRow
<1>3. st \in {sub[s].status, Sets[op[r]]} /\ st \in Status
  BY <1>1, <1>2 DEF SetStatus, Sets, Ops, Status
<1> DEFINE new == [sub[s] EXCEPT !.status = st]
<1>4. new \in SubRow /\ new.status = st /\ new.token = sub[s].token
  BY <1>2, <1>3 DEF SubRow
<1>5. new # None
  BY <1>4
<1>6. /\ sub' = [sub EXCEPT ![s] = new] /\ Finish(r)
      /\ UNCHANGED <<paid, logged, note, acked, pf, faults, config>>
  BY DEF ManageCommit
<1> HIDE DEF new
<1>7. /\ sub' \in [Subs -> SubRow \cup {None}]
      /\ \A q \in Subs : sub'[q] = IF q = s THEN new ELSE sub[q]
  BY <1>1, <1>4, <1>6 DEF IInv, TypeOK
<1>8. Grows
  BY <1>1, <1>4, <1>5, <1>6, <1>7 DEF Grows, config
<1>9. NoteInv'
  BY <1>6, <1>8, SameNotes DEF IInv, NoteInv
<1>10. /\ pc' \in [Requests -> Labels]
       /\ at' \in [Requests -> Notices \cup Subs \cup {None}]
       /\ op' \in [Requests -> {"cancel", "pause", "unpause", None}]
       /\ loaded' \in [Requests -> Status \cup {None}]
       /\ AtInv'
  BY <1>6, <1>8, FinishTypes, EndKeeps DEF IInv
<1>11. TypeOK'
  BY <1>6, <1>7, <1>10 DEF IInv, TypeOK, config
<1>12. AckedIsRecorded' /\ RecordedIsAudited'
  BY <1>6 DEF IInv, AckedIsRecorded, RecordedIsAudited, config
<1>13. StatusBacked'
  <2>1. \A q, k : Recorded(q, k) => Recorded(q, k)'
    BY <1>6, RecordedStays DEF IInv
  <2>2. /\ Recorded(s, "COMPLETE")
        /\ sub[s].status = "failed" => Recorded(s, "FAILED")
        /\ sub[s].status = "cancelled" => pf[s] = "cancelled"
    BY <1>1 DEF IInv, StatusBacked
  <2>3. st = "failed" => sub[s].status = "failed"
    BY <1>1, <1>3 DEF Sets, Ops
  <2>4. st = "cancelled" => pf[s] = "cancelled"
    BY <1>1, <1>3, <2>2 DEF Sets, Ops
  <2>5. \A q \in Subs : q # s /\ sub[q] # None =>
          /\ sub[q].status \in {"active", "paused"} \/ sub[q].token =>
               Recorded(q, "COMPLETE")
          /\ sub[q].status = "failed" => Recorded(q, "FAILED")
          /\ sub[q].status = "cancelled" => pf[q] = "cancelled"
    BY DEF IInv, StatusBacked
  <2> QED
    BY <1>4, <1>6, <1>7, <2>1, <2>2, <2>3, <2>4, <2>5 DEF StatusBacked
<1> QED
  BY <1>9, <1>10, <1>11, <1>12, <1>13 DEF IInv

-----------------------------------------------------------------------------
LEMMA StepInv == IInv /\ [Next]_vars => IInv'
<1> SUFFICES ASSUME IInv, [Next]_vars PROVE IInv'
  OBVIOUS
<1>1. CASE Reprice
  BY <1>1, RepriceKeeps
<1>2. ASSUME NEW s \in Subs,
             \/ Checkout(s) \/ CustomerCancels(s)
             \/ \E n \in Notices :
                  \/ \E kind \in {"COMPLETE", "FAILED", "OTHER"} :
                       Charge(s, n, kind)
                  \/ NotifyCancelled(s, n)
      PROVE  IInv'
  BY <1>2, CheckoutKeeps, CustomerCancelsKeeps, ChargeKeeps,
     NotifyCancelledKeeps
<1>9. ASSUME NEW n \in Notices,
             NotifyStray(n) \/ \E lost \in BOOLEAN : DeliverUnknown(n, lost)
      PROVE  IInv'
  BY <1>9, NotifyStrayKeeps, DeliverUnknownKeeps
<1>3. ASSUME NEW r \in Requests, \E n \in Notices : Deliver(r, n)
      PROVE  IInv'
  BY <1>3, DeliverKeeps
<1>4. ASSUME NEW r \in Requests,
             LogAction(r) \/ \E lost \in BOOLEAN : Commit(r, lost)
      PROVE  IInv'
  BY <1>4, LogActionKeeps, CommitKeeps
<1>5. ASSUME NEW r \in Requests,
             \/ \E s \in Subs, o \in Ops : Manage(r, s, o)
             \/ CallProvider(r) \/ ManageCommit(r)
      PROVE  IInv'
  BY <1>5, ManageKeeps, CallProviderKeeps, ManageCommitKeeps
<1>6. ASSUME NEW r \in Requests, CallRefused(r)
      PROVE  IInv'
  <2>1. faults' \in 0..MaxFaults
    BY <1>6 DEF CallRefused, IInv, TypeOK
  <2> QED
    BY <1>6, <2>1, EndsKeeps DEF CallRefused
<1>7. ASSUME NEW r \in Requests, Fail(r)
      PROVE  IInv'
  <2>1. faults' \in 0..MaxFaults
    BY <1>7, BillingAssumption DEF Fail, IInv, TypeOK
  <2> QED
    BY <1>7, <2>1, EndsKeeps DEF Fail
<1>8. CASE UNCHANGED vars
  <2>1. TypeOK'
    BY <1>8 DEF IInv, TypeOK, vars
  <2>2. Grows /\ RecordedIsAudited' /\ StatusBacked'
    BY <1>8, SameTables DEF vars, tables
  <2>3. NoteInv' /\ AckedIsRecorded'
    BY <1>8 DEF IInv, NoteInv, AckedIsRecorded, vars, Ours
  <2>4. AtInv'
    BY <1>8, <2>2, AllKeep DEF vars
  <2> QED
    BY <2>1, <2>2, <2>3, <2>4 DEF IInv
<1> QED
  BY <1>1, <1>2, <1>3, <1>4, <1>5, <1>6, <1>7, <1>8, <1>9 DEF Next, Ops

LEMMA Inductive == Spec => []IInv
<1>1. Init => IInv
  BY InitInv
<1>2. IInv /\ [Next]_vars => IInv'
  BY StepInv
<1> QED
  BY <1>1, <1>2, PTL DEF Spec

(* Every reachable state is of the types the tables and the requests'      *)
(* variables declare.                                                      *)
THEOREM TypeCorrect == Spec => []TypeOK
<1>1. IInv => TypeOK
  BY DEF IInv
<1> QED
  BY <1>1, Inductive, PTL

(* handle_itn answers a notification about a subscription of ours with 200 *)
(* only once it is in the payments table, whatever fails and however       *)
(* deliveries of it overlap.  (An m_payment_id it does not find is         *)
(* answered 200 and recorded nowhere: service.py:85-87.)                   *)
THEOREM AckSafe == Spec => []AckedIsRecorded
<1>1. IInv => AckedIsRecorded
  BY DEF IInv
<1> QED
  BY <1>1, Inductive, PTL

(* No payment, failure or cancellation is recorded that a configured audit *)
(* service does not know of, for both places its session may be in.  (A    *)
(* payment_status that handle_itn does not know is recorded without.)      *)
THEOREM AuditSafe == Spec => []RecordedIsAudited
<1>1. IInv => RecordedIsAudited
  BY DEF IInv
<1> QED
  BY <1>1, Inductive, PTL

(* A subscription's status has the payment, or the provider's word, behind *)
(* it.                                                                     *)
THEOREM StatusSafe == Spec => []StatusBacked
<1>1. IInv => StatusBacked
  BY DEF IInv
<1> QED
  BY <1>1, Inductive, PTL
=============================================================================
