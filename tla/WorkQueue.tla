------------------------------ MODULE WorkQueue ------------------------------
(* What a table of jobs promises its workers, whatever its columns: an     *)
(* item is with one worker at a time, only that worker settles it, and a   *)
(* done item is not taken again.                                           *)
(*                                                                         *)
(* The one exception: a worker whose item is marked done without its being *)
(* told may take the mark back, and then the item is open once more.       *)
CONSTANTS Items, Workers

VARIABLES
  state,   \* "absent", "open", "lost", "done", or the worker it is with
  doubt    \* <<worker, item>>: done, and the worker still to be told

vars == <<state, doubt>>
States == {"absent", "open", "lost", "done"} \cup Workers
Free == {"open", "lost"}

Init == state = [i \in Items |-> "absent"] /\ doubt = {}

Put(i) ==
  state[i] = "absent" /\ state' = [state EXCEPT ![i] = "open"]
  /\ UNCHANGED doubt

Purge(i) ==
  /\ state[i] = "done" /\ \A w \in Workers : <<w, i>> \notin doubt
  /\ state' = [state EXCEPT ![i] = "absent"]
  /\ UNCHANGED doubt

(* A worker takes free items; if it fails at once they are lost again. *)
Take(w) ==
  /\ state' \in [Items -> States]
  /\ \A i \in Items : state'[i] # state[i] =>
       state[i] \in Free /\ state'[i] \in {w, "lost"}
  /\ UNCHANGED doubt

(* An item is done and its worker does not know. *)
Doubt(w, i) ==
  /\ state[i] = w
  /\ state' = [state EXCEPT ![i] = "done"]
  /\ doubt' = doubt \cup {<<w, i>>}

(* A worker is through with some of its items, or dies with them; those it *)
(* is in doubt about stay done or are opened again, and doubt ends.        *)
Settle(w) ==
  /\ state' \in [Items -> States]
  /\ \A i \in Items : state'[i] # state[i] =>
       \/ state[i] = w /\ state'[i] \in {"open", "lost", "done"}
       \/ <<w, i>> \in doubt /\ state'[i] = "open"
  /\ doubt' \subseteq doubt
  /\ \A p \in doubt \ doubt' : p[1] = w
  /\ \A p \in doubt' : state'[p[2]] = "done"

Next ==
  \/ \E i \in Items : Put(i) \/ Purge(i)
  \/ \E w \in Workers : Take(w) \/ Settle(w)
  \/ \E w \in Workers, i \in Items : Doubt(w, i)

Spec == Init /\ [][Next]_vars
=============================================================================
