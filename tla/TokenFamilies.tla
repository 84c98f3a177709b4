---------------------------- MODULE TokenFamilies ----------------------------
(* What refresh-token rotation promises, without rows, locks or clocks: a  *)
(* family is opened with one token, each rotation exchanges the family's   *)
(* only live token for one never handed out before, and a closed family    *)
(* never comes back to life.                                               *)
CONSTANT Tokens

VARIABLES
  minted,   \* tokens ever handed out
  live      \* pairs <<family, token>> that can still be rotated

Init == minted = {} /\ live = {}

(* A login. *)
Open(t) ==
  /\ t \notin minted
  /\ minted' = minted \cup {t}
  /\ live' = live \cup {<<t, t>>}

(* A rotation; tokens that are past their use may be dropped with it. *)
Rotate(f, t, n) ==
  /\ <<f, t>> \in live
  /\ n \notin minted
  /\ minted' = minted \cup {n}
  /\ \E dropped \in SUBSET live :
       live' = (live \ (dropped \cup {<<f, t>>})) \cup {<<f, n>>}

(* A logout, a disabled owner or a replay closes one family. *)
Close(f) ==
  /\ minted' = minted
  /\ live' \subseteq live
  /\ live \ live' \subseteq {f} \X Tokens

Next ==
  \/ \E t \in Tokens : Open(t)
  \/ \E f, t, n \in Tokens : Rotate(f, t, n)
  \/ \E f \in Tokens : Close(f)

Spec == Init /\ [][Next]_<<minted, live>>
=============================================================================
