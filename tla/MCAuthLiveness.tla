--------------------------- MODULE MCAuthLiveness ---------------------------
(* AuthSessions started in the middle of its life: one account, a token    *)
(* rotated at time 2 and past its retention by now, and its successor.     *)
(* Here a replay of the old token and a refresh of the new one wait for    *)
(* each other: the replay holds Old and wants New, the cleanup of the      *)
(* refresh holds New and wants Old.  The state is reachable (TTL = 3):     *)
(* login at 0, refresh at 2, clock at 4.                                   *)
EXTENDS AuthSessions

CONSTANTS Old, New

Aged ==
  /\ now = 4
  /\ user = [u \in Users |-> [active |-> TRUE, fails |-> 0, lockedUntil |-> 0]]
  /\ row = [t \in Tokens |->
       CASE t = Old -> [owner |-> CHOOSE u \in Users : TRUE, family |-> Old,
                        revoked |-> TRUE, exp |-> TTL]
         [] t = New -> [owner |-> CHOOSE u \in Users : TRUE, family |-> Old,
                        revoked |-> FALSE, exp |-> 2 + TTL]
         [] OTHER   -> None]
  /\ minted = {Old, New}
  /\ pc = [r \in Requests |-> "idle"]
  /\ who = [r \in Requests |-> None]
  /\ tgt = [r \in Requests |-> None]
  /\ held = [r \in Requests |-> {}]
  /\ stamp = [r \in Requests |-> 0]
  /\ seen = [r \in Requests |-> None]
  /\ todo = [r \in Requests |-> {}]
  /\ snap = [r \in Requests |-> {}]
  /\ misses = [u \in Users |-> 0]

AgedSpec == Aged /\ [][Next]_vars /\ Fairness
=============================================================================
