--------------------------- MODULE InjectionGuard ---------------------------
(***************************************************************************)
(* InjectionGuard.check of llm_guard on the patterns that match a text.    *)
(* Weights and thresholds are in hundredths: at the default thresholds the *)
(* floats compare as these do, whichever patterns match (at others the sum *)
(* of the floats may be a rounding below: 0.35 + 0.3 < 0.65).  The log     *)
(* calls pass fields a logger of the standard library does not take: one   *)
(* that is not filtered out by the log level raises a TypeError.           *)
(***************************************************************************)
EXTENDS Naturals, Sequences

Sum(weights) ==
  LET sum[n \in 0..Len(weights)] ==
        IF n = 0 THEN 0 ELSE sum[n - 1] + weights[n] IN
  sum[Len(weights)]

Score(weights) == IF Sum(weights) > 100 THEN 100 ELSE Sum(weights)

\* Which log calls reach the handlers, of a logger of this level.
Logged(level) ==
  CASE level = "INFO" -> {"info", "warning"}
    [] level = "WARNING" -> {"warning"}
    [] OTHER -> {}

Decision(weights, flagThreshold, blockThreshold) ==
  IF Score(weights) >= blockThreshold THEN "block"
  ELSE IF Score(weights) >= flagThreshold THEN "flag"
  ELSE "allow"

Check(weights, flagThreshold, blockThreshold, level) ==
  LET decision == Decision(weights, flagThreshold, blockThreshold) IN
  IF \/ decision = "block" /\ "warning" \in Logged(level)
     \/ decision = "flag" /\ "info" \in Logged(level)
    THEN "TypeError"
    ELSE decision

(***************************************************************************)
(* The reference: a text whose score reaches a threshold is never allowed, *)
(* at no log level and whichever threshold is the lower one, and one that  *)
(* matches a further pattern is not judged more lightly.  At the default   *)
(* level a text that is to be blocked raises: "block" is never answered.   *)
(***************************************************************************)

Rank == [allow |-> 0, flag |-> 1, block |-> 2, TypeError |-> 2]

GuardFailsClosed(weights, further, flagThreshold, blockThreshold, level) ==
  LET result == Check(weights, flagThreshold, blockThreshold, level)
      more == Check(Append(weights, further), flagThreshold, blockThreshold,
                    level)
      least == IF flagThreshold < blockThreshold THEN flagThreshold
               ELSE blockThreshold IN
  /\ result = "allow" <=> Score(weights) < least
  /\ level # "INFO" => Rank[result] <= Rank[more]
  /\ result # "allow" => more # "allow"
  /\ level = "WARNING" => result # "block"
=============================================================================
