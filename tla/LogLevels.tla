------------------------------ MODULE LogLevels ------------------------------
(* The stores log through the standard library, as in                      *)
(* logger.info("job_enqueued", job_id=...).  Logger accepts no such        *)
(* keywords: a call whose level is enabled raises TypeError, a disabled    *)
(* one does nothing.                                                       *)
EXTENDS Naturals

Rank == [DEBUG |-> 10, INFO |-> 20, WARNING |-> 30, ERROR |-> 40,
         CRITICAL |-> 50]

Raises(enabled, call) == Rank[call] >= Rank[enabled]
=============================================================================
