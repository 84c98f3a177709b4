-------------------------- MODULE MCObservability --------------------------
(***************************************************************************)
(* An instance of Observability for TLC: all reports are about one issue.  *)
(***************************************************************************)
EXTENDS Observability

MCFingerprint == [r \in Reports |-> "f1"]
=============================================================================
