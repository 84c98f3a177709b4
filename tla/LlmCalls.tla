------------------------------ MODULE LlmCalls ------------------------------
(***************************************************************************)
(* A call of a language model as the README files of usage_tracker,        *)
(* fallback_router and response_cache put the services together:           *)
(* ResponseCache.cached_call around check_quota, FallbackRouter.call and   *)
(* record, by concurrent callers for one user and one request.             *)
(*                                                                         *)
(* check_quota adds up the recorded events of the period; nothing reserves *)
(* tokens between the check and the record that follows the answer.        *)
(***************************************************************************)
EXTENDS Naturals, Sequences, FiniteSets

CONSTANTS Callers,
          MaxRetries,   \* max_retries of each provider, in their order
          Limit,        \* max_tokens_per_period of the plan
          MaxTokens,    \* bound: tokens of one answer
          None

VARIABLES caller,    \* per caller: where it is, its provider and attempt
          errors,    \* per caller: the errors list of FallbackRouter.call
          response,  \* the entry of the response cache
          used       \* tokens of the events of this period

llmVars == <<caller, errors, response, used>>

NProviders == Len(MaxRetries)

Init ==
  /\ caller = [c \in Callers |-> [pc |-> "idle", provider |-> 1, attempt |-> 1]]
  /\ errors = [c \in Callers |-> <<>>]
  /\ response = None
  /\ used = 0

Goto(c, pc) == caller' = [caller EXCEPT ![c].pc = pc]

\* cached_call: an entry is the answer, without one call_fn runs.
Lookup(c) ==
  /\ caller[c].pc = "idle"
  /\ Goto(c, IF response = None THEN "check" ELSE "hit")
  /\ UNCHANGED <<errors, response, used>>

\* Slip: the plan's limit itself is still within the quota.
WithinLimitUpTo == used <= Limit

WithinLimit == used < Limit

\* check_quota: over the limit it returns a refusal, or its log call raises;
\* either way the caller goes no further.
CheckQuota(c) ==
  /\ caller[c].pc = "check"
  /\ Goto(c, IF WithinLimit THEN "call" ELSE "refused")
  /\ UNCHANGED <<errors, response, used>>

(***************************************************************************)
(* FallbackRouter.call.                                                    *)
(***************************************************************************)

Retries(c) == MaxRetries[caller[c].provider]

Succeed(c) ==
  /\ caller[c].pc = "call"
  /\ Goto(c, "record")
  /\ UNCHANGED <<errors, response, used>>

\* A retryable exception: the next attempt, the next provider, or the end.
NextAttempt(c) ==
  IF caller[c].attempt < Retries(c)
    THEN [caller[c] EXCEPT !.attempt = @ + 1]
  ELSE IF caller[c].provider < NProviders
    THEN [caller[c] EXCEPT !.provider = @ + 1, !.attempt = 1]
  ELSE [caller[c] EXCEPT !.pc = "failed"]

Fail(c) ==
  /\ caller[c].pc = "call"
  /\ errors' = [errors EXCEPT ![c] = Append(@, caller[c].provider)]
  /\ caller' = [caller EXCEPT ![c] = NextAttempt(c)]
  /\ UNCHANGED <<response, used>>

\* An exception that is not retryable leaves call, and call_safe too: the
\* providers that are left are not tried.
Raise(c) ==
  /\ caller[c].pc = "call"
  /\ Goto(c, "raised")
  /\ UNCHANGED <<errors, response, used>>

\* record: an event with the tokens of the answer, unless the insert fails.
Record(c) ==
  /\ caller[c].pc = "record"
  /\ \/ /\ \E n \in 1..MaxTokens : used' = used + n
        /\ Goto(c, "store")
     \/ Goto(c, "raised") /\ UNCHANGED used
  /\ UNCHANGED <<errors, response>>

\* cached_call stores what call_fn has returned.
Store(c) ==
  /\ caller[c].pc = "store"
  /\ response' = c
  /\ Goto(c, "done")
  /\ UNCHANGED <<errors, used>>

\* The caller returns, and may call again.
Return(c) ==
  /\ caller[c].pc \in {"hit", "refused", "failed", "raised", "done"}
  /\ caller' = [caller EXCEPT ![c] = [pc |-> "idle", provider |-> 1, attempt |-> 1]]
  /\ errors' = [errors EXCEPT ![c] = <<>>]
  /\ UNCHANGED <<response, used>>

\* The entry's time to live is over, or invalidate.
Forget ==
  /\ response # None
  /\ response' = None
  /\ UNCHANGED <<caller, errors, used>>

\* A new month: the events so far are before _period_start.
NewPeriod ==
  /\ used # 0
  /\ used' = 0
  /\ UNCHANGED <<caller, errors, response>>

Next ==
  \/ \E c \in Callers :
       \/ Lookup(c) \/ CheckQuota(c)
       \/ Succeed(c) \/ Fail(c) \/ Raise(c)
       \/ Record(c) \/ Store(c) \/ Return(c)
  \/ Forget
  \/ NewPeriod

(***************************************************************************)
(* Properties.                                                             *)
(***************************************************************************)

\* Callers that have passed check_quota and have not recorded yet.
Passed == {c \in Callers : caller[c].pc \in {"call", "record"}}

\* A period's usage exceeds the plan by no more than the answers of callers
\* that passed the check together: one answer per caller, at most.
OverrunBounded ==
  used + Cardinality(Passed) * MaxTokens
    < Limit + Cardinality(Callers) * MaxTokens

\* A provider is tried only after each one before it has failed, and none more
\* often than it may be; where a call gives up with AllProvidersFailedError all
\* of them have failed.  An exception that is not retryable ends the call at
\* once, whatever providers are left (Raise): fallback_router/README.md:68-70
\* has it move on to the next one.
ProvidersInOrder ==
  \A c \in Callers :
    /\ \A i, j \in DOMAIN errors[c] : i < j => errors[c][i] <= errors[c][j]
    /\ \A p \in 1..NProviders :
         LET tries == Cardinality({i \in DOMAIN errors[c] : errors[c][i] = p}) IN
         /\ tries <= MaxRetries[p]
         /\ p < caller[c].provider \/ caller[c].pc = "failed" => tries > 0
         /\ caller[c].provider < p => tries = 0

LlmCallsSafe == OverrunBounded /\ ProvidersInOrder
=============================================================================
