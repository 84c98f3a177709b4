---------------------------- MODULE FeatureFlags ----------------------------
(***************************************************************************)
(* FeatureFlagService: a flag decided alone (is_enabled) and with all      *)
(* others (get_all_enabled).  A user is the id, with the score from 1 to   *)
(* 100 that its hash gives it for the flag, or Nobody; an empty rule       *)
(* dictionary is one without either rule.                                  *)
(***************************************************************************)
EXTENDS Integers

CONSTANT None

Flag ==
  [isActive: BOOLEAN, rolloutPercentage: Int,
   rules: [userIds: {None} \cup SUBSET STRING,
           environments: {None} \cup SUBSET STRING]]

Nobody == [id |-> None, score |-> 0]
User == [id: STRING, score: 1..100] \cup {Nobody}

\* _eval_rules: a rule that is not there (None) lets everybody pass.
EvalRules(rules, user, environment) ==
  /\ rules.userIds # None => user.id \in rules.userIds
  /\ rules.environments # None => environment \in rules.environments

HasRules(rules) == rules.userIds # None \/ rules.environments # None

\* Deterministic rollout, in the order of its tests.
InRollout(percentage, user) ==
  \/ percentage >= 100
  \/ percentage > 0 /\ user # Nobody /\ user.score <= percentage

IsEnabled(flag, user, environment) ==
  /\ flag.isActive
  /\ HasRules(flag.rules) => EvalRules(flag.rules, user, environment)
  /\ InRollout(flag.rolloutPercentage, user)

\* Whether the flag's key is in the answer of get_all_enabled.
AllEnabled(flag, user, environment) ==
  /\ flag.isActive
  /\ \/ flag.rolloutPercentage >= 100 /\ ~HasRules(flag.rules)
     \/ IsEnabled(flag, user, environment)

\* Both ways give the same answer, and a user who has a feature keeps it when
\* its rollout grows.
FlagsAgree(flag, user, environment) ==
  /\ AllEnabled(flag, user, environment) <=> IsEnabled(flag, user, environment)
  /\ IsEnabled(flag, user, environment) =>
       IsEnabled([flag EXCEPT !.rolloutPercentage = @ + 1], user, environment)
=============================================================================
