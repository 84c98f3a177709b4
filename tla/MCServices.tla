----------------------------- MODULE MCServices -----------------------------
(***************************************************************************)
(* The small services as one instance for TLC, with the samples for the    *)
(* algorithms among them.                                                  *)
(***************************************************************************)
EXTENDS Services

(***************************************************************************)
(* Samples for the algorithms.                                             *)
(***************************************************************************)

SeqsUpTo(set, n) == UNION {[1..m -> set] : m \in 0..n}

MCValues == SeqsUpTo(Secrets!Chars, 4)

MCSources ==
  SeqsUpTo({Context!Source(chars, priority, FALSE, lost) :
              chars \in {3, 8, 14}, priority \in 1..2, lost \in 0..1}
           \cup {Context!Source(chars, 1, TRUE, 0) : chars \in {3, 11, 14}}, 3)

MCUsers == {Flags!Nobody} \cup [id : {"u1", "u2"}, score : {1, 50, 100}]

MCFlags ==
  [isActive : BOOLEAN, rolloutPercentage : {-1, 0, 1, 49, 50, 99, 100, 101},
   rules : [userIds : {None, {}, {"u1"}}, environments : {None, {}, {"prod"}}]]

MCServiceConfigs ==
  {[private |-> Access!Pem("RSA", 2048, id),
    public |-> Access!Pem("RSA", 2048, other),
    minutes |-> 1, iss |-> iss, aud |-> "api"] :
     id \in {"key1", "key2"}, other \in {"key1", "key2"},
     iss \in {"auth", "other"}}

MCExtra ==
  {<<>>, [role |-> "r"], [type |-> "refresh"], [nbf |-> 2]}

MCCatalogs ==
  [{"t1", "t2"} -> SeqsUpTo({Templates!EnvVarSpec(name, required, sensitive) :
                               name \in {"A", "B"}, required \in BOOLEAN,
                               sensitive \in BOOLEAN}, 1)]

\* Of the rows that may be there, "b" may go or change between the queries.
MCRows(ids) ==
  UNION {{{Results!Row(id, distance[id], rank[id]) : id \in there} :
            distance \in [there -> 0..1], rank \in [there -> 0..1]} :
           there \in SUBSET ids}

\* The time limit of a check is beyond each latency that counts as slow.
MCDependencies ==
  [kind : {"redis"}, does : {"answers", "raises", "hangs"}, ms : {50, 51},
   degradedAboveMs : {50}]
  \cup [kind : {"cache"}, does : {"answers", "raises", "hangs"},
        ms : {100, 101}, degradedAboveMs : {100},
        takesTtl : BOOLEAN, returnsTheValue : BOOLEAN]

\* Conversations whose rows have their times in order, some the same.
MCTurns ==
  {turns \in UNION {[1..m -> {History!Turn(i, t) : i \in 1..m, t \in 1..3}] :
                      m \in 0..3} :
     /\ \A i \in DOMAIN turns : turns[i].place = i
     /\ \A i, j \in DOMAIN turns :
          i < j => turns[i].createdAt <= turns[j].createdAt}

MCSamples ==
  [dotenv : MCValues]
  \cup [sources : MCSources, limit : 1..6]
  \cup [flag : MCFlags, user : MCUsers,
        environment : {None, "prod", "staging"}]
  \cup [maker : MCServiceConfigs, checker : MCServiceConfigs, extra : MCExtra,
        user : {"u1"}, active : [{"u1"} -> BOOLEAN], made : 0..1,
         now : {1, 3, 4, 118, 119, 120, 121}]
  \cup [catalog : MCCatalogs, templates : SeqsUpTo({"t1", "t2", "t3"}, 3),
         present : SUBSET {"A", "B", "C"}]
  \cup [rows : MCRows({"a", "b"}), now : MCRows({"b", "c"}), limit : 0..3]
  \cup [dependencies : {{d, e} : d, e \in MCDependencies}, strict : BOOLEAN]
  \cup [turns : MCTurns, limit : 0..4]
  \cup [weights : SeqsUpTo({20, 30, 40}, 3), further : {20, 40},
        flag : {30, 70}, block : {30, 70}, level : {"INFO", "WARNING", "ERROR"}]

MCOrders == {<<"k1", "k2">>, <<"k2", "k1">>}
MCMaxRetries == <<1, 2>>
=============================================================================
