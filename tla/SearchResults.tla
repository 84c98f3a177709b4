---------------------------- MODULE SearchResults ----------------------------
(***************************************************************************)
(* The three searches of search_service over a set of rows: each row has   *)
(* an id, its distance from the query's vector (beyond all others if it    *)
(* has no embedding: NULLs come last) and its rank for the query's words,  *)
(* 0 if they do not match.  The database orders rows that tie as it likes, *)
(* so that a search has a set of answers.                                  *)
(***************************************************************************)
EXTENDS Integers, Sequences, FiniteSets

Row(id, distance, rank) == [id |-> id, distance |-> distance, rank |-> rank]

\* The rows of the table: an id is a row's own.
Indexed(rows) ==
  IsFiniteSet(rows) /\ \A row, other \in rows : row.id = other.id => row = other

Least(m, n) == IF m < n THEN m ELSE n

\* ORDER BY key LIMIT limit: the sequences of limit rows, the first ones first.
Answers(rows, key, limit) ==
  {s \in [1..Least(limit, Cardinality(rows)) -> rows] :
     /\ \A i, j \in DOMAIN s : s[i] = s[j] => i = j
     /\ \A i, j \in DOMAIN s : i < j => key[s[i]] <= key[s[j]]
     /\ \A row \in rows \ {s[i] : i \in DOMAIN s}, i \in DOMAIN s :
          key[s[i]] <= key[row]}

KeywordSearch(rows, limit) ==
  LET matches == {row \in rows : row.rank > 0} IN
  Answers(matches, [row \in matches |-> -row.rank], limit)

\* The index of the embeddings is approximate and leaves rows without one out:
\* a scan of it finds any of the rows, and only these are put in order.
SemanticSearch(rows, limit) ==
  UNION {Answers(found, [row \in found |-> row.distance], limit) :
           found \in SUBSET rows}

\* A row whose id is among the rows already is passed over.
Seen(rows, row) == \E i \in DOMAIN rows : rows[i].id = row.id
Combined(rows, row) == IF Seen(rows, row) THEN rows ELSE Append(rows, row)

\* The rows of both answers in their order, each id once, cut to the limit.
HybridSearch(semantic, keyword, limit) ==
  LET both == semantic \o keyword
      combined[n \in 0..Len(both)] ==
        IF n = 0 THEN <<>> ELSE Combined(combined[n - 1], both[n])
      rows == combined[Len(both)] IN
  SubSeq(rows, 1, Least(limit, Len(rows)))

(***************************************************************************)
(* The reference: the semantic rows come first and as they are; the rest   *)
(* are keyword matches that are not among them, each id once and the best  *)
(* first; a match that does not surface gave way to better ones and to the *)
(* limit.  The two queries see the table at two moments, as rows and now.  *)
(***************************************************************************)

HybridIsUnion(rows, now, limit) ==
  \A semantic \in SemanticSearch(rows, limit),
     keyword \in KeywordSearch(now, limit) :
    LET result == HybridSearch(semantic, keyword, limit)
        added == (Len(semantic) + 1)..Len(result)
        ids == {result[i].id : i \in DOMAIN result} IN
    /\ Len(semantic) <= Len(result) /\ Len(result) <= limit
    /\ \A i \in DOMAIN semantic : result[i] = semantic[i]
    /\ Cardinality(ids) = Len(result)
    /\ \A i \in added : \E l \in DOMAIN keyword : result[i] = keyword[l]
    /\ \A i, j \in added, l, p \in DOMAIN keyword :
         i < j /\ result[i] = keyword[l] /\ result[j] = keyword[p] => l < p
    /\ \A p \in DOMAIN keyword : keyword[p].id \notin ids =>
         /\ Len(result) = limit
         /\ \A i \in added, l \in DOMAIN keyword :
              result[i] = keyword[l] => l < p
=============================================================================
