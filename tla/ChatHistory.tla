----------------------------- MODULE ChatHistory -----------------------------
(***************************************************************************)
(* The conversation history of context_assembler in its two backends.  A   *)
(* turn is its place in the conversation and the created_at its row gets;  *)
(* get_history answers the last turns, the oldest of them first.           *)
(***************************************************************************)
EXTENDS Integers, Sequences

Results == INSTANCE SearchResults

\* append_history, which the database gives a time of its own.
Turn(place, createdAt) == [place |-> place, createdAt |-> createdAt]

\* A conversation as it was appended, by a clock that does not go back.
Conversation(turns) ==
  /\ turns \in Seq([place : Nat, createdAt : Int])
  /\ \A i \in DOMAIN turns : turns[i].place = i
  /\ \A i, j \in DOMAIN turns :
       i <= j => turns[i].createdAt <= turns[j].createdAt

\* A Python slice [-limit:]; [-0:] is the whole list.
InMemoryHistory(turns, limit) ==
  SubSeq(turns,
         IF limit = 0 \/ limit > Len(turns) THEN 1 ELSE Len(turns) - limit + 1,
         Len(turns))

Rows(turns) == {turns[i] : i \in DOMAIN turns}

Reversed(rows) == [i \in DOMAIN rows |-> rows[(Len(rows) - i) + 1]]

\* ORDER BY created_at DESC LIMIT, turned round; rows of one time tie.
SupabaseHistories(turns, limit) ==
  {Reversed(rows) :
     rows \in Results!Answers(Rows(turns),
                [row \in Rows(turns) |-> -row.createdAt], limit)}

(***************************************************************************)
(* The reference: a backend can be replaced by the other for every limit   *)
(* that asks for turns, as long as no two of them share a time; those that *)
(* do may change places, no other.  For limit 0 the one answers the whole  *)
(* conversation and the other nothing.                                     *)
(***************************************************************************)

IsEnd(kept, turns) ==
  /\ Len(kept) <= Len(turns)
  /\ \A i \in DOMAIN kept : kept[i] = turns[(Len(turns) - Len(kept)) + i]

BackendsAgree(turns, limit) ==
  LET kept == InMemoryHistory(turns, limit)
      distinct == \A i, j \in DOMAIN turns :
                    turns[i].createdAt = turns[j].createdAt => i = j IN
  /\ limit > 0 /\ distinct => SupabaseHistories(turns, limit) = {kept}
  /\ limit > 0 =>
       /\ Len(kept) <= limit /\ IsEnd(kept, turns)
       /\ \A rows \in SupabaseHistories(turns, limit) :
            /\ Len(rows) = Len(kept)
            /\ \A i \in DOMAIN kept : rows[i].createdAt = kept[i].createdAt
  /\ limit = 0 => kept = turns /\ SupabaseHistories(turns, limit) = {<<>>}
=============================================================================
