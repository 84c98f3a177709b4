---------------------------- MODULE SearchIndex ----------------------------
(***************************************************************************)
(* SearchService.upsert_entry of search_service for one target: concurrent *)
(* calls, each with its session.  The row is committed with its content,   *)
(* and a second transaction then sets fts_tokens from the content the row  *)
(* has by that time.  SQLAlchemy writes the content only if it differs     *)
(* from what this call has selected.                                       *)
(***************************************************************************)
EXTENDS Naturals

CONSTANTS Upserts,     \* calls of upsert_entry
          Contents,    \* contents they index
          None

VARIABLES row,       \* None or the row: its content and what fts_tokens index
          upsert,    \* per call: where it is, its content, what it has seen
          cut        \* history: calls that ended between their two commits

searchVars == <<row, upsert, cut>>

Init ==
  /\ row = None
  /\ upsert = [u \in Upserts |-> [pc |-> "new", content |-> None, seen |-> None]]
  /\ cut = {}

Goto(u, pc) == upsert' = [upsert EXCEPT ![u].pc = pc]

Select(u) ==
  /\ upsert[u].pc = "new"
  /\ \E content \in Contents :
       upsert' = [upsert EXCEPT ![u] =
         [pc |-> "commit", content |-> content,
          seen |-> IF row = None THEN None ELSE row.content]]
  /\ UNCHANGED <<row, cut>>

\* The first commit.  Two calls that both found no row both insert: the
\* unique (target_type, target_id) refuses the second.
Commit(u) ==
  LET new == upsert[u].content
      seen == upsert[u].seen IN
  /\ upsert[u].pc = "commit"
  /\ IF seen = None /\ row # None
       THEN Goto(u, "failed") /\ UNCHANGED row
       ELSE /\ row' = IF seen = None
                        THEN [content |-> new, fts |-> None, by |-> u]
                      ELSE IF seen = new THEN row
                      ELSE [row EXCEPT !.content = new, !.by = u]
            /\ Goto(u, "index")
  /\ UNCHANGED cut

\* Slip: the tokens are those of the content this call was given.
TokensOfCall(u) == upsert[u].content

Tokens(u) == row.content

\* The UPDATE of fts_tokens and its commit.  With INFO enabled the log call
\* that follows raises; rollback then has nothing to undo.
Index(u) ==
  /\ upsert[u].pc = "index"
  /\ row' = [row EXCEPT !.fts = Tokens(u)]
  /\ \E outcome \in {"done", "raised"} : Goto(u, outcome)
  /\ UNCHANGED cut

\* A statement or a commit fails, or the process dies.
Fail(u) ==
  /\ upsert[u].pc \in {"commit", "index"}
  /\ cut' = IF upsert[u].pc = "index" THEN cut \cup {u} ELSE cut
  /\ Goto(u, "failed")
  /\ UNCHANGED row

Next == \E u \in Upserts : Select(u) \/ Commit(u) \/ Index(u) \/ Fail(u)

(***************************************************************************)
(* keyword_search finds what the row says: its tokens are those of its     *)
(* content, unless the call that wrote the content has not yet reached, or *)
(* was cut off before, its second commit.                                  *)
(***************************************************************************)
TokensCurrent ==
  row # None /\ row.fts # row.content =>
    upsert[row.by].pc = "index" \/ row.by \in cut
=============================================================================
