-------------------------- MODULE ContextAssembler --------------------------
(***************************************************************************)
(* ContextAssemblerService.assemble: which sources fit a token limit.  A   *)
(* source is its length in characters, the tokens it is thought to have,   *)
(* its priority and whether it is pinned; its place in the sequence is its *)
(* place in _sources.  Ids are distinct.  A source is cut in floating      *)
(* point, once at the most: lost is 1 when the product then falls below    *)
(* the whole number that it should be, as in int(49 * (1 / 49)).           *)
(***************************************************************************)
EXTENDS Integers, Sequences, FiniteSets

\* _default_tokenizer.
Tokens(chars) == chars \div 4

\* add_text.
Source(chars, priority, pinned, lost) ==
  [chars |-> chars, tokens |-> Tokens(chars), priority |-> priority,
   pinned |-> pinned, lost |-> lost]

ContextSource ==
  [chars : Nat, tokens : Nat, priority : Int, pinned : BOOLEAN, lost : 0..1]

\* Sources as add_text makes them, before any is cut.
Added(sources) ==
  /\ sources \in Seq(ContextSource)
  /\ \A i \in 1..Len(sources) : sources[i].tokens = Tokens(sources[i].chars)

\* The numbers at these places in a sequence of them, added up.
SumOver(numbers, places) ==
  LET sum[n \in 0..Len(numbers)] ==
        IF n = 0 THEN 0
        ELSE IF n \in places THEN sum[n - 1] + numbers[n]
        ELSE sum[n - 1] IN
  sum[Len(numbers)]

TokensOf(sources, places) ==
  SumOver([i \in DOMAIN sources |-> sources[i].tokens], places)

\* The texts at these places, each with the newline that joins it to the next.
LengthOf(sources, places) ==
  SumOver([i \in DOMAIN sources |-> sources[i].chars + 1], places)

\* What the tokenizer finds in the text that comes out, as a whole.
TextTokensOf(sources, places) ==
  IF places = {} THEN 0 ELSE Tokens(LengthOf(sources, places) - 1)

Pinned(sources) == {i \in DOMAIN sources : sources[i].pinned}

\* Of those left the one that sorted puts first: the highest priority first,
\* and as added among equals.
Foremost(sources, left) ==
  CHOOSE i \in left :
    \A j \in left : \/ sources[i].priority > sources[j].priority
                    \/ sources[i].priority = sources[j].priority /\ i <= j

Ellipsis == 3

CharsToKeep(source, remaining) ==
  (source.chars * remaining - source.lost) \div source.tokens

\* The proportional cut: the source stays in _sources as it is cut here.
Cut(source, remaining) ==
  [source EXCEPT !.chars = CharsToKeep(source, remaining) + Ellipsis,
                 !.tokens = remaining]

\* Slip: a source that does not fit whole is used whole.
TakeUncut(state, i, limit) ==
  LET tokens == state.sources[i].tokens
      round == [state EXCEPT !.left = @ \ {i}] IN
  IF state.total >= limit THEN [round EXCEPT !.dropped = Append(@, i)]
  ELSE IF state.total + tokens <= limit
    THEN [round EXCEPT !.used = @ \cup {i}, !.total = @ + tokens]
  ELSE [round EXCEPT !.used = @ \cup {i}, !.total = limit,
                     !.truncated = Append(@, i)]

\* What a round of the loop over the sources that are not pinned does to the
\* one it is at.
Take(state, i, limit) ==
  LET tokens == state.sources[i].tokens
      round == [state EXCEPT !.left = @ \ {i}] IN
  IF state.total >= limit THEN [round EXCEPT !.dropped = Append(@, i)]
  ELSE IF state.total + tokens <= limit
    THEN [round EXCEPT !.used = @ \cup {i}, !.total = @ + tokens]
  ELSE [round EXCEPT !.used = @ \cup {i}, !.total = limit,
                     !.truncated = Append(@, i),
                     !.sources[i] = Cut(@, limit - state.total)]

Round(state, limit) ==
  IF state.left = {} THEN state
  ELSE Take(state, Foremost(state.sources, state.left), limit)

\* Pinned sources beyond the limit raise a ValueError.
Raises(sources, limit) == TokensOf(sources, Pinned(sources)) > limit

\* used is the set of the places: in the end they are in their order again.
Assemble(sources, limit) ==
  LET start == [sources |-> sources, left |-> DOMAIN sources \ Pinned(sources),
                used |-> Pinned(sources), dropped |-> <<>>, truncated |-> <<>>,
                total |-> TokensOf(sources, Pinned(sources))]
      rounds[n \in 0..Len(sources)] ==
        IF n = 0 THEN start ELSE Round(rounds[n - 1], limit) IN
  rounds[Len(sources)]

(***************************************************************************)
(* The README's promises: what is pinned is used, and as it is; a source   *)
(* that does not get all it asks for has no higher priority than one that  *)
(* does; the tokens used add up to the total, which keeps to the limit.    *)
(* The text that comes out need not: each source's tokens are rounded      *)
(* down, newlines join them and an ellipsis ends a cut text.  It has up to *)
(* one token more than the limit for each source used.  Assembling once    *)
(* more uses and drops the same.                                           *)
(***************************************************************************)
AssemblyFits(sources, limit) ==
  LET result == Assemble(sources, limit)
      again == Assemble(result.sources, limit)
      whole == {i \in result.used : result.sources[i] = sources[i]} IN
  ~Raises(sources, limit) =>
    /\ result.total = TokensOf(result.sources, result.used)
    /\ result.total <= limit
    /\ TextTokensOf(result.sources, result.used)
         <= limit + Cardinality(result.used)
    /\ \A i \in DOMAIN sources :
         sources[i].pinned => i \in whole
    /\ \A i, j \in DOMAIN sources :
         i \notin whole /\ j \in whole /\ ~sources[j].pinned =>
           sources[i].priority <= sources[j].priority
    /\ again.used = result.used /\ again.dropped = result.dropped
=============================================================================
