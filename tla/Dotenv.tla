------------------------------- MODULE Dotenv -------------------------------
(***************************************************************************)
(* A secret's way through a .env file: _format_value writes it on export,  *)
(* _parse_dotenv reads it back on push.  A character is one of those the   *)
(* two functions tell apart; CR stands for every line boundary of          *)
(* str.splitlines that is not a line feed.                                 *)
(***************************************************************************)
EXTENDS Naturals, Sequences

Backslash == "\\"
Quote == "\""
Apostrophe == "'"
LF == "LF"
CR == "CR"
Space == " "

Chars == {"n", "=", Backslash, Quote, Apostrophe, LF, CR, Space}

Has(value, cs) == \E i \in DOMAIN value : value[i] \in cs

(***************************************************************************)
(* _format_value.  The # and $ are quoted as a blank is, and otherwise not *)
(* told apart from a letter.                                               *)
(***************************************************************************)

NeedsQuoting(value) ==
  value = <<>> \/ Has(value, {Space, LF, CR, Quote, Apostrophe})

Escape(c) ==
  CASE c = Backslash -> <<Backslash, Backslash>>
    [] c = Quote -> <<Backslash, Quote>>
    [] c = LF -> <<Backslash, "n">>
    [] OTHER -> <<c>>

Escaped(value) ==
  LET escaped[n \in 0..Len(value)] ==
        IF n = 0 THEN <<>> ELSE escaped[n - 1] \o Escape(value[n]) IN
  escaped[Len(value)]

FormatValue(value) ==
  IF NeedsQuoting(value) THEN <<Quote>> \o Escaped(value) \o <<Quote>>
  ELSE value

(***************************************************************************)
(* _parse_dotenv, for the line of one key.                                 *)
(***************************************************************************)

\* splitlines: the value ends where its line does.  What is left of it is a
\* line of its own.
FirstLine(text) ==
  LET ends == {i \in DOMAIN text : text[i] \in {LF, CR}} IN
  IF ends = {} THEN text
  ELSE SubSeq(text, 1, (CHOOSE i \in ends : \A j \in ends : i <= j) - 1)

Strip(text) ==
  LET kept == {i \in DOMAIN text : text[i] # Space} IN
  IF kept = {} THEN <<>>
  ELSE SubSeq(text, CHOOSE i \in kept : \A j \in kept : i <= j,
                    CHOOSE i \in kept : \A j \in kept : j <= i)

\* replace of a backslash and the character b by c, from left to right: b makes
\* a c of the backslash that has just been read.
Unescape(text, b, c) ==
  LET read[n \in 0..Len(text)] ==
        IF n = 0 THEN <<>>
        ELSE LET before == read[n - 1] IN
          IF n > 1 /\ text[n - 1] = Backslash /\ text[n] = b
            THEN [before EXCEPT ![Len(before)] = c]
            ELSE Append(before, text[n]) IN
  read[Len(text)]

ParseValue(text) ==
  LET line == Strip(FirstLine(text))
      n == Len(line) IN
  IF n >= 2 /\ line[1] = line[n] /\ line[1] \in {Quote, Apostrophe}
    THEN Unescape(Unescape(SubSeq(line, 2, n - 1), Quote, Quote), "n", LF)
    ELSE line

\* A value comes back as it went out, unless it has a line boundary that is not
\* a line feed, or is quoted and has a backslash: _format_value doubles it, and
\* nothing undoes that.
RoundTrips(value) ==
  ParseValue(FormatValue(value)) = value
    <=> ~Has(value, {CR}) /\ ~(NeedsQuoting(value) /\ Has(value, {Backslash}))
=============================================================================
