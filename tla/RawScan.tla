------------------------------- MODULE RawScan -------------------------------
(***************************************************************************)
(* What executor.ts does with a statement it is given as text: cut it at   *)
(* the semicolons that are not inside a comment, a string, an identifier   *)
(* or a dollar quote, read its words, and decide whether to refuse it, run *)
(* it as a bounded read, or ask first (src/src/core/executor.ts).          *)
(*                                                                         *)
(* A text is a sequence of symbols: a word, a white space or a punctuation *)
(* mark that begins or ends a span ("dq", "bq" and "semi" by name).  The   *)
(* variable is a text somebody types piece by piece on one of the          *)
(* connections; the scanner is compared at every step with a reading of the*)
(* same text one symbol at a time, the way a server lexes it.  Comments do *)
(* not nest in either (PostgreSQL's do).                                   *)
(***************************************************************************)
EXTENDS Naturals, Sequences, FiniteSets

CONSTANTS Sessions,  \* engine and SQL modes of the connections
          Pieces,    \* what may be typed next
          MaxPieces  \* bound: pieces of a text

Words     == {"select", "show", "into", "limit", "update", "a", "e"}
Space     == {"sp", "nl"}
Marks     == {"'", "dq", "bq", "\\", "semi", "-", "/", "*", "!", "$"}
IsWord(c) == c \in Words

ASSUME ScanAssumption ==
    /\ MaxPieces \in Nat
    /\ Pieces \subseteq Seq(Words \cup Space \cup Marks)
    /\ \A s \in Sessions : s.engine \in {"postgres", "mysql"} /\ s.standardStrings \in BOOLEAN
                           /\ s.ansiQuotes \in BOOLEAN /\ s.noBackslash \in BOOLEAN

VARIABLES scanModes, typed, typedPieces
scanVars == <<scanModes, typed, typedPieces>>

\* The symbol at a position, "end" outside the text, and a piece of the text.
At(sql, i)        == IF i \in DOMAIN sql THEN sql[i] ELSE "end"
Text(sql, i, len) == [k \in 1 .. len |-> At(sql, i + k - 1)]

-----------------------------------------------------------------------------
(* The scanner.                                                            *)

\* The first position of a set at or after i, or just past the end.
First(sql, i, positions) ==
    LET hits == {j \in positions : j >= i}
    IN  IF hits = {} THEN Len(sql) + 1 ELSE CHOOSE j \in hits : \A k \in hits : j <= k

\* The positions a loop over 1 .. n comes to from each one, if it goes on from
\* i to goesOn[i].
Stops(n, goesOn) ==
    LET From[i \in 1 .. n + 1] == IF i > n THEN {} ELSE {i} \cup From[goesOn[i]]
    IN  From

UpTo(n, i) == IF i > n THEN n + 1 ELSE i

\* Mutant of ConsumeDelimited: no escapes.
ConsumeDelimitedPlain(sql, start, delim, escapes) ==
    UpTo(Len(sql), First(sql, start + 1, {i \in DOMAIN sql : sql[i] = delim}) + 1)

\* The position after a span that opens at start: a loop that passes what is
\* escaped or doubled.
ConsumeDelimited(sql, start, delim, escapes) ==
    LET n == Len(sql)
        IsPair(i) == sql[i] \in escapes \/ (sql[i] = delim /\ At(sql, i + 1) = delim)
        at == Stops(n, [i \in 1 .. n |-> UpTo(n, IF IsPair(i) THEN i + 2 ELSE i + 1)])[start + 1]
    IN  UpTo(n, First(sql, start + 1, {i \in at : sql[i] = delim /\ ~IsPair(i)}) + 1)

\* The length of a dollar tag at i, 0 if none.
MatchDollarTag(sql, i) ==
    LET j == First(sql, i + 1, {k \in DOMAIN sql : ~IsWord(sql[k])})
    IN  IF At(sql, j) = "$" THEN j - i + 1 ELSE 0

\* What escapes in a span: with backslash: true, the backslash.
Escapes(backslash) == IF backslash THEN {"\\"} ELSE {}

\* Where lines and block comments end, and where the tag at i is found again.
LineEnds(sql)          == {j \in DOMAIN sql : sql[j] = "nl"}
BlockEnds(sql)         == {j \in DOMAIN sql : sql[j] = "*" /\ At(sql, j + 1) = "/"}
Matches(sql, i, len)   == {j \in DOMAIN sql : Text(sql, j, len) = Text(sql, i, len)}

\* The position after the comment, string, identifier or dollar quote at i, or i.
ConsumeSpan(sql, i, s) ==
    LET c    == sql[i]
        pg   == s.engine = "postgres"
        n    == Len(sql)
        estr == pg /\ At(sql, i - 1) = "e" /\ ~(IsWord(At(sql, i - 2)) \/ At(sql, i - 2) = "$")
        tag  == MatchDollarTag(sql, i)
    IN  CASE c = "-" /\ At(sql, i + 1) = "-" /\ (pg \/ At(sql, i + 2) \in Space \cup {"end"}) ->
               First(sql, i + 2, LineEnds(sql))
          [] c = "/" /\ At(sql, i + 1) = "*" -> UpTo(n, First(sql, i + 2, BlockEnds(sql)) + 2)
          [] pg /\ c = "$" ->
               IF tag = 0 THEN i ELSE UpTo(n, First(sql, i + tag, Matches(sql, i, tag)) + tag)
          [] ~pg /\ c = "bq" -> ConsumeDelimited(sql, i, "bq", Escapes(FALSE))
          [] c = "dq" ->
               ConsumeDelimited(sql, i, "dq", Escapes(~pg /\ ~s.ansiQuotes /\ ~s.noBackslash))
          [] c = "'"  -> ConsumeDelimited(sql, i, "'", Escapes(estr \/ (pg /\ ~s.standardStrings)
                                                                    \/ (~pg /\ ~s.noBackslash)))
          [] OTHER    -> i

\* The position the scan goes on from i to.
ScanOn(sql, i, s) == LET end == ConsumeSpan(sql, i, s) IN IF end > i THEN end ELSE i + 1

\* The positions of a text outside every span.
TopLevel(sql, s) ==
    LET at == Stops(Len(sql), [i \in DOMAIN sql |-> ScanOn(sql, i, s)])[1]
    IN  {i \in at : ConsumeSpan(sql, i, s) = i}

\* The words at the given positions: the first, and all of them.
WordsAt(sql, at) ==
    LET starts == {i \in at : IsWord(sql[i])}
    IN  [verb |-> At(sql, First(sql, 1, starts)), all |-> {sql[i] : i \in starts}]

TopLevelWords(sql, s) == WordsAt(sql, TopLevel(sql, s))

\* firstKeyword is null: nothing but white space and comments.
IsBlank(seg) ==
    LET n == Len(seg)
        IsLine(i)  == seg[i] = "-" /\ At(seg, i + 1) = "-"
        IsBlock(i) == seg[i] = "/" /\ At(seg, i + 1) = "*"
        Goes(i)    == CASE IsLine(i)  -> First(seg, i + 2, LineEnds(seg))
                        [] IsBlock(i) -> UpTo(n, First(seg, i + 2, BlockEnds(seg)) + 2)
                        [] OTHER      -> i + 1
        at == Stops(n, [i \in 1 .. n |-> Goes(i)])[1]
    IN  \A i \in at : seg[i] \in Space \/ IsLine(i) \/ IsBlock(i)

\* The cuts of a text, the segment after a cut, and those with something in them.
Cuts(sql, s)          == {0} \cup {i \in TopLevel(sql, s) : sql[i] = "semi"}
Segment(sql, cuts, c) == SubSeq(sql, c + 1, First(sql, c + 1, cuts) - 1)

SplitStatements(sql, cuts) == {c \in cuts : ~IsBlank(Segment(sql, cuts, c))}

Trim(seg) ==
    LET solid == {i \in DOMAIN seg : seg[i] \notin Space}
    IN  SubSeq(seg, CHOOSE i \in solid : \A j \in solid : i <= j,
                    CHOOSE i \in solid : \A j \in solid : j <= i)

\* boundRawRead: the bound goes on a line of its own; a SHOW gets none.
BoundRawRead(stmt, words) ==
    IF words.verb # "select" \/ words.all \cap {"limit", "update"} # {}
    THEN stmt ELSE stmt \o <<"nl", "limit">>

\* One statement: run as a read, run because it was confirmed, or asked about.
RunOrAsk(stmt, words, confirmed) ==
    IF words.verb \in {"select", "show"} /\ "into" \notin words.all
    THEN [how |-> "read", sql |-> BoundRawRead(stmt, words)]
    ELSE [how |-> IF confirmed THEN "run" ELSE "ask", sql |-> stmt]

Refused == [how |-> "refused", sql |-> <<>>]

\* executeRaw, up to the driver: what it runs, and how.
ExecuteRaw(sql, s, confirmed) ==
    LET cuts == Cuts(sql, s)
        statements == SplitStatements(sql, cuts)
        stmt == Trim(Segment(sql, cuts, CHOOSE c \in statements : TRUE))
    IN  IF Cardinality(statements) # 1 THEN Refused
        ELSE RunOrAsk(stmt, TopLevelWords(stmt, s), confirmed)

-----------------------------------------------------------------------------
(* The server's reading of a text.                                         *)

\* The state of the lexer: the span it is inside of, how many symbols of a mark it has
\* still to pass, a dollar tag.
In(span, skip) == [in |-> span, skip |-> skip, tag |-> <<>>]
Code           == In("code", 0)

\* What a symbol in the code opens.
Opens(sql, s, i) ==
    LET c   == sql[i]
        d   == At(sql, i + 1)
        pg  == s.engine = "postgres"
        tag == MatchDollarTag(sql, i)
    IN  CASE c = "-" /\ d = "-" /\ (pg \/ At(sql, i + 2) \in Space \cup {"end"}) -> In("line", 1)
          [] c = "/" /\ d = "*" -> In("block", 1)
          [] c = "$" /\ pg /\ tag > 0 -> [in |-> "dollar", skip |-> tag - 1, tag |-> Text(sql, i, tag)]
          [] c = "'" ->
               In(IF pg /\ At(sql, i - 1) = "e" /\ ~IsWord(At(sql, i - 2)) THEN "estring" ELSE "'", 0)
          [] c = "dq" \/ (c = "bq" /\ ~pg) -> In(c, 0)
          [] OTHER -> Code

\* Spans in which a backslash escapes, and the mark that ends a span.
Backslashed(s, span) ==
    \/ span = "estring"
    \/ span = "'" /\ (IF s.engine = "postgres" THEN ~s.standardStrings ELSE ~s.noBackslash)
    \/ span = "dq" /\ s.engine # "postgres" /\ ~s.ansiQuotes /\ ~s.noBackslash

Delim(span) == IF span = "estring" THEN "'" ELSE span

\* What a symbol inside a span does.
Inside(sql, s, st, i) ==
    LET c == sql[i]  d == At(sql, i + 1)  len == Len(st.tag)
    IN  CASE st.in = "line"   -> IF c = "nl" THEN Code ELSE st
          [] st.in = "block"  -> IF c = "*" /\ d = "/" THEN In("code", 1) ELSE st
          [] st.in = "dollar" -> IF Text(sql, i, len) = st.tag THEN In("code", len - 1) ELSE st
          [] OTHER -> IF c = "\\" /\ Backslashed(s, st.in) THEN In(st.in, 1)
                      ELSE IF c # Delim(st.in) THEN st
                      ELSE IF d = Delim(st.in) THEN In(st.in, 1) ELSE Code

LexStep(sql, s, st, i) ==
    IF st.skip > 0 THEN [st EXCEPT !.skip = @ - 1]
    ELSE IF st.in = "code" THEN Opens(sql, s, i) ELSE Inside(sql, s, st, i)

\* The state before each symbol.
Lexed(sql, s) ==
    LET Before[i \in 1 .. Len(sql) + 1] ==
          IF i = 1 THEN Code ELSE LexStep(sql, s, Before[i - 1], i - 1)
    IN  Before

ServerCode(sql, s) ==
    LET before == Lexed(sql, s)
    IN  {i \in DOMAIN sql : before[i].in = "code" /\ before[i].skip = 0}

-----------------------------------------------------------------------------

\* Texts whose symbols stand for what the server reads: in the code words do not touch, no
\* dollar tag follows a word (PostgreSQL reads it into the word, the scanner does not),
\* no E string follows a dollar (the server refuses such a text), and no comment of
\* MySQL's is an executable one, which is code to the server and to the scanner a comment.
Readable(sql, s) ==
    \A i \in ServerCode(sql, s) :
      /\ IsWord(sql[i]) \/ (sql[i] = "$" /\ MatchDollarTag(sql, i) > 0) => ~IsWord(At(sql, i - 1))
      /\ sql[i] = "'" /\ At(sql, i - 1) = "e" => At(sql, i - 2) # "$"
      /\ s.engine = "mysql" /\ sql[i] = "/" /\ At(sql, i + 1) = "*" => At(sql, i + 2) # "!"

ScanInit == scanModes \in Sessions /\ typed \in {<<>>, <<"select">>, <<"show">>} /\ typedPieces = 0

Type(piece) ==
    /\ typedPieces < MaxPieces /\ Readable(typed \o piece, scanModes)
    /\ typed' = typed \o piece
    /\ typedPieces' = typedPieces + 1
    /\ UNCHANGED scanModes

ScanNext == \E piece \in Pieces : Type(piece)

ScanSpec == ScanInit /\ [][ScanNext]_scanVars

-----------------------------------------------------------------------------
(* Properties.                                                             *)

\* What is handed to the driver is one statement as the server reads it, and a read is
\* to the server too a SELECT or a SHOW with no INTO, and a SELECT is bounded unless a
\* span was left open.
ServerAgrees(r, code, words) ==
    /\ \A i \in code : r.sql[i] # "semi"
    /\ r.how = "read" => /\ words.verb \in {"select", "show"} /\ "into" \notin words.all
                         /\ \/ words.verb = "show" \/ words.all \cap {"limit", "update"} # {}
                            \/ Lexed(r.sql, scanModes)[Len(r.sql)].in \notin {"code", "line"}

AgreesOn(r) ==
    LET code == ServerCode(r.sql, scanModes) IN ServerAgrees(r, code, WordsAt(r.sql, code))

\* Whatever is typed, in whatever SQL mode, the text handed to the driver is one
\* statement as the server reads it, and one that runs without being asked about
\* is to the server too a SELECT or a SHOW with no INTO; the row bound of a SELECT is
\* neither missing nor inside a comment.  (A span left open swallows the bound; the server
\* refuses the text.)
RawRunsOneStatement == AgreesOn(ExecuteRaw(typed, scanModes, TRUE))

=============================================================================
