----------------------------- MODULE FrozenReport -----------------------------
(***************************************************************************)
(* From the rows a driver returns to what an exported report shows:        *)
(* core/frozen-map.ts tags every value, the tagged rows reach the page as  *)
(* JSON, a block of a report shows them as a table or a chart              *)
(* (ui/report), and an export freezes the block into a file that draws     *)
(* itself where there is no Core (shared/snapshot.ts, snapshot/runtime.ts).*)
(*                                                                         *)
(* The report has a prose block and a query block.  The result of the      *)
(* query has column "b", perhaps preceded by "a"; the cells of "a" are     *)
(* texts.  Runs and their order are module ReportRuns.  One file is saved  *)
(* (bound), after which only the file changes.                             *)
(***************************************************************************)
EXTENDS Naturals, FiniteSets, Sequences

CONSTANTS JsValues,   \* what a cell may hold, of: null, boolean, number, nan, text,
                      \* digits (a text that is a number), date, far (a Date whose year
                      \* is not of four digits), no date (an invalid Date), bytes
          DataTypes,  \* SQL types of column b: none (unmapped), numeric, datetime
          RowsOf      \* bound: by run, the rows of its answer

ASSUME FrozenAssumption ==
    /\ JsValues \subseteq {"null", "boolean", "number", "nan", "text", "digits", "date", "far",
                           "no date", "bytes"}
    /\ DataTypes \subseteq {"none", "numeric", "datetime"}
    /\ RowsOf \in Seq(Nat)

VARIABLES
    frozenRuns, \* number of runs that were answered
    dbAnswer,   \* history: the database's answer to the last one
    queryBlock, \* ReportBlock: result, truncated, info or error, view, chart
    freezing,  \* exportingRef, and the block as it was given to runExport
    clicked,    \* history: the answer and the block when export was pressed
    frozenFile  \* the file that was saved: its form and its blocks

frozenVars == <<frozenRuns, dbAnswer, queryBlock, freezing, clicked, frozenFile>>

NoAnswer  == [types |-> <<>>, rows |-> <<>>]
NoResult  == [columns |-> <<>>, rows |-> <<>>]
NoChart   == "no chart"
NoExport  == [on |-> FALSE, block |-> <<>>]
NoFile    == [form |-> "none", block |-> <<>>]
Fallback  == <<"cannot open snapshot">>
EmptyQueryBlock == [result |-> NoResult, note |-> "none", truncated |-> FALSE,
                    view |-> "table", chart |-> NoChart]

-----------------------------------------------------------------------------
(* core/frozen-map.ts and shared/contract.ts.                              *)

\* Mutant of NaturalKind: every number is one.
NaturalKindOfAny(v) ==
    CASE v.js = "null"              -> "unknown"
      [] v.js = "boolean"           -> "boolean"
      [] v.js \in {"number", "nan"} -> "number"
      [] v.js \in {"date", "far"}   -> "date"
      [] OTHER                      -> "string"

\* naturalKind: infinities and NaN are strings, as is a Date that is none.
NaturalKind(v) ==
    CASE v.js = "null"            -> "unknown"
      [] v.js = "boolean"         -> "boolean"
      [] v.js = "number"          -> "number"
      [] v.js \in {"date", "far"} -> "date"
      [] OTHER                    -> "string"

\* inferColumnKind: the kind the values share, null aside.
InferColumnKind(column) ==
    LET kinds == {NaturalKind(column[i]) : i \in DOMAIN column} \ {"unknown"}
    IN  IF Cardinality(kinds) = 1 THEN CHOOSE k \in kinds : TRUE ELSE "string"

IsNaiveDateTimeType(type) == type = "datetime"

\* cellFor: the tag, the value and its form.
CellFor(v, kind, naive) ==
    LET isDate == v.js \in {"date", "far"}
        Cell(tag, form) == [kind |-> tag, of |-> v, as |-> form]
    IN  IF v.js = "null" THEN Cell("null", "none")
        ELSE IF naive /\ isDate THEN Cell("string", "wall clock")
        ELSE IF kind = "date" /\ v.js # "no date" THEN Cell("date", "iso")
        ELSE IF kind \in {"number", "boolean"} THEN Cell(kind, "value")
        ELSE Cell("string", IF isDate THEN "iso" ELSE "text")

RowsToFrozenData(types, rows) ==
    LET column(c) == [i \in DOMAIN rows |-> rows[i][c]]
        kind == [c \in DOMAIN types |-> IF IsNaiveDateTimeType(types[c]) THEN "string"
                                        ELSE InferColumnKind(column(c))]
    IN  [columns |-> [c \in DOMAIN types |-> [type |-> kind[c], dataType |-> types[c]]],
         rows |-> [i \in DOMAIN rows |-> [c \in DOMAIN types |->
                     CellFor(rows[i][c], kind[c], IsNaiveDateTimeType(types[c]))]]]

\* A result with its cells changed one by one.
MapCells(data, Change(_)) ==
    [data EXCEPT !.rows = [i \in DOMAIN data.rows |->
        [c \in DOMAIN data.rows[i] |-> Change(data.rows[i][c])]]]

\* The reply is JSON, which has no NaN.
CellOnTheWire(cell) ==
    IF cell.kind = "number" /\ cell.of.js = "nan" THEN [cell EXCEPT !.as = "null"] ELSE cell
OverTheWire(data) == MapCells(data, CellOnTheWire)

\* assertWellFormed; encodeCell: a number is finite, an instant canonical (which the
\* ISO form of a far date is not).
AssertWellFormed(data) ==
    \A i \in DOMAIN data.rows : \A c \in DOMAIN data.columns :
      data.rows[i][c].kind \in {"null", data.columns[c].type}
EncodesCell(cell) ==
    /\ cell.kind = "number" => cell.as # "null"
    /\ cell.kind = "date" => cell.of.js # "far"
Encodes(data) ==
    /\ AssertWellFormed(data)
    /\ \A i \in DOMAIN data.rows : \A c \in DOMAIN data.columns : EncodesCell(data.rows[i][c])

\* decodeCell: the digits beyond milliseconds are cut.
DecodeCell(cell) == IF cell.as = "iso too precise" THEN [cell EXCEPT !.as = "iso"] ELSE cell
Decode(data) == MapCells(data, DecodeCell)

FrozenColumnDisplayKind(col) ==
    CASE col.dataType = "numeric" -> "number" [] col.dataType = "datetime" -> "date" [] OTHER -> col.type

\* formatCell; cellValue, what a chart is drawn from.
FormatCell(cell) == [of |-> cell.of, as |-> IF cell.kind = "null" THEN "placeholder" ELSE cell.as]
CellValue(cell, displayKind) ==
    [of |-> cell.of,
     as |-> IF cell.kind = "string" /\ displayKind = "number" /\ cell.of.js = "digits" THEN "value"
            ELSE cell.as]

FrozenTable(data) == [i \in DOMAIN data.rows |-> [c \in DOMAIN data.columns |-> FormatCell(data.rows[i][c])]]
FrozenToRecords(data) ==
    [i \in DOMAIN data.rows |-> [c \in DOMAIN data.columns |->
        CellValue(data.rows[i][c], FrozenColumnDisplayKind(data.columns[c]))]]

-----------------------------------------------------------------------------
(* Charts: x is the first column, y the column that the chart names.       *)

YColumn(data, chart) == IF chart = "b" THEN Len(data.columns) ELSE 1

\* parseChartSpec: the columns are there.
ParseChartSpec(chart, data) ==
    IF chart = "a" /\ Len(data.columns) < 2 THEN NoChart ELSE chart

\* mapChart: y is shown as a number, and one of its cells is one.
MapChart(data, chart) ==
    /\ ParseChartSpec(chart, data) # NoChart
    /\ FrozenColumnDisplayKind(data.columns[YColumn(data, chart)]) = "number"
    /\ \E i \in DOMAIN data.rows :
         LET cell == data.rows[i][YColumn(data, chart)]
         IN  cell.kind = "number" \/ (cell.kind = "string" /\ cell.of.js = "digits")

-----------------------------------------------------------------------------
(* The report.                                                             *)

FrozenInit ==
    /\ frozenRuns = 0 /\ dbAnswer = NoAnswer /\ queryBlock = EmptyQueryBlock
    /\ freezing = NoExport /\ clicked = [answer |-> NoAnswer, block |-> EmptyQueryBlock]
    /\ frozenFile = NoFile

\* setBlockResult: toRowsResult has cut the rows beyond MAX_RESULT_ROWS.
RowsArrive(types, rows, more) ==
    /\ dbAnswer' = [types |-> types, rows |-> rows]
    /\ queryBlock' = [queryBlock EXCEPT !.result = OverTheWire(RowsToFrozenData(types, rows)),
                                        !.note = "none", !.truncated = more]

\* setBlockOk, setBlockError: the last result goes.
NoteArrives(note) ==
    /\ dbAnswer' = NoAnswer
    /\ queryBlock' = [queryBlock EXCEPT !.result = NoResult, !.note = note, !.truncated = FALSE]

\* Bound: an answer that comes during the export has no rows.
RowsNow == IF freezing.on THEN 0 ELSE RowsOf[frozenRuns + 1]

RunAnswered ==
    /\ frozenRuns < Len(RowsOf) /\ frozenFile = NoFile /\ frozenRuns' = frozenRuns + 1
    /\ \/ \E hasA, more \in BOOLEAN, type \in DataTypes, n \in 0 .. RowsNow :
            /\ more => n = RowsNow /\ n > 0
            /\ \E js \in [1 .. n -> JsValues] :
                 RowsArrive(IF hasA THEN <<"none", type>> ELSE <<type>>,
                            [i \in 1 .. n |-> LET b == [js |-> js[i], n |-> i]
                                              IN  IF hasA THEN <<[js |-> "text", n |-> i], b>> ELSE <<b>>],
                            more)
       \/ \E note \in {"info", "error"} : NoteArrives(note)
    /\ UNCHANGED <<freezing, clicked, frozenFile>>

SetBlockView(view) ==
    /\ queryBlock.result # NoResult /\ frozenFile = NoFile
    /\ queryBlock' = [queryBlock EXCEPT !.view = view]
    /\ UNCHANGED <<frozenRuns, dbAnswer, freezing, clicked, frozenFile>>

\* onChartChange: what does not fit the columns clears the chart.
ChangeChart(y) ==
    /\ queryBlock.result # NoResult /\ queryBlock.view = "chart" /\ frozenFile = NoFile
    /\ queryBlock' = [queryBlock EXCEPT !.chart = ParseChartSpec(y, queryBlock.result)]
    /\ UNCHANGED <<frozenRuns, dbAnswer, freezing, clicked, frozenFile>>

-----------------------------------------------------------------------------
(* The export and its file.                                                *)

\* toSnapshotBlock: what cannot be frozen becomes a note of its own.
ToSnapshotBlock(b) ==
    CASE b.result = NoResult -> [kind |-> IF b.note = "info" THEN "info" ELSE "no data"]
      [] b.result # NoResult /\ ~Encodes(b.result) -> [kind |-> "could not freeze"]
      [] OTHER -> [kind |-> IF b.view = "chart" /\ b.chart # NoChart /\ ParseChartSpec(b.chart, b.result) # NoChart
                            THEN "chart" ELSE "table",
                   data |-> b.result, truncated |-> b.truncated]

HandleExport ==
    /\ ~freezing.on /\ frozenFile = NoFile
    /\ freezing' = [on |-> TRUE, block |-> queryBlock]
    /\ clicked' = [answer |-> dbAnswer, block |-> queryBlock]
    /\ UNCHANGED <<frozenRuns, dbAnswer, queryBlock, frozenFile>>

\* Mutant of RuntimeFetched: the blocks are those of now.
RuntimeFetchedThenRead(fetched) ==
    /\ freezing.on /\ freezing' = NoExport
    /\ frozenFile' = IF fetched THEN [form |-> "saved", block |-> ToSnapshotBlock(queryBlock)] ELSE NoFile
    /\ UNCHANGED <<frozenRuns, dbAnswer, queryBlock, clicked>>

\* runExport: without the runtime nothing is downloaded.
RuntimeFetched(fetched) ==
    /\ freezing.on /\ freezing' = NoExport
    /\ frozenFile' = IF fetched THEN [form |-> "saved", block |-> ToSnapshotBlock(freezing.block)] ELSE NoFile
    /\ UNCHANGED <<frozenRuns, dbAnswer, queryBlock, clicked>>

\* The file is edited: it is no JSON any more, is of another version, or has a date
\* with microseconds or a cell that is not of its column's type.
EditFrozenCell(form, cell) ==
    IF form = "other tag" /\ cell.kind # "null" THEN [cell EXCEPT !.kind = "object"]
    ELSE IF form = "microseconds" /\ cell.kind = "date" THEN [cell EXCEPT !.as = "iso too precise"]
    ELSE cell

EditFrozenBlock(form, b) ==
    IF form \in {"microseconds", "other tag"}
    THEN [b EXCEPT !.data = MapCells(b.data, LAMBDA cell : EditFrozenCell(form, cell))]
    ELSE b

EditFile(form) ==
    /\ frozenFile.form = "saved"
    /\ form \in {"microseconds", "other tag"} => frozenFile.block.kind \in {"table", "chart"}
    /\ frozenFile' = [form |-> form, block |-> EditFrozenBlock(form, frozenFile.block)]
    /\ UNCHANGED <<frozenRuns, dbAnswer, queryBlock, freezing, clicked>>

IsSnapshotDoc(file) ==
    /\ file.form \notin {"no json", "other version"}
    /\ file.block.kind \in {"table", "chart"} => Encodes(file.block.data)

\* renderBlock: a chart and a table with the note that rows are missing.
RenderBlock(b) ==
    CASE b.kind = "table" -> <<"table", FrozenTable(b.data), b.truncated>>
      [] b.kind = "chart" -> <<"chart", FrozenToRecords(b.data), b.truncated>>
      [] OTHER -> <<b.kind>>

NormalizeSnapshotDoc(b) == IF b.kind \in {"table", "chart"} THEN [b EXCEPT !.data = Decode(b.data)] ELSE b

\* mountSnapshot: what the opened file shows.
MountSnapshot(file) ==
    IF IsSnapshotDoc(file) THEN <<"prose", RenderBlock(NormalizeSnapshotDoc(file.block))>> ELSE Fallback

FrozenNext ==
    \/ RunAnswered \/ HandleExport
    \/ \E view \in {"table", "chart"} : SetBlockView(view)
    \/ \E y \in {"a", "b"} : ChangeChart(y)
    \/ \E fetched \in BOOLEAN : RuntimeFetched(fetched)
    \/ \E form \in {"no json", "other version", "microseconds", "other tag"} : EditFile(form)

FrozenSpec == FrozenInit /\ [][FrozenNext]_frozenVars

-----------------------------------------------------------------------------

\* A text that stands for this value of the database: none is lost, and a time
\* without a zone is that of the database's clock.
StandsFor(text, v, type) ==
    /\ text.of = v
    /\ text.as = "placeholder" <=> v.js = "null"
    /\ text.as \notin {"null", "iso too precise"}
    /\ v.js \in {"date", "far"} => text.as = IF IsNaiveDateTimeType(type) THEN "wall clock" ELSE "iso"

\* A column of dates with a far one among them, which encode refuses.
HasFarDate(answer) ==
    \E c \in DOMAIN answer.types :
      /\ ~IsNaiveDateTimeType(answer.types[c])
      /\ \E i \in DOMAIN answer.rows : answer.rows[i][c].js = "far"
      /\ \A i \in DOMAIN answer.rows : answer.rows[i][c].js \in {"null", "date", "far"}

\* A file that was not edited shows the report of the moment export was pressed,
\* runs that ended later aside: its note, or for every cell of the database's answer
\* a text or a value of that cell, with the mark that rows are missing; a chart that
\* the report drew is drawn from the same values.  A file that was edited shows only
\* well-formed cells, or that it cannot be opened.
FrozenFileIsTrue ==
    frozenFile # NoFile =>
      LET b          == clicked.block
          a          == clicked.answer
          openedPage == MountSnapshot(frozenFile)
          p          == openedPage[2]
      IN  IF frozenFile.form = "saved"
          THEN /\ openedPage # Fallback
               /\ b.result = NoResult => p = <<IF b.note = "info" THEN "info" ELSE "no data">>
               /\ b.result # NoResult /\ ~HasFarDate(a) =>
                    /\ p[1] \in {"table", "chart"} /\ p[3] = b.truncated
                    /\ Len(p[2]) = Len(a.rows)
                    /\ p[1] = "table" => \A i \in DOMAIN a.rows : \A c \in DOMAIN a.types :
                                           StandsFor(p[2][i][c], a.rows[i][c], a.types[c])
                    /\ b.view = "table" => p[1] = "table"
                    /\ b.view = "chart" /\ b.chart # NoChart /\ MapChart(b.result, b.chart) =>
                         p = <<"chart", FrozenToRecords(b.result), b.truncated>>
          ELSE \/ openedPage = Fallback
               \/ frozenFile.form = "microseconds" /\ (p[1] = "table" =>
                    \A i \in DOMAIN a.rows : \A c \in DOMAIN a.types :
                      StandsFor(p[2][i][c], a.rows[i][c], a.types[c]))
               \/ frozenFile.form = "other tag" /\ \A i \in DOMAIN a.rows : \A c \in DOMAIN a.types :
                    a.rows[i][c].js = "null"

=============================================================================
