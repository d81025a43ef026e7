----------------------------- MODULE TableReader -----------------------------
(***************************************************************************)
(* processors/table/table_processer.py: how the rows of an order are read  *)
(* from a sheet, and the sheets written from them.  A sheet is a sequence  *)
(* of rows of classified cells; a cell that was blank has type "EMPTY".    *)
(***************************************************************************)
EXTENDS Integers, Sequences, SequencesExt, FiniteSetsExt, SortedSets

\* CellType, the headers in the order of columnrules1; "SIZE" (SIZE_H) is no column rule.
HeaderOrder == <<"MAT", "WIDTH", "HEIGHT", "LENGTH", "AMOUNT", "BARCODE", "MARKING">>
HeaderTypes == Range(HeaderOrder)
CellTypes == HeaderTypes \cup {"SIZE", "TEXT", "NUMBER", "EMPTY"}

\* The value of a "NUMBER" cell in tenths.  classify looks at the text without blanks,
\* but the text is kept with them: "1 200" is a "NUMBER" that float() refuses.
Unreadable == -1

\* Worksheet.values: the rows are all as long as the first.
IsCell(cell, texts) ==
    /\ cell.type \in CellTypes
    /\ cell.type = "TEXT" => cell.value \in texts
    /\ cell.type = "NUMBER" => cell.value \in Nat \cup {Unreadable}
IsSheet(sheet, texts) ==
    /\ sheet \in Seq(Range(sheet))
    /\ \A r \in DOMAIN sheet :
        /\ sheet[r] \in Seq(Range(sheet[r])) /\ DOMAIN sheet[r] = DOMAIN sheet[1]
        /\ \A c \in DOMAIN sheet[r] : IsCell(sheet[r][c], texts)

-----------------------------------------------------------------------------
(* simple_parser, _parse_sheet                                              *)

Permitted(header) ==
    CASE header = "MAT" -> {"TEXT"}
      [] header \in {"BARCODE", "MARKING"} -> {"TEXT", "NUMBER"}
      [] OTHER -> {"NUMBER"}

\* header_variants, in which a row of headers must fit exactly.
Variants ==
    {sides \o extra :
        sides \in {<<"MAT", "WIDTH", "HEIGHT", "AMOUNT">>,
                   <<"MAT", "WIDTH", "LENGTH", "AMOUNT">>,
                   <<"MAT", "LENGTH", "HEIGHT", "AMOUNT">>},
        extra \in {<<>>, <<"BARCODE">>, <<"MARKING">>,
                   <<"BARCODE", "MARKING">>, <<"MARKING", "BARCODE">>}}

\* The columns of the headers in row r, in the order they are merged in: by type, then
\* from left to right.  The rows of the headers are the rows of the whole sheet's.
ColumnsOf(sheet, r, type) ==
    Ascending({c \in DOMAIN sheet[r] : sheet[r][c].type = type}, Len(sheet[r]))
HeaderColumns(sheet, r) ==
    FlattenSeq([t \in DOMAIN HeaderOrder |-> ColumnsOf(sheet, r, HeaderOrder[t])])
HeaderRows(sheet) == {r \in DOMAIN sheet : HeaderColumns(sheet, r) # <<>>}
Types(sheet, r) ==
    LET cols == HeaderColumns(sheet, r) IN [k \in DOMAIN cols |-> sheet[r][cols[k]].type]

MatchedVariants(sheet) ==
    {v \in Variants : \A r \in HeaderRows(sheet) : Types(sheet, r) = v}

\* The rows under the first header that are read: every target cell is there and of a
\* type its column permits.
AnyRow(sheet, r, cols, variant) ==
    \A k \in DOMAIN variant : sheet[r][cols[k]].type # "EMPTY"
FullRow(sheet, r, cols, variant) ==
    \A k \in DOMAIN variant : sheet[r][cols[k]].type \in Permitted(variant[k])

NothingRead == [headers |-> {}, rows |-> <<>>]

\* TableParseResults: per row the value of each header of the variant, with the row it
\* was read from.  MatchedVariants has at most one element where there is a header.
ReadSheet(sheet) ==
    IF HeaderRows(sheet) = {} \/ MatchedVariants(sheet) = {}
    THEN NothingRead
    ELSE LET first == Min(HeaderRows(sheet))
             variant == CHOOSE v \in MatchedVariants(sheet) : TRUE
             cols == HeaderColumns(sheet, first)
             rows == Ascending({r \in DOMAIN sheet : r > first /\ FullRow(sheet, r, cols, variant)},
                               Len(sheet))
         IN  [headers |-> Range(variant),
              rows |-> [i \in DOMAIN rows |->
                          [from |-> rows[i],
                           at |-> [h \in Range(variant) |->
                              sheet[rows[i]][cols[CHOOSE k \in DOMAIN variant :
                                                      variant[k] = h]].value]]]]

Materials(table) == {table.rows[i].at["MAT"] : i \in DOMAIN table.rows}

-----------------------------------------------------------------------------
(* make_request_xlsx and make_callculation_xlsx                             *)

Sides(headers) ==
    CASE "WIDTH" \notin headers -> <<"LENGTH", "HEIGHT">>
      [] "LENGTH" \notin headers -> <<"WIDTH", "HEIGHT">>
      [] "HEIGHT" \notin headers -> <<"WIDTH", "LENGTH">>
      [] OTHER -> <<>>

\* int(float(text))
Whole(tenths) == tenths \div 10

Field(row, header) == IF header \in DOMAIN row.at THEN row.at[header] ELSE ""

\* The cells of a row by column.  Those with a column of their own are written last, over
\* whatever entry of the material is there already.
WithEntries(own, first, entries) ==
    [c \in DOMAIN own \cup first..first + Len(entries) - 1 |->
        IF c \in DOMAIN own THEN own[c] ELSE entries[c - first + 1]]
RequestRow(table, row, element) ==
    LET own == [c \in {1, 11, 12, 13, 14, 16, 18} |->
                    CASE c = 1 -> row.at["MAT"]
                      [] c = 11 -> Whole(row.at[Sides(table.headers)[1]])
                      [] c = 12 -> Whole(row.at[Sides(table.headers)[2]])
                      [] c = 13 -> Whole(row.at["AMOUNT"])
                      [] c = 14 -> Field(row, "MARKING")
                      [] c = 16 -> Field(row, "BARCODE")
                      [] c = 18 -> element.postfix]
    IN  WithEntries(own, 2, element.matches)

\* The number of the row starts anew with every sheet.
CalculationRow(table, row, number, element) ==
    LET own == [c \in {1, 2, 10, 11, 17} |->
                    CASE c = 1 -> number
                      [] c = 2 -> Whole(row.at["AMOUNT"])
                      [] c = 10 -> Whole(row.at[Sides(table.headers)[1]])
                      [] c = 11 -> Whole(row.at[Sides(table.headers)[2]])
                      [] c = 17 -> "YES"]
    IN  WithEntries(own, 3, element.matches)

Written(tables) == {t \in DOMAIN tables : tables[t].rows # <<>>}

\* float() raises on a side or an amount it cannot read, and no file is made at all.
NumbersRaise(tables) ==
    \E t \in Written(tables) : \E i \in DOMAIN tables[t].rows :
        \E h \in Range(Sides(tables[t].headers)) \cup {"AMOUNT"} :
            tables[t].rows[i].at[h] = Unreadable

\* One sheet per sheet read, those with nothing in them empty; NoBook (None) when all are.
NoBook == <<>>
RequestBook(tables, elements) ==
    IF Written(tables) = {} THEN NoBook
    ELSE [t \in DOMAIN tables |->
            [i \in DOMAIN tables[t].rows |->
                LET row == tables[t].rows[i]
                IN  RequestRow(tables[t], row, elements[row.at["MAT"]])]]

\* All sheets read go to one sheet, one after the other.
CalculationBook(tables, elements) ==
    IF Written(tables) = {} THEN NoBook
    ELSE FlattenSeq([t \in DOMAIN tables |->
            [i \in DOMAIN tables[t].rows |->
                LET row == tables[t].rows[i]
                IN  CalculationRow(tables[t], row, i, elements[row.at["MAT"]])]])
=============================================================================
