------------------------ MODULE OrderSheetsInvariants ------------------------
(* What OrderSheets must keep, against definitions that do not use its own. *)
EXTENDS OrderSheets, MaterialLines

\* Every variable keeps its type, and the loop stays within the documents.
TypeOK ==
    /\ order.kind \in {"request", "calculation"}
    /\ step \in Steps
    /\ step \in {"end", "done"} \/ doc \in DOMAIN order.docs
    /\ \A s \in DOMAIN tables : tables[s].headers \subseteq HeaderTypes
    /\ \A m \in DOMAIN elements : DOMAIN elements[m] = {"prefix", "parts", "postfix", "matches"}
    /\ DOMAIN saved = DOMAIN order.docs
    /\ \A d \in DOMAIN saved : DOMAIN saved[d] = {"result", "articles", "counted"}
    /\ DOMAIN causes = DOMAIN order.docs
    /\ outcome \in {"none", "materials_review", "completed", "error", "raised"}
    /\ refused \in 0..MaxRefused

-----------------------------------------------------------------------------

ReadBefore(last) == {d \in 1..last : d \in DOMAIN order.docs /\ Readable(d)}
MaterialsOf(d) == UNION {Materials(ReadSheet(order.docs[d].sheets[s])) :
                            s \in DOMAIN order.docs[d].sheets}
PartsOf(d) == UNION {Range(Parse(m).parts) : m \in MaterialsOf(d)}

\* An exception leaves the handler exactly when a bracket has no partner in a material that
\* was reached, or answers are at hand and lack a part of one: it never escapes unnoticed into
\* a result, and no well-formed order runs into it (parser.py:184, main.py:223).
RaisedForCause ==
    step = "done" =>
        (outcome = "raised" <=>
            \E d \in ReadBefore(doc) :
                \/ \E m \in MaterialsOf(d) : ~Balanced(m)
                \/ order.answers # NoAnswers /\ ~(PartsOf(d) \subseteq order.answers))

\* No letter of a material's name is lost or moved by the splitting: prefix, parts and postfix
\* in a row hold those of the line.  In particular _clean_last_p never replaces a postfix
\* that was found before (parser.py:376).
NothingLost ==
    step = "match" => \A m \in DOMAIN elements :
        LettersOf(elements[m].prefix \o FlattenSeq(elements[m].parts) \o elements[m].postfix)
            = LettersOf(m)

\* A line is cut at one depth only: every part has its brackets in pairs, so that the
\* dictionary is never asked for half of a "16 (a+b)".  A blank part comes of a delimiter
\* with nothing before it, never of one at the end (parser.py:378).
PartsWellFormed ==
    step = "match" => \A m \in DOMAIN elements : \A k \in DOMAIN elements[m].parts :
        LET part == elements[m].parts[k]
        IN  /\ Balanced(part)
            /\ part = <<>> => \E i \in DOMAIN m : NoPartBefore(m, i)

-----------------------------------------------------------------------------
(* A sheet as a person reads it: the column of a size is that under its     *)
(* header, whatever the order of the columns.                               *)

UnderstoodHeaders ==
    {{"MAT", "WIDTH", "AMOUNT", side} \cup extra :
        side \in {"HEIGHT", "LENGTH"}, extra \in SUBSET {"BARCODE", "MARKING"}}

HeadersIn(sheet, r) == {sheet[r][c].type : c \in DOMAIN sheet[r]} \cap HeaderTypes
HeadedRows(sheet) == {r \in DOMAIN sheet : HeadersIn(sheet, r) # {}}
ColumnOf(sheet, r, h) == CHOOSE c \in DOMAIN sheet[r] : sheet[r][c].type = h
NoneTwice(sheet, r) ==
    \A c, d \in DOMAIN sheet[r] :
        c # d /\ sheet[r][c].type \in HeaderTypes => sheet[r][c].type # sheet[r][d].type

Understood(sheet) ==
    /\ HeadedRows(sheet) # {}
    /\ \A r \in HeadedRows(sheet) :
        /\ NoneTwice(sheet, r)
        /\ HeadersIn(sheet, r) = HeadersIn(sheet, Min(HeadedRows(sheet)))
        /\ HeadersIn(sheet, r) \in UnderstoodHeaders

Fits(sheet, r, first, h) ==
    LET type == sheet[r][ColumnOf(sheet, first, h)].type
    IN  \/ h = "MAT" /\ type = "TEXT"
        \/ h \in {"BARCODE", "MARKING"} /\ type \in {"TEXT", "NUMBER"}
        \/ h \notin {"MAT", "BARCODE", "MARKING"} /\ type = "NUMBER"

\* The last header above a row.
Governing(sheet, r) == Max({h \in HeadedRows(sheet) : h < r})
SameColumns(sheet, r) ==
    \A h \in HeadersIn(sheet, Governing(sheet, r)) :
        ColumnOf(sheet, Governing(sheet, r), h) = ColumnOf(sheet, Min(HeadedRows(sheet)), h)

\* The complete rows under an understood header, each value from the column of its header.
ReadAsUnderstood(sheet, read) ==
    LET first == Min(HeadedRows(sheet))
    IN  IF ~Understood(sheet) THEN read = <<>>
        ELSE /\ {read[i].from : i \in DOMAIN read} =
                    {r \in DOMAIN sheet : r > first /\ \A h \in HeadersIn(sheet, first) :
                                            Fits(sheet, r, first, h)}
             /\ \A i \in DOMAIN read : \A h \in HeadersIn(sheet, first) :
                    SameColumns(sheet, read[i].from) =>
                        read[i].at[h] = sheet[read[i].from][
                            ColumnOf(sheet, Governing(sheet, read[i].from), h)].value

\* Exactly the complete rows under an understood header are read, each value from the column
\* of its header; one that lacks a cell is left out without a word.  A later header with other
\* columns is the exception: the first one's are kept for the rows under it (table_processer.py:461).
RowsReadByMeaning ==
    step = "parse" =>
        \A s \in DOMAIN tables : ReadAsUnderstood(order.docs[doc].sheets[s], tables[s].rows)

-----------------------------------------------------------------------------

\* The entries of a row are those of its parts, in order and once, as far as the columns
\* before those of the sizes go; nothing else is in these columns.
HoldsEntries(cells, first, free, material) ==
    LET names == Parse(material).parts
    IN  \A c \in first..first + free - 1 :
            IF c - first + 1 \in DOMAIN names
            THEN c \in DOMAIN cells /\ cells[c] = Entry(names[c - first + 1])
            ELSE c \notin DOMAIN cells

\* The sizes are the width and the one other side the sheet has, whole numbers of them.
HoldsSizes(cells, columns, row) ==
    LET other == IF "HEIGHT" \in DOMAIN row.at THEN "HEIGHT" ELSE "LENGTH"
    IN  /\ cells[columns[1]] * 10 \in row.at["WIDTH"] - 9..row.at["WIDTH"]
        /\ cells[columns[2]] * 10 \in row.at[other] - 9..row.at[other]
        /\ cells[columns[3]] * 10 \in row.at["AMOUNT"] - 9..row.at["AMOUNT"]

ReadOf(d) == [s \in DOMAIN order.docs[d].sheets |-> ReadSheet(order.docs[d].sheets[s])]
AllRows(d) == FlattenSeq([s \in DOMAIN ReadOf(d) |-> ReadOf(d)[s].rows])

\* Every row read from a document is in its result files once, with one entry for each part of
\* its material and with its own sizes, however many documents came before it and shared
\* materials with it (main.py:221-223, table_processer.py:597).
BooksHoldRows ==
    step = "done" => \A d \in DOMAIN saved :
        /\ saved[d].result # NoBook =>
             LET cells == FlattenSeq(saved[d].result)
                 rows == AllRows(d)
             IN  /\ Len(cells) = Len(rows)
                 /\ \A i \in DOMAIN rows : /\ HoldsEntries(cells[i], 2, 9, rows[i].at["MAT"])
                                           /\ HoldsSizes(cells[i], <<11, 12, 13>>, rows[i])
        /\ saved[d].articles # NoBook =>
             LET cells == saved[d].articles
                 rows == AllRows(d)
             IN  /\ Len(cells) = Len(rows)
                 /\ \A i \in DOMAIN rows : /\ HoldsEntries(cells[i], 3, 7, rows[i].at["MAT"])
                                           /\ HoldsSizes(cells[i], <<10, 11, 2>>, rows[i])

\* One review is enough: it asks for all the parts of all documents that are not in the
\* dictionary or are on its black list, those of documents that come after the first open
\* question too (main.py:218).
AsksEverythingAtOnce ==
    outcome = "materials_review" =>
        questions = (UNION {PartsOf(d) : d \in ReadBefore(Len(order.docs))})
                        \cap (Unlisted \cup Blacklist)

-----------------------------------------------------------------------------
(* What makes them inductive: the state is a function of the documents read *)
(* so far.                                                                  *)

MaterialsUpTo(last) == UNION {MaterialsOf(d) : d \in ReadBefore(last)}
PartsUpTo(last) == UNION {PartsOf(d) : d \in ReadBefore(last)}
Asked(ps) == IF order.answers = NoAnswers THEN ps \cap (Unlisted \cup Blacklist) ELSE {}
MatchedOnce(e) == [e EXCEPT !.matches = @ \o [k \in DOMAIN e.parts |-> Entry(e.parts[k])]]
Blocks(d) ==
    \/ \E m \in MaterialsOf(d) : Raises(m)
    \/ order.answers # NoAnswers /\ ~(PartsOf(d) \subseteq order.answers)

\* The last document whose materials are parsed.
Parsed == IF step \in {"match", "write"} THEN doc ELSE doc - 1

\* The loop ends behind the last document, and only then the status is written.
DocumentsInOrder ==
    /\ order.docs \in Seq(Range(order.docs)) \ {<<>>}
    /\ step \in Steps
    /\ step \in {"open", "parse", "match", "write"} => doc \in 1..Len(order.docs)
    /\ step = "end" \/ (step = "done" /\ outcome # "raised") => doc = Len(order.docs) + 1
    /\ outcome = "raised" => doc \in 1..Len(order.docs)
    /\ outcome = "none" <=> step # "done"
    /\ outcome = "materials_review" => questions # {}

\* What make_request_xlsx will be given are the rows of the document at hand.
TablesAreOfDocument ==
    step \in {"parse", "match", "write"} => Readable(doc) /\ tables = ReadOf(doc)

\* unique_parts goes on from one document to the next.
PartsAreOfDocuments == outcome # "raised" => parts = PartsUpTo(Parsed)

\* So do the questions, which are asked of all of them; a document that has one is not written.
QuestionsAreOfDocuments ==
    /\ outcome # "raised" => questions = Asked(PartsUpTo(doc - 1))
    /\ step = "write" => LocalQuestions = {}

\* The materials of the document at hand are as if it were the only one.
ElementsAreOfDocuments ==
    /\ outcome # "raised" => DOMAIN elements = MaterialsUpTo(Parsed)
    /\ \A m \in DOMAIN elements :
        elements[m] = [Element(m) EXCEPT !.matches = elements[m].matches]
    /\ step = "match" => \A m \in MaterialsOf(doc) : elements[m] = Element(m)
    /\ step = "write" => \A m \in MaterialsOf(doc) : elements[m] = MatchedOnce(Element(m))

\* A document the loop went past raised nothing.
NoneBlocked ==
    /\ outcome # "raised" => \A d \in ReadBefore(doc - 1) : ~Blocks(d)
    /\ step = "match" => \A m \in MaterialsOf(doc) : ~Raises(m)
    /\ step = "write" => ~Blocks(doc)

\* As RaisedForCause, with the parser's own verdict on a line.
RaisedAsParsed ==
    step = "done" => (outcome = "raised" <=> \E d \in ReadBefore(doc) : Blocks(d))

\* The files of a document hold what its own rows give, whatever other documents of the order
\* shared materials with it.
OwnElements(d) == [m \in MaterialsOf(d) |-> MatchedOnce(Element(m))]
ResultsAreOwn ==
    \A d \in DOMAIN saved :
        /\ saved[d].result \in {NoBook, RequestBook(ReadOf(d), OwnElements(d))}
        /\ saved[d].articles \in {NoBook, CalculationBook(ReadOf(d), OwnElements(d))}

\* A document with a file ran into no exception.
SavedUnblocked ==
    \A d \in DOMAIN saved :
        saved[d].result # NoBook \/ saved[d].articles # NoBook => ~Blocks(d)

SheetsInv ==
    /\ TypeOK
    /\ DocumentsInOrder
    /\ TablesAreOfDocument
    /\ PartsAreOfDocuments
    /\ QuestionsAreOfDocuments
    /\ ElementsAreOfDocuments
    /\ NoneBlocked
    /\ RaisedAsParsed
    /\ ResultsAreOwn
=============================================================================
