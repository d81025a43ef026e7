----------------------------- MODULE OrderSheets -----------------------------
(***************************************************************************)
(* process_request_excel and process_calculation_excel of                  *)
(* processors/main.py seen from inside: what becomes of the rows of an     *)
(* order's documents.  TaskPipeline has the same handlers from outside, as *)
(* steps among the other writers of the tables.                            *)
(***************************************************************************)
EXTENDS MaterialParser, TableReader

CONSTANTS
    Orders,    \* [kind, docs, answers] an order may come as
    Unlisted,  \* parts without a row in mappings
    Blacklist, \* parts whose row has black_list
    NoAnswers, \* manual_decision IS NULL
    MaxRefused \* bound: uploads the object store refuses

ASSUME OrdersAssumption ==
    /\ \A o \in Orders : /\ o.kind \in {"request", "calculation"}
                         \* Without documents the order is in error at once.
                         /\ o.docs \in Seq(Range(o.docs)) \ {<<>>}
                         /\ \A d \in DOMAIN o.docs :
                                /\ o.docs[d].sheets \in Seq(Range(o.docs[d].sheets))
                                /\ \A s \in DOMAIN o.docs[d].sheets :
                                        IsSheet(o.docs[d].sheets[s], Seq(Symbols))
    /\ Unlisted \cap Blacklist = {}
    /\ MaxRefused \in Nat

VARIABLES
    order,     \* the task: its class, its documents and manual_decision
    doc,       \* the document the loop is at
    step,      \* what comes next for it
    tables,    \* res: its sheets as read
    elements,  \* unique_materials_dict
    parts,     \* unique_parts
    questions, \* of all documents so far
    saved,     \* result files per document: see Files
    causes,    \* file_errors: per document "none" or why it has no result
    outcome,   \* the status written at the end; "raised": an exception left the handler
    refused    \* counter against the bound

vars == <<order, doc, step, tables, elements, parts, questions, saved, causes, outcome, refused>>

\* A document that get_bytes_object or open_and_clean cannot give, or its sheets.
Readable(d) == order.docs[d].state = "ok"
Steps == {"open", "parse", "match", "write", "end", "done"}

NextDocumentLate ==
    /\ doc' = doc + 1
    /\ step' = IF doc > Len(order.docs) THEN "end" ELSE "open"
NextDocument ==
    /\ doc' = doc + 1
    /\ step' = IF doc = Len(order.docs) THEN "end" ELSE "open"

Raise == step' = "done" /\ outcome' = "raised"

\* get_bytes_object, open_and_clean, simple_parser
Open ==
    /\ step = "open"
    /\ IF Readable(doc)
       THEN /\ tables' = [s \in DOMAIN order.docs[doc].sheets |->
                            ReadSheet(order.docs[doc].sheets[s])]
            /\ step' = "parse"
            /\ UNCHANGED <<doc, causes>>
       ELSE /\ causes' = [causes EXCEPT ![doc] = order.docs[doc].state]
            /\ NextDocument
            /\ UNCHANGED tables
    /\ UNCHANGED <<order, elements, parts, questions, saved, outcome, refused>>

UniqueMaterials == UNION {Materials(tables[s]) : s \in DOMAIN tables}

\* A material met in an earlier document is parsed anew: its matches are empty again.
\* The same loop with `if material not in unique_materials_dict` would keep them.
Element(material) ==
    LET res == Parse(material)
    IN  [prefix |-> res.prefix, parts |-> res.parts, postfix |-> res.postfix, matches |-> <<>>]
ParsedElementsOnce ==
    [m \in DOMAIN elements \cup UniqueMaterials |->
        IF m \in DOMAIN elements THEN elements[m] ELSE Element(m)]
ParsedElements ==
    [m \in DOMAIN elements \cup UniqueMaterials |->
        IF m \in UniqueMaterials THEN Element(m) ELSE elements[m]]

\* parser.parse is called outside of any try.
ParseMaterials ==
    /\ step = "parse"
    /\ IF \E m \in UniqueMaterials : Raises(m)
       THEN Raise /\ UNCHANGED <<elements, parts>>
       ELSE /\ elements' = ParsedElements
            /\ parts' = parts \cup UNION {Range(Parse(m).parts) : m \in UniqueMaterials}
            /\ step' = "match"
            /\ UNCHANGED outcome
    /\ UNCHANGED <<order, doc, tables, questions, saved, causes, refused>>

\* local_questions: batch_find is asked for the parts of all documents so far, and only
\* when there are no answers.
LocalQuestions ==
    IF order.answers = NoAnswers THEN parts \cap (Unlisted \cup Blacklist) ELSE {}

\* matches: the entry of each part.
KnownParts == IF order.answers = NoAnswers THEN parts ELSE order.answers
Entry(part) == <<IF order.answers = NoAnswers THEN "mapping" ELSE "answer", part>>

\* The dictionary of all documents is gone through for each of them.
MatchedElements ==
    [m \in DOMAIN elements |->
        [elements[m] EXCEPT !.matches =
            @ \o [k \in DOMAIN elements[m].parts |-> Entry(elements[m].parts[k])]]]

AskAndReturn ==
    /\ step = "match"
    /\ LocalQuestions # {}
    /\ questions' = questions \cup LocalQuestions
    /\ step' = "end"
    /\ UNCHANGED <<order, doc, tables, elements, parts, saved, causes, outcome, refused>>

Ask ==
    /\ step = "match"
    /\ LocalQuestions # {}
    /\ questions' = questions \cup LocalQuestions
    /\ NextDocument
    /\ UNCHANGED <<order, tables, elements, parts, saved, causes, outcome, refused>>

\* matches[part] raises a KeyError outside of any try.
Match ==
    /\ step = "match"
    /\ LocalQuestions = {}
    /\ IF \A m \in DOMAIN elements : Range(elements[m].parts) \subseteq KnownParts
       THEN /\ elements' = MatchedElements
            /\ step' = "write"
            /\ UNCHANGED outcome
       ELSE Raise /\ UNCHANGED elements
    /\ UNCHANGED <<order, doc, tables, parts, questions, saved, causes, refused>>

\* make_request_xlsx, make_callculation_xlsx: no book, and why.
NoBookBecause ==
    CASE NumbersRaise(tables) -> {"internal"}
      [] ~NumbersRaise(tables) /\ Written(tables) = {} -> {"empty"}
      [] OTHER -> {}

MakeFails ==
    /\ step = "write"
    /\ \E cause \in NoBookBecause : causes' = [causes EXCEPT ![doc] = cause]
    /\ NextDocument
    /\ UNCHANGED <<order, tables, elements, parts, questions, saved, outcome, refused>>

\* put_bytes_object: the result, and for a calculation the articles after it.
Save ==
    /\ step = "write"
    /\ NoBookBecause = {}
    /\ saved' = [saved EXCEPT
                    ![doc].result = RequestBook(tables, elements),
                    ![doc].articles = IF order.kind = "calculation"
                                      THEN CalculationBook(tables, elements) ELSE @,
                    ![doc].counted = TRUE]
    /\ NextDocument
    /\ UNCHANGED <<order, tables, elements, parts, questions, causes, outcome, refused>>

\* A refused upload is only logged; a result whose articles are refused stays.
SaveRefused ==
    /\ step = "write"
    /\ NoBookBecause = {}
    /\ refused < MaxRefused
    /\ refused' = refused + 1
    /\ \/ UNCHANGED saved
       \/ /\ order.kind = "calculation"
          /\ saved' = [saved EXCEPT ![doc].result = RequestBook(tables, elements)]
    /\ NextDocument
    /\ UNCHANGED <<order, tables, elements, parts, questions, causes, outcome>>

\* The status of the task: at_leat_one_file_saved decides.
End ==
    /\ step = "end"
    /\ outcome' = CASE questions # {} -> "materials_review"
                    [] questions = {} /\ \E d \in DOMAIN saved : saved[d].counted -> "completed"
                    [] OTHER -> "error"
    /\ step' = "done"
    /\ UNCHANGED <<order, doc, tables, elements, parts, questions, saved, causes, refused>>

Init ==
    /\ order \in Orders
    /\ doc = 1
    /\ step = "open"
    /\ tables = <<>>
    /\ elements = <<>>
    /\ parts = {}
    /\ questions = {}
    /\ saved = [d \in DOMAIN order.docs |->
                    [result |-> NoBook, articles |-> NoBook, counted |-> FALSE]]
    /\ causes = [d \in DOMAIN order.docs |-> "none"]
    /\ outcome = "none"
    /\ refused = 0

Next ==
    \/ Open
    \/ ParseMaterials
    \/ Ask
    \/ Match
    \/ MakeFails
    \/ Save
    \/ SaveRefused
    \/ End

Spec == Init /\ [][Next]_vars
=============================================================================
