---------------------------- MODULE MCOrderSheets ----------------------------
(* Small orders for OrderSheets: lines, sheets and sequences of documents. *)
EXTENDS OrderSheetsInvariants

CONSTANT none

MCDelims == {"-", "x"}
MCLetters == {"a", "b", "u", "v"}

Cell(type, value) == [type |-> type, value |-> value]
HeaderRow(types) == [c \in DOMAIN types |-> Cell(types[c], "")]
TextOf(line) == Cell("TEXT", line)
NumberOf(tenths) == Cell("NUMBER", tenths)
Plain == HeaderRow(<<"MAT", "WIDTH", "HEIGHT", "AMOUNT">>)
RowOf(line) == <<TextOf(line), NumberOf(12004), NumberOf(6000), NumberOf(20)>>

Ok(sheets) == [state |-> "ok", sheets |-> sheets]
Bad(state) == [state |-> state, sheets |-> <<>>]
OrderOf(kind, docs, answers) == [kind |-> kind, docs |-> docs, answers |-> answers]

\* Every line of up to five symbols that is a cell (no blanks around it), and every one of
\* six around a bracketed list.
Lines ==
    LET alphabet == {"(", ")", "[", "-", "x", "a", " "}
        any == UNION {[1..n -> alphabet] : n \in 1..4}
        nested == {<<"(">> \o l \o <<")">> : l \in [1..4 -> {"(", ")", "-", "a"}]}
                  \cup {<<"a", "-">> \o l : l \in [1..4 -> {"(", ")", "-", "x"}]}
                  \cup {l \o <<"]", "b">> : l \in [1..4 -> {"[", "-", "x", "a"}]}
    IN  {l \in any \cup nested : l[1] # " " /\ l[Len(l)] # " "}
LineOrders == {OrderOf("request", <<Ok(<<<<Plain, RowOf(l)>>>>)>>, none) : l \in Lines}

\* Every row of four headers over one complete row, and every order of an understood one over
\* every row of four cells.
Wide == <<TextOf(<<"a">>), NumberOf(10), NumberOf(20), NumberOf(30)>>
SomeCells == {TextOf(<<"b">>), NumberOf(45), Cell("EMPTY", "")}
HeaderChoices == [1..4 -> {"MAT", "WIDTH", "HEIGHT", "LENGTH", "AMOUNT", "SIZE"}]
WithHeight == {h \in HeaderChoices : Range(h) = {"MAT", "WIDTH", "HEIGHT", "AMOUNT"}}
WithLength == {h \in HeaderChoices : Range(h) = {"MAT", "LENGTH", "WIDTH", "AMOUNT"}}
\* A column of marks, and a second header whose columns are in another order.
Marked(h) ==
    {<<HeaderRow(h \o <<"MARKING">>), Wide \o <<cell>>, RowOf(<<"b">>) \o <<NumberOf(7)>>>> :
        cell \in SomeCells}
TwoHeaders(h) ==
    {<<Plain, Wide, HeaderRow(h), RowOf(<<"a">>), <<NumberOf(5), TextOf(<<"b">>), NumberOf(8), NumberOf(9)>>>>}
Sheets ==
    {<<HeaderRow(h), Wide>> : h \in HeaderChoices}
    \cup {<<HeaderRow(h), cells>> : h \in WithHeight, cells \in [1..4 -> SomeCells]}
    \cup UNION {Marked(h) \cup TwoHeaders(h) : h \in WithHeight \cup WithLength}
SheetOrders == {OrderOf("calculation", <<Ok(<<s>>)>>, none) : s \in Sheets}

\* Sequences of documents that share materials; u is not in the dictionary, v black-listed.
Two == <<"a", "-", "b", "-", "b">>
Unknown == <<"u", "-", "b", "-", "a">>
Black == <<"v">>
Unclosed == <<"(">>
Nine == FlattenSeq([k \in 1..8 |-> <<"a", "-">>]) \o <<"b">>
SpacedNumber == <<TextOf(<<"a">>), NumberOf(Unreadable), NumberOf(20), NumberOf(30)>>
Few ==
    {Ok(<<<<Plain, RowOf(Two), RowOf(<<"a">>)>>>>), Ok(<<<<Plain, RowOf(Unknown)>>>>),
     Ok(<<<<Plain, SpacedNumber>>>>), Bad("damaged")}
Documents ==
    Few \cup
    {Ok(<<<<Plain, RowOf(Two)>>, <<Plain, RowOf(Nine)>>>>), Ok(<<<<Plain, RowOf(Black), RowOf(<<"a">>)>>>>),
     Ok(<<<<Plain, RowOf(Unclosed)>>>>), Ok(<<<<>>>>), Bad("no access")}
Answers == {none, {<<"a">>, <<"b">>}, {<<"u">>, <<"a">>, <<"b">>}, {<<"u">>}}
DocumentOrders ==
    {OrderOf(kind, docs, answers) :
        kind \in {"request", "calculation"},
        docs \in UNION {[1..n -> Documents] : n \in 1..2} \cup [1..3 -> Few],
        answers \in Answers}

MCOrders == LineOrders \cup SheetOrders \cup DocumentOrders
MCUnlisted == {<<"u">>}
MCBlacklist == {<<"v">>}
=============================================================================
